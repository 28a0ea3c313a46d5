-------------------------- MODULE OrchestratorProofs --------------------------
(***************************************************************************)
(* What every interleaving of every number of goroutines, with any faults, *)
(* keeps true of tickets and their audit log.                              *)
(***************************************************************************)
EXTENDS OrchestratorProperties, SequenceTheorems, TLAPS

-----------------------------------------------------------------------------
(***************************************************************************)
(* Type correctness                                                        *)
(***************************************************************************)

\* Overwriting the columns that are set leaves a well-typed row.
LEMMA CoalesceType ==
  ASSUME NEW set \in Labels, NEW stored \in Labels
  PROVE  Coalesce(set, stored) \in Labels
BY DEF Coalesce, Labels

\* A verdict is a full set of labels.
LEMMA LabelsOfType ==
  ASSUME NEW v \in Verdict
  PROVE  LabelsOf(v) \in Labels
BY VerdictAssumption DEF LabelsOf, Labels, Classification

LEMMA UnlabelledType == Unlabelled \in Labels
BY DEF Unlabelled, Labels, Unset

\* A transition writes a well-typed ticket row and a well-typed audit row.
LEMMA TransitionType ==
  ASSUME StoreTypeOK,
         NEW t \in Ticket, NEW to \in TicketState, NEW actor \in Actor,
         NEW set \in Labels, NEW text \in Text \cup {None},
         state[t] \in TicketState,
         Transition(t, to, actor, set, text)
  PROVE  StoreTypeOK'
<1>1. state' \in [Ticket -> TicketState \cup {Absent}]
  BY DEF StoreTypeOK, Transition
<1>2. labels' \in [Ticket -> Labels]
  <2>1. Coalesce(set, labels[t]) \in Labels
    BY CoalesceType DEF StoreTypeOK
  <2> QED BY <2>1 DEF StoreTypeOK, Transition
<1>3. audit' \in [Ticket -> Seq(AuditRow)]
  <2> DEFINE row == [from |-> state[t], to |-> to, actor |-> actor, text |-> text]
  <2>1. row \in AuditRow
    BY DEF AuditRow
  <2>2. Append(audit[t], row) \in Seq(AuditRow)
    BY <2>1, AppendProperties DEF StoreTypeOK
  <2>3. audit' = [audit EXCEPT ![t] = Append(audit[t], row)]
    BY DEF Transition
  <2> QED BY <2>2, <2>3 DEF StoreTypeOK
<1> QED BY <1>1, <1>2, <1>3 DEF StoreTypeOK, Transition

\* Reply rows are added and overwritten, never removed.
RepliesStay == \A t \in Ticket : Len(replies[t]) <= Len(replies'[t])

\* When one worker moves on with a job that fits its next step, the jobs of
\* all workers are well typed again.
LEMMA CarryType ==
  ASSUME TypeOK, RepliesStay, StoreTypeOK',
         NEW w \in Worker, NEW l \in Step, NEW j \in Job,
         Carry(w, l, j), JobOK(w)', alerts' \in [Ticket -> Nat]
  PROVE  TypeOK'
<1>1. pc' \in [Worker -> Step]
  BY DEF TypeOK, Carry
<1>2. NoJob \in Job
  BY DEF NoJob, Job
<1>3. job' \in [Worker -> Job]
  BY <1>2 DEF TypeOK, Carry
<1>4. ASSUME NEW v \in Worker, v # w
      PROVE  JobOK(v)'
  <2>1. pc'[v] = pc[v] /\ job'[v] = job[v]
    BY <1>4 DEF TypeOK, Carry
  <2>2. JobOK(v)
    BY DEF TypeOK
  <2>3. CASE pc[v] \in {"finalizeApproved", "finalizeRejected"}
    <3>1. T(v) \in Ticket /\ job[v].reply \in 1 .. Len(replies[T(v)])
      BY <2>2, <2>3 DEF JobOK, Free
    <3>2. Len(replies[T(v)]) <= Len(replies'[T(v)])
      BY <3>1 DEF RepliesStay
    <3>3. Len(replies[T(v)]) \in Nat /\ Len(replies'[T(v)]) \in Nat
      BY <3>1, LenProperties DEF TypeOK, StoreTypeOK
    <3>4. job[v].reply \in 1 .. Len(replies'[T(v)])
      BY <3>1, <3>2, <3>3
    <3> QED BY <2>1, <2>2, <2>3, <3>4 DEF JobOK, T
  <2>4. CASE pc[v] \notin {"finalizeApproved", "finalizeRejected"}
    BY <2>1, <2>2, <2>4 DEF JobOK, T
  <2> QED BY <2>3, <2>4
<1> QED BY <1>1, <1>3, <1>4 DEF TypeOK

\* Going on to step l with the job as it is, or giving it up.
LEMMA GotoType ==
  ASSUME TypeOK, RepliesStay, StoreTypeOK',
         NEW w \in Worker, NEW l \in Step,
         Goto(w, l), l \notin Free => JobOK(w)', alerts' \in [Ticket -> Nat]
  PROVE  TypeOK'
<1>1. job[w] \in Job
  BY DEF TypeOK
<1>2. Carry(w, l, job[w])
  BY DEF Goto
<1>3. l \in Free => JobOK(w)'
  BY <1>2 DEF TypeOK, Carry, JobOK, Free, ApproveSteps
<1> QED BY <1>1, <1>2, <1>3, CarryType

\* A worker that calls store.Apply.
LEMMA ApplyType ==
  ASSUME TypeOK, NEW w \in Worker, T(w) \in Ticket,
         NEW from \in TicketState, NEW to \in TicketState, NEW actor \in Actor,
         NEW set \in Labels, NEW text \in Text \cup {None},
         NEW next \in Free \cup ClassifySteps \cup DraftSteps \cup {"alert", "startDraft"},
         next \notin {"saveClassification", "park", "route", "saveDraft"},
         Apply(w, from, to, actor, set, text, next)
  PROVE  TypeOK'
<1>1. alerts' \in [Ticket -> Nat]
  BY DEF TypeOK, Apply
<1>2. next \in Step
  BY DEF Step
<1>3. CASE Transition(T(w), to, actor, set, text) /\ Matches(T(w), from) /\ Goto(w, next)
  <2>1. StoreTypeOK'
    BY <1>3, TransitionType DEF TypeOK, Matches
  <2>2. RepliesStay
    BY <1>3, LenProperties DEF RepliesStay, Transition, TypeOK, StoreTypeOK
  <2>3. next \notin Free => JobOK(w)'
    BY <1>3 DEF TypeOK, Goto, Carry, JobOK, T, Free, ApproveSteps, ClassifySteps, DraftSteps
  <2> QED BY <1>1, <1>2, <1>3, <2>1, <2>2, <2>3, GotoType
<1>4. CASE Goto(w, "failed") /\ UNCHANGED storeVars
  <2>1. StoreTypeOK' /\ RepliesStay
    BY <1>4, LenProperties DEF TypeOK, StoreTypeOK, storeVars, RepliesStay
  <2> QED BY <1>1, <1>4, <2>1, GotoType DEF Free, Step
<1> QED BY <1>3, <1>4 DEF Apply

\* A step that reads the database and writes nothing to it.
LEMMA ReadType ==
  ASSUME TypeOK, UNCHANGED <<storeVars, alerts>>,
         NEW w \in Worker, NEW l \in Step, NEW j \in Job,
         Carry(w, l, j), l \notin Free => JobOK(w)'
  PROVE  TypeOK'
<1>1. StoreTypeOK' /\ RepliesStay /\ alerts' \in [Ticket -> Nat]
  BY LenProperties DEF TypeOK, StoreTypeOK, storeVars, RepliesStay
<1>2. l \in Free => JobOK(w)'
  BY DEF TypeOK, Carry, JobOK, Free, ApproveSteps
<1> QED BY <1>1, <1>2, CarryType

\* Types are kept by everything a request does before it has a job.
LEMMA RequestType ==
  ASSUME TypeOK, NEW w \in Worker, Request(w)
  PROVE  TypeOK'
<1>1. ASSUME NEW k \in Key, ReceiveEmail(w, k)  PROVE TypeOK'
  <2>1. CASE Carry(w, "insert", [NoJob EXCEPT !.key = k])
    <3>1. [NoJob EXCEPT !.key = k] \in Job
      BY DEF NoJob, Job
    <3>2. JobOK(w)'
      BY <2>1 DEF TypeOK, Carry, JobOK, Free, NoJob, ApproveSteps
    <3> QED BY <1>1, <2>1, <3>1, <3>2, ReadType DEF ReceiveEmail, Step
  <2>2. ASSUME NEW t \in Holders(k),
               Carry(w, "existing", [NoJob EXCEPT !.ticket = t])
        PROVE  TypeOK'
    <3>1. t \in Ticket
      BY DEF Holders
    <3>2. [NoJob EXCEPT !.ticket = t] \in Job
      BY <3>1 DEF NoJob, Job
    <3>3. JobOK(w)'
      BY <2>2, <3>1 DEF TypeOK, Carry, JobOK, T, Free, NoJob, ApproveSteps
    <3> QED BY <1>1, <2>2, <3>2, <3>3, ReadType DEF ReceiveEmail, Step
  <2> QED BY <1>1, <2>1, <2>2 DEF ReceiveEmail
<1>2. ASSUME NEW t \in Ticket, NEW d \in Decision, ReviewClassification(w, t, d)
      PROVE  TypeOK'
  <2>1. CASE /\ ValidDecision(d)
             /\ Matches(t, "AWAITING_CLASSIFICATION_REVIEW")
             /\ Transition(t, "ROUTED", "human", d, None)
             /\ Carry(w, "startDraft", [NoJob EXCEPT !.ticket = t])
    <3>1. StoreTypeOK'
      BY <2>1, TransitionType
      DEF TypeOK, ValidDecision, Matches, TicketState, Actor
    <3>2. RepliesStay
      BY <2>1, LenProperties DEF RepliesStay, Transition, TypeOK, StoreTypeOK
    <3>3. [NoJob EXCEPT !.ticket = t] \in Job
      BY DEF NoJob, Job
    <3>4. JobOK(w)'
      BY <2>1 DEF TypeOK, Carry, JobOK, T, Free, NoJob, ApproveSteps
    <3>5. alerts' \in [Ticket -> Nat] /\ "startDraft" \in Step
      BY <1>2 DEF TypeOK, ReviewClassification, Step
    <3> QED BY <2>1, <3>1, <3>2, <3>3, <3>4, <3>5, CarryType
  <2>2. CASE Goto(w, "failed") /\ UNCHANGED storeVars
    <3>1. UNCHANGED <<storeVars, alerts>> /\ job[w] \in Job
      BY <1>2, <2>2 DEF ReviewClassification, TypeOK
    <3> QED BY <2>2, <3>1, ReadType DEF Goto, Free, Step
  <2> QED BY <1>2, <2>1, <2>2 DEF ReviewClassification
<1>3. ASSUME NEW t \in Ticket, NEW x \in Text \cup {Blank},
             NEW next \in {"finalizeApproved", "finalizeRejected"},
             next = "finalizeApproved" => x \in Text,
             next = "finalizeRejected" => x = Blank,
             BeginDecision(w, t, x, next)
      PROVE  TypeOK'
  <2>1. CASE /\ LatestReplyID(t) # 0
             /\ Carry(w, next, [NoJob EXCEPT !.ticket = t, !.text = x,
                                             !.reply = LatestReplyID(t)])
    <3>1. LatestReplyID(t) \in Nat /\ LatestReplyID(t) \in 1 .. Len(replies[t])
      BY <2>1, LenProperties DEF LatestReplyID, TypeOK, StoreTypeOK
    <3>2. [NoJob EXCEPT !.ticket = t, !.text = x,
                        !.reply = LatestReplyID(t)] \in Job
      BY <3>1 DEF NoJob, Job
    <3>3. replies' = replies
      BY <1>3 DEF BeginDecision, storeVars
    <3>4. JobOK(w)'
      BY <1>3, <2>1, <3>1, <3>3
      DEF TypeOK, Carry, JobOK, T, Free, NoJob, ApproveSteps
    <3> QED BY <1>3, <2>1, <3>2, <3>4, ReadType DEF BeginDecision, Step, ApproveSteps, RejectSteps
  <2>2. CASE Goto(w, "failed")
    BY <1>3, <2>2, ReadType DEF BeginDecision, Goto, Free, Step, TypeOK
  <2> QED BY <1>3, <2>1, <2>2 DEF BeginDecision
<1>4. ASSUME NEW t \in Ticket, NEW x \in Text \cup {Blank}, ApproveReply(w, t, x)
      PROVE  TypeOK'
  <2>1. CASE x # Blank /\ BeginDecision(w, t, x, "finalizeApproved")
    BY <1>3, <2>1
  <2>2. CASE Goto(w, "failed") /\ UNCHANGED <<storeVars, alerts>>
    BY <2>2, ReadType DEF Goto, Free, Step, TypeOK
  <2> QED BY <1>4, <2>1, <2>2 DEF ApproveReply
<1>5. ASSUME NEW t \in Ticket, RejectReply(w, t)
      PROVE  TypeOK'
  BY <1>3, <1>5 DEF RejectReply
<1> QED BY <1>1, <1>2, <1>4, <1>5 DEF Request

\* Types are kept by every step of a request that is being served.
LEMMA ServeType ==
  ASSUME TypeOK, NEW w \in Worker, Serve(w)
  PROVE  TypeOK'
<1> USE DEF Free, ClassifySteps, DraftSteps
<1>0. /\ job[w] \in Job /\ JobOK(w)
      /\ None \in Text \cup {None} /\ Unlabelled \in Labels
  BY UnlabelledType DEF TypeOK
<1>1. CASE CreateTicket(w)
  <2>1. ASSUME NEW t \in Ticket, InsertTicketAndEmail(t, job[w].key),
               Carry(w, "claim", [NoJob EXCEPT !.ticket = t])
        PROVE  TypeOK'
    <3>1. job[w].key \in Key
      BY <1>0, <1>1 DEF CreateTicket, At, JobOK
    <3>2. StoreTypeOK'
      BY <2>1, <3>1 DEF TypeOK, StoreTypeOK, InsertTicketAndEmail, TicketState
    <3>3. RepliesStay
      BY <2>1, LenProperties
      DEF RepliesStay, InsertTicketAndEmail, TypeOK, StoreTypeOK
    <3>4. [NoJob EXCEPT !.ticket = t] \in Job /\ "claim" \in Step
      BY DEF NoJob, Job, Step
    <3>5. JobOK(w)'
      BY <2>1 DEF TypeOK, Carry, JobOK, T, NoJob, ApproveSteps
    <3>6. alerts' \in [Ticket -> Nat]
      BY <1>1 DEF CreateTicket, TypeOK
    <3> QED BY <2>1, <3>2, <3>3, <3>4, <3>5, <3>6, CarryType
  <2>2. CASE Goto(w, "failed") /\ UNCHANGED storeVars
    BY <1>0, <1>1, <2>2, ReadType DEF CreateTicket, Goto, Step
  <2> QED BY <1>1, <2>1, <2>2 DEF CreateTicket
<1>2. CASE ReadExisting(w)
  <2>1. T(w) \in Ticket
    BY <1>0, <1>2 DEF ReadExisting, At, JobOK
  <2>2. PICK l \in {"claim", "done"} : Goto(w, l)
    BY <1>2 DEF ReadExisting
  <2>3. l \notin Free => JobOK(w)'
    BY <2>1, <2>2 DEF TypeOK, Goto, Carry, JobOK, T, ApproveSteps
  <2> QED BY <1>0, <1>2, <2>2, <2>3, ReadType DEF ReadExisting, Goto, Step
<1>3. CASE ClaimNew(w)
  <2>1. T(w) \in Ticket
    BY <1>0, <1>3 DEF ClaimNew, At, JobOK
  <2> QED BY <1>0, <1>3, <2>1, ApplyType DEF ClaimNew, TicketState, Actor
<1>4. CASE Classify(w)
  <2>1. T(w) \in Ticket
    BY <1>0, <1>4 DEF Classify, At, JobOK
  <2>2. ASSUME NEW v \in Verdict,
               Carry(w, "saveClassification", [job[w] EXCEPT !.verdict = v])
        PROVE  TypeOK'
    <3>1. [job[w] EXCEPT !.verdict = v] \in Job
      BY <1>0 DEF Job
    <3>2. JobOK(w)'
      BY <1>0, <2>1, <2>2 DEF TypeOK, Carry, JobOK, T, Job, ApproveSteps
    <3> QED BY <1>4, <2>2, <3>1, <3>2, ReadType DEF Classify, Step
  <2>3. CASE Goto(w, "parkError")
    <3>1. JobOK(w)'
      BY <2>1, <2>3 DEF TypeOK, Goto, Carry, JobOK, T, ApproveSteps
    <3> QED BY <1>0, <1>4, <2>3, <3>1, ReadType DEF Classify, Goto, Step
  <2> QED BY <1>4, <2>2, <2>3 DEF Classify
<1>5. CASE ParkOnError(w)
  <2>1. T(w) \in Ticket
    BY <1>0, <1>5 DEF ParkOnError, At, JobOK
  <2> QED BY <1>0, <1>5, <2>1, ApplyType DEF ParkOnError, TicketState, Actor
<1>6. CASE RecordClassification(w)
  <2>1. T(w) \in Ticket /\ job[w].verdict \in Verdict
    BY <1>0, <1>6 DEF RecordClassification, At, JobOK
  <2>2. Append(classifications[T(w)], job[w].verdict) \in Seq(Verdict)
    BY <2>1, AppendProperties DEF TypeOK, StoreTypeOK
  <2>3. StoreTypeOK'
    BY <1>6, <2>1, <2>2
    DEF RecordClassification, SaveClassification, TypeOK, StoreTypeOK
  <2>4. RepliesStay /\ alerts' \in [Ticket -> Nat]
    BY <1>6, LenProperties
    DEF RecordClassification, SaveClassification, RepliesStay, TypeOK, StoreTypeOK
  <2>5. PICK l \in {"park", "route"} : Goto(w, l)
    BY <1>6 DEF RecordClassification
  <2>6. JobOK(w)'
    BY <2>1, <2>5 DEF TypeOK, Goto, Carry, JobOK, T, ApproveSteps
  <2> QED BY <2>3, <2>4, <2>5, <2>6, GotoType DEF Step
<1>7. CASE ParkForReview(w)
  <2>1. T(w) \in Ticket /\ job[w].verdict \in Verdict
    BY <1>0, <1>7 DEF ParkForReview, At, JobOK
  <2>2. LabelsOf(job[w].verdict) \in Labels
    BY <2>1, LabelsOfType
  <2> QED BY <1>0, <1>7, <2>1, <2>2, ApplyType DEF ParkForReview, TicketState, Actor
<1>8. CASE SendAlert(w)
  <2>1. T(w) \in Ticket /\ alerts' \in [Ticket -> Nat]
    BY <1>0, <1>8 DEF SendAlert, At, JobOK, TypeOK
  <2>2. StoreTypeOK' /\ RepliesStay
    BY <1>8, LenProperties DEF SendAlert, TypeOK, StoreTypeOK, storeVars, RepliesStay
  <2> QED BY <1>8, <2>1, <2>2, GotoType DEF SendAlert, Step
<1>9. CASE AutoRoute(w)
  <2>1. T(w) \in Ticket /\ job[w].verdict \in Verdict
    BY <1>0, <1>9 DEF AutoRoute, At, JobOK
  <2>2. LabelsOf(job[w].verdict) \in Labels
    BY <2>1, LabelsOfType
  <2> QED BY <1>0, <1>9, <2>1, <2>2, ApplyType DEF AutoRoute, TicketState, Actor
<1>10. CASE StartDraft(w)
  <2>1. T(w) \in Ticket
    BY <1>0, <1>10 DEF StartDraft, At, JobOK
  <2> QED BY <1>0, <1>10, <2>1, ApplyType DEF StartDraft, TicketState, Actor
<1>11. CASE DraftReply(w)
  <2>1. T(w) \in Ticket
    BY <1>0, <1>11 DEF DraftReply, At, JobOK
  <2>2. PICK x \in Text \cup {Blank} : Carry(w, "saveDraft", [job[w] EXCEPT !.text = x])
    BY <1>11 DEF DraftReply
  <2>3. [job[w] EXCEPT !.text = x] \in Job
    BY <1>0 DEF Job
  <2>4. JobOK(w)'
    BY <1>0, <2>1, <2>2 DEF TypeOK, Carry, JobOK, T, Job, ApproveSteps
  <2> QED BY <1>11, <2>2, <2>3, <2>4, ReadType DEF DraftReply, Step
<1>12. CASE RecordDraft(w)
  <2> DEFINE row == [draft |-> job[w].text, status |-> "draft", finalText |-> None]
  <2>1. T(w) \in Ticket /\ job[w].text \in Text \cup {Blank}
    BY <1>0, <1>12 DEF RecordDraft, At, JobOK
  <2>2. row \in ReplyRow
    BY <2>1 DEF ReplyRow, ReplyStatus
  <2>3. /\ Append(replies[T(w)], row) \in Seq(ReplyRow)
        /\ Len(Append(replies[T(w)], row)) = Len(replies[T(w)]) + 1
        /\ Len(replies[T(w)]) \in Nat
    BY <2>1, <2>2, AppendProperties, LenProperties DEF TypeOK, StoreTypeOK
  <2>4. replies' = [replies EXCEPT ![T(w)] = Append(replies[T(w)], row)]
    BY <1>12 DEF RecordDraft, SaveReplyDraft
  <2> HIDE DEF row
  <2>5. StoreTypeOK' /\ alerts' \in [Ticket -> Nat]
    BY <1>12, <2>3, <2>4 DEF RecordDraft, SaveReplyDraft, TypeOK, StoreTypeOK
  <2>6. RepliesStay
    BY <2>1, <2>3, <2>4, LenProperties DEF RepliesStay, TypeOK, StoreTypeOK
  <2>7. Goto(w, "parkReply")
    BY <1>12 DEF RecordDraft
  <2>8. JobOK(w)'
    BY <2>1, <2>7 DEF TypeOK, Goto, Carry, JobOK, T, ApproveSteps
  <2> QED BY <2>5, <2>6, <2>7, <2>8, GotoType DEF Step
<1>13. CASE ParkReply(w)
  <2>1. T(w) \in Ticket
    BY <1>0, <1>13 DEF ParkReply, At, JobOK
  <2> QED BY <1>0, <1>13, <2>1, ApplyType DEF ParkReply, TicketState, Actor
<1>14. ASSUME NEW status \in ReplyStatus, NEW x \in Text \cup {Blank}, NEW l \in {"resolve", "redraft"},
              T(w) \in Ticket, job[w].reply \in 1 .. Len(replies[T(w)]),
              x = job[w].text, l = "resolve" => x \in Text,
              FinalizeReply(T(w), job[w].reply, status, x),
              Goto(w, l), UNCHANGED alerts
       PROVE  TypeOK'
  <2> DEFINE old == replies[T(w)][job[w].reply]
             new == [old EXCEPT !.status = status, !.finalText = x]
  <2>1. old \in ReplyRow
    BY <1>14, ElementOfSeq DEF TypeOK, StoreTypeOK
  <2>2. new \in ReplyRow
    BY <2>1 DEF ReplyRow
  <2>3. replies[T(w)] \in Seq(ReplyRow)
    BY <1>14 DEF TypeOK, StoreTypeOK
  <2>4. replies' = [replies EXCEPT ![T(w)] = [@ EXCEPT ![job[w].reply] = new]]
    BY <1>14, <2>3 DEF FinalizeReply, TypeOK, StoreTypeOK
  <2> HIDE DEF old, new
  <2>5. /\ [replies[T(w)] EXCEPT ![job[w].reply] = new] \in Seq(ReplyRow)
        /\ Len([replies[T(w)] EXCEPT ![job[w].reply] = new]) = Len(replies[T(w)])
    BY <1>14, <2>2, <2>3, ExceptSeq
  <2>6. StoreTypeOK' /\ alerts' \in [Ticket -> Nat]
    BY <1>14, <2>4, <2>5 DEF FinalizeReply, TypeOK, StoreTypeOK
  <2>7. RepliesStay
    BY <1>14, <2>4, <2>5, LenProperties DEF RepliesStay, TypeOK, StoreTypeOK
  <2>8. JobOK(w)'
    BY <1>14 DEF TypeOK, Goto, Carry, JobOK, T, ApproveSteps
  <2> QED BY <1>14, <2>6, <2>7, <2>8, GotoType DEF Step, ApproveSteps, RejectSteps
<1>15. CASE FinalizeApproved(w)
  <2>1. T(w) \in Ticket /\ job[w].reply \in 1 .. Len(replies[T(w)]) /\ job[w].text \in Text
    BY <1>0, <1>15 DEF FinalizeApproved, At, JobOK, ApproveSteps
  <2> QED BY <1>14, <1>15, <2>1 DEF FinalizeApproved, ReplyStatus
<1>16. CASE FinalizeRejected(w)
  <2>1. T(w) \in Ticket /\ job[w].reply \in 1 .. Len(replies[T(w)]) /\ job[w].text = Blank
    BY <1>0, <1>16 DEF FinalizeRejected, At, JobOK
  <2> QED BY <1>14, <1>16, <2>1 DEF FinalizeRejected, ReplyStatus
<1>17. CASE Resolve(w)
  <2>1. T(w) \in Ticket /\ job[w].text \in Text \cup {None}
    BY <1>0, <1>17 DEF Resolve, At, JobOK, ApproveSteps
  <2> QED BY <1>0, <1>17, <2>1, ApplyType DEF Resolve, TicketState, Actor
<1>18. CASE Redraft(w)
  <2>1. T(w) \in Ticket
    BY <1>0, <1>18 DEF Redraft, At, JobOK
  <2> QED BY <1>0, <1>18, <2>1, ApplyType DEF Redraft, TicketState, Actor
<1> QED
  BY <1>1, <1>2, <1>3, <1>4, <1>5, <1>6, <1>7, <1>8, <1>9, <1>10, <1>11,
     <1>12, <1>13, <1>15, <1>16, <1>17, <1>18 DEF Serve

\* Faults take workers away and leave the database as it is.
LEMMA FaultType ==
  ASSUME TypeOK, Fault
  PROVE  TypeOK'
<1>1. CASE Crash
  BY <1>1 DEF Crash, TypeOK, StoreTypeOK, storeVars, JobOK, NoJob, Job, Step,
              Free, ApproveSteps
<1>2. ASSUME NEW w \in Worker, SkipAlert(w) \/ Interrupt(w)
      PROVE  TypeOK'
  BY <1>2, ReadType DEF SkipAlert, Interrupt, Goto, Free, Step, TypeOK
<1> QED BY <1>1, <1>2 DEF Fault

LEMMA StutterType ==
  ASSUME TypeOK, UNCHANGED vars
  PROVE  TypeOK'
BY DEF TypeOK, StoreTypeOK, JobOK, T, vars

LEMMA TypeInit == Init => TypeOK
BY UnlabelledType, EmptySeq
DEF Init, StoreInit, TypeOK, StoreTypeOK, JobOK, NoJob, Job, Step, Free,
    ApproveSteps

LEMMA TypeStep == TypeOK /\ [Next]_vars => TypeOK'
BY RequestType, ServeType, FaultType, StutterType DEF Next

\* Every reachable state is well typed, whatever is requested and whatever
\* fails: every column holds a value of its taxonomy and every goroutine has
\* in hand what its next store call needs.
THEOREM TypeCorrect == Spec => []TypeOK
BY TypeInit, TypeStep, PTL DEF Spec

-----------------------------------------------------------------------------
(***************************************************************************)
(* The orchestrator implements the ticket lifecycle                        *)
(***************************************************************************)
LifecycleVars == <<state, audit>>

\* A transition whose guard held is a move of the lifecycle.
LEMMA TransitionMoves ==
  ASSUME NEW t \in Ticket, NEW from, NEW to, NEW actor, NEW set, NEW text,
         Matches(t, from), Transition(t, to, actor, set, text)
  PROVE  Lifecycle!Move(t, from, to, actor, text)
BY DEF Matches, Transition, Lifecycle!Move

\* Hence so is a call of store.Apply, unless it ends in a conflict.
LEMMA ApplyMoves ==
  ASSUME NEW w \in Worker, T(w) \in Ticket,
         NEW from, NEW to, NEW actor, NEW set, NEW text, NEW next,
         Apply(w, from, to, actor, set, text, next)
  PROVE  Lifecycle!Move(T(w), from, to, actor, text) \/ UNCHANGED LifecycleVars
BY TransitionMoves DEF Apply, LifecycleVars, storeVars

\* Every step of every goroutine, and every fault, is a move of the
\* lifecycle or changes neither states nor audit rows.
LEMMA StepRefines ==
  ASSUME TypeOK, [Next]_vars
  PROVE  [Lifecycle!LNext]_LifecycleVars
<1>1. ASSUME NEW w \in Worker, pc[w] \notin Free \cup {"insert"}
      PROVE  T(w) \in Ticket
  BY <1>1 DEF TypeOK, JobOK
<1>2. ASSUME NEW w \in Worker, Request(w)
      PROVE  [Lifecycle!LNext]_LifecycleVars
  <2>1. ASSUME NEW t \in Ticket, NEW d \in Decision, ReviewClassification(w, t, d)
        PROVE  [Lifecycle!LNext]_LifecycleVars
    <3>1. \/ Lifecycle!Move(t, "AWAITING_CLASSIFICATION_REVIEW", "ROUTED", "human", None)
          \/ UNCHANGED LifecycleVars
      BY <2>1, TransitionMoves DEF ReviewClassification, LifecycleVars, storeVars
    <3> QED BY <3>1 DEF Lifecycle!LNext, Lifecycle!HumanMove
  <2>2. CASE UNCHANGED storeVars
    BY <2>2 DEF storeVars, LifecycleVars
  <2> QED BY <1>2, <2>1, <2>2
          DEF Request, ReceiveEmail, ApproveReply, RejectReply, BeginDecision
<1>3. ASSUME NEW w \in Worker, CreateTicket(w)
      PROVE  [Lifecycle!LNext]_LifecycleVars
  <2>1. ASSUME NEW t \in Ticket, state[t] = Absent, InsertTicketAndEmail(t, job[w].key)
        PROVE  Lifecycle!Create(t)
    BY <2>1 DEF InsertTicketAndEmail, Lifecycle!Create, Absent
  <2> QED BY <1>3, <2>1 DEF CreateTicket, storeVars, LifecycleVars, Lifecycle!LNext
<1>4. ASSUME NEW w \in Worker,
             ClaimNew(w) \/ ParkOnError(w) \/ ParkForReview(w) \/ AutoRoute(w)
             \/ StartDraft(w) \/ ParkReply(w)
      PROVE  [Lifecycle!LNext]_LifecycleVars
  <2>1. T(w) \in Ticket
    BY <1>1, <1>4 DEF ClaimNew, ParkOnError, ParkForReview, AutoRoute, StartDraft,
                      ParkReply, At, Free
  <2>2. Lifecycle!AgentMove(T(w)) \/ UNCHANGED LifecycleVars
    <3>1. CASE ClaimNew(w)
      BY <2>1, <3>1, ApplyMoves DEF ClaimNew, Lifecycle!AgentMove
    <3>2. CASE ParkOnError(w)
      BY <2>1, <3>2, ApplyMoves DEF ParkOnError, Lifecycle!AgentMove
    <3>3. CASE ParkForReview(w)
      BY <2>1, <3>3, ApplyMoves DEF ParkForReview, Lifecycle!AgentMove
    <3>4. CASE AutoRoute(w)
      BY <2>1, <3>4, ApplyMoves DEF AutoRoute, Lifecycle!AgentMove
    <3>5. CASE StartDraft(w)
      BY <2>1, <3>5, ApplyMoves DEF StartDraft, Lifecycle!AgentMove
    <3>6. CASE ParkReply(w)
      BY <2>1, <3>6, ApplyMoves DEF ParkReply, Lifecycle!AgentMove
    <3> QED BY <1>4, <3>1, <3>2, <3>3, <3>4, <3>5, <3>6
  <2> QED BY <2>1, <2>2 DEF Lifecycle!LNext
<1>5. ASSUME NEW w \in Worker, Resolve(w) \/ Redraft(w)
      PROVE  [Lifecycle!LNext]_LifecycleVars
  <2>1. T(w) \in Ticket
    BY <1>1, <1>5 DEF Resolve, Redraft, At, Free
  <2>2. CASE Resolve(w)
    <3>1. job[w].text \in Text
      BY <2>2 DEF TypeOK, JobOK, Resolve, At, ApproveSteps
    <3> QED BY <2>1, <2>2, <3>1, ApplyMoves
            DEF Resolve, Lifecycle!LNext, Lifecycle!HumanMove
  <2>3. CASE Redraft(w)
    BY <2>1, <2>3, ApplyMoves DEF Redraft, Lifecycle!LNext, Lifecycle!HumanMove
  <2> QED BY <1>5, <2>2, <2>3
<1>6. ASSUME NEW w \in Worker,
             ReadExisting(w) \/ Classify(w) \/ RecordClassification(w)
             \/ SendAlert(w) \/ DraftReply(w) \/ RecordDraft(w)
             \/ FinalizeApproved(w) \/ FinalizeRejected(w)
      PROVE  UNCHANGED LifecycleVars
  BY <1>6 DEF ReadExisting, Classify, RecordClassification, SaveClassification,
              SendAlert, DraftReply, RecordDraft, SaveReplyDraft,
              FinalizeApproved, FinalizeRejected, FinalizeReply,
              storeVars, LifecycleVars
<1>7. ASSUME Fault \/ UNCHANGED vars
      PROVE  UNCHANGED LifecycleVars
  BY <1>7 DEF Fault, Crash, SkipAlert, Interrupt, vars, storeVars, LifecycleVars
<1> QED BY <1>2, <1>3, <1>4, <1>5, <1>6, <1>7 DEF Next, Serve

\* The orchestrator implements the state machine of the README: a ticket
\* changes state only along its arrows, a human checkpoint is left only by a
\* human, and each change comes with exactly one audit row.
THEOREM ImplementsLifecycle == Spec => LifecycleSpec
<1>1. Init => Lifecycle!LInit
  BY DEF Init, StoreInit, Lifecycle!LInit, Absent
<1>2. TypeOK /\ [Next]_vars => [Lifecycle!LNext]_<<state, audit>>
  BY StepRefines DEF LifecycleVars
<1> QED BY <1>1, <1>2, TypeCorrect, PTL DEF Spec, LifecycleSpec, Lifecycle!LSpec

-----------------------------------------------------------------------------
(***************************************************************************)
(* The audit log replays and the checkpoints hold                          *)
(***************************************************************************)

\* What appending a row does to a log.
LEMMA AppendRow ==
  ASSUME NEW log \in Seq(AuditRow), NEW row \in AuditRow
  PROVE  LET new == Append(log, row) IN
         /\ Len(log) \in Nat
         /\ Len(new) = Len(log) + 1
         /\ new[Len(new)] = row
         /\ \A i \in 1 .. Len(log) : new[i] = log[i]
BY AppendProperties, LenProperties

\* A row that starts where the log ends extends the path.
LEMMA PathExtends ==
  ASSUME NEW log \in Seq(AuditRow), NEW row \in AuditRow,
         LeadsTo(log, row.from), row.from # Absent
  PROVE  LeadsTo(Append(log, row), row.to)
<1> DEFINE new == Append(log, row)
<1>1. /\ Len(log) \in Nat
      /\ Len(new) = Len(log) + 1
      /\ new[Len(new)] = row
      /\ \A i \in 1 .. Len(log) : new[i] = log[i]
  BY AppendRow
<1> HIDE DEF new
<1>2. new[1].from = "NEW"
  BY <1>1 DEF LeadsTo
<1>3. ASSUME NEW i \in 1 .. Len(new) - 1
      PROVE  new[i].to = new[i + 1].from
  <2>1. CASE i = Len(log)
    BY <1>1, <2>1 DEF LeadsTo
  <2>2. CASE i # Len(log)
    BY <1>1, <2>2 DEF LeadsTo
  <2> QED BY <2>1, <2>2
<1>4. LeadsTo(new, row.to)
  BY <1>1, <1>2, <1>3 DEF LeadsTo
<1> QED BY <1>4 DEF new

AuditInv == AuditReplays /\ HumanGates

\* Both properties only look at the history of a ticket, so they follow from
\* the lifecycle: an existing ticket moves, its row is added to its path, and
\* the mover of a checkpoint is human.
LEMMA MoveKeepsAudit ==
  ASSUME TypeOK, AuditInv,
         NEW t \in Ticket, NEW from \in TicketState, NEW to \in TicketState,
         NEW actor \in Actor, NEW text \in Text \cup {None},
         Gated([from |-> from, to |-> to, actor |-> actor, text |-> text]),
         Lifecycle!Move(t, from, to, actor, text)
  PROVE  AuditInv'
<1> DEFINE row == [from |-> from, to |-> to, actor |-> actor, text |-> text]
<1>1. row \in AuditRow /\ row.from = from /\ row.to = to
  BY DEF AuditRow
<1>2. /\ state[t] = from
      /\ state' = [state EXCEPT ![t] = to]
      /\ audit' = [audit EXCEPT ![t] = Append(audit[t], row)]
  BY DEF Lifecycle!Move
<1>3. Gated(row)
  OBVIOUS
<1> HIDE DEF row
<1>4. /\ audit \in [Ticket -> Seq(AuditRow)]
      /\ state \in [Ticket -> TicketState \cup {Absent}]
  BY DEF TypeOK, StoreTypeOK
<1>5. ASSUME NEW u \in Ticket
      PROVE  /\ LeadsTo(audit[u], state[u])'
             /\ \A i \in 1 .. Len(audit'[u]) : Gated(audit[u][i])'
  <2>1. LeadsTo(audit[u], state[u]) /\ \A i \in 1 .. Len(audit[u]) : Gated(audit[u][i])
    BY DEF AuditInv, AuditReplays, HumanGates
  <2>2. CASE u # t
    <3>1. audit'[u] = audit[u] /\ state'[u] = state[u]
      BY <1>2, <1>4, <2>2
    <3> QED BY <2>1, <3>1 DEF LeadsTo, Gated
  <2>3. CASE u = t
    <3>1. audit'[u] = Append(audit[u], row) /\ state'[u] = row.to /\ state[u] = row.from
      BY <1>1, <1>2, <1>4, <2>3
    <3>2. row.from # Absent
      BY <1>1 DEF TicketState, Absent
    <3>3. audit[u] \in Seq(AuditRow)
      BY <1>4
    <3>4. LeadsTo(audit[u], row.from)
      BY <2>1, <3>1
    <3>5. LeadsTo(audit'[u], state'[u])
      BY <1>1, <3>1, <3>2, <3>3, <3>4, PathExtends
    <3>6. \A i \in 1 .. Len(audit'[u]) : Gated(audit'[u][i])
      BY <1>1, <1>3, <2>1, <3>1, <3>3, AppendRow
    <3> QED BY <3>5, <3>6 DEF LeadsTo, Gated
  <2> QED BY <2>2, <2>3
<1> QED BY <1>5 DEF AuditInv, AuditReplays, HumanGates

LEMMA LifecycleKeepsAudit ==
  ASSUME TypeOK, AuditInv, [Lifecycle!LNext]_LifecycleVars
  PROVE  AuditInv'
<1>1. ASSUME NEW t \in Ticket, Lifecycle!Create(t)
      PROVE  AuditInv'
  <2>1. /\ state[t] = Absent
        /\ state' = [state EXCEPT ![t] = "NEW"]
        /\ audit' = audit
    BY <1>1 DEF Lifecycle!Create, Absent
  <2>2. Len(audit[t]) = 0
    <3>1. audit[t] \in Seq(AuditRow)
      BY DEF TypeOK, StoreTypeOK
    <3>2. Len(audit[t]) \in Nat
      BY <3>1, LenProperties
    <3>3. Len(audit[t]) > 0 => audit[t][Len(audit[t])] \in AuditRow
      BY <3>1, <3>2, ElementOfSeq
    <3> QED BY <2>1, <3>2, <3>3
            DEF AuditInv, AuditReplays, LeadsTo, AuditRow, TicketState, Absent
  <2> QED BY <2>1, <2>2
          DEF AuditInv, AuditReplays, HumanGates, LeadsTo, Gated, TypeOK, StoreTypeOK
<1>2. ASSUME NEW t \in Ticket, Lifecycle!AgentMove(t)
      PROVE  AuditInv'
  BY <1>2, MoveKeepsAudit
  DEF Lifecycle!AgentMove, Gated, Checkpoint, TicketState, Actor
<1>3. ASSUME NEW t \in Ticket, Lifecycle!HumanMove(t)
      PROVE  AuditInv'
  BY <1>3, MoveKeepsAudit
  DEF Lifecycle!HumanMove, Gated, Checkpoint, TicketState, Actor
<1>4. CASE UNCHANGED LifecycleVars
  BY <1>4 DEF LifecycleVars, AuditInv, AuditReplays, HumanGates, LeadsTo, Gated
<1> QED BY <1>1, <1>2, <1>3, <1>4 DEF Lifecycle!LNext

LEMMA AuditHolds == Spec => []AuditInv
<1>1. Init => AuditInv
  BY EmptySeq DEF Init, StoreInit, AuditInv, AuditReplays, HumanGates, LeadsTo
<1>2. TypeOK /\ AuditInv /\ [Next]_vars => AuditInv'
  BY StepRefines, LifecycleKeepsAudit
<1> QED BY <1>1, <1>2, TypeCorrect, PTL DEF Spec

\* The audit log of every ticket can be replayed to the state the ticket is
\* in: no row is missing, doubled or out of place, for any interleaving.
THEOREM AuditCorrect == Spec => []AuditReplays
<1>1. AuditInv => AuditReplays
  BY DEF AuditInv
<1> QED BY <1>1, AuditHolds, PTL

\* Whatever the agent, the model and the faults do, each exit from a
\* checkpoint is by a human, who does nothing else to a state.
THEOREM HumansHoldTheGates == Spec => []HumanGates
<1>1. AuditInv => HumanGates
  BY DEF AuditInv
<1> QED BY <1>1, AuditHolds, PTL

-----------------------------------------------------------------------------
(***************************************************************************)
(* One driver per ticket                                                   *)
(***************************************************************************)

\* The states in which no goroutine works on a ticket.
Quiet == {Absent, "NEW"} \cup Checkpoint

LEMMA QuietHasNoDriver ==
  ASSUME ExclusiveDriver, NEW t \in Ticket, state[t] \in Quiet,
         NEW v \in Worker, Drives(v)
  PROVE  T(v) # t
BY DEF ExclusiveDriver, Drives, DriveSteps, DrivenState, Quiet, Checkpoint, Absent,
       ClassifySteps, DraftSteps

\* No worker but w drives t.
Alone(w, t) == \A v \in Worker \ {w} : Drives(v) => T(v) # t

\* Worker w may change the state of the ticket it is about, and may come to
\* drive it, when no other worker drives that ticket.
LEMMA DriverStep ==
  ASSUME TypeOK, ExclusiveDriver,
         NEW w \in Worker, NEW l \in Step, NEW j \in Job, Carry(w, l, j),
         NEW t \in Ticket, \A u \in Ticket \ {t} : state'[u] = state[u],
         state'[t] = state[t] \/ Alone(w, t),
         l \in DriveSteps => /\ j.ticket = t
                             /\ state'[t] = DrivenState(l)
                             /\ Alone(w, t)
  PROVE  ExclusiveDriver'
<1>1. pc'[w] = l /\ (l \in DriveSteps => job'[w] = j)
  BY DEF TypeOK, Carry, Free, DriveSteps, ClassifySteps, DraftSteps
<1>2. \A v \in Worker \ {w} : pc'[v] = pc[v] /\ job'[v] = job[v]
  BY DEF TypeOK, Carry
<1>3. ASSUME NEW v \in Worker, Drives(v)'
      PROVE  state'[T(v)'] = DrivenState(pc'[v])
  <2>1. CASE v = w
    BY <1>1, <1>3, <2>1 DEF Drives, T
  <2>2. CASE v # w
    <3>1. Drives(v) /\ T(v)' = T(v) /\ pc'[v] = pc[v]
      BY <1>2, <1>3, <2>2 DEF Drives, T
    <3>2. state[T(v)] = DrivenState(pc[v])
      BY <3>1 DEF ExclusiveDriver
    <3>3. T(v) \in Ticket
      BY <3>1 DEF TypeOK, JobOK, Drives, DriveSteps, ClassifySteps, DraftSteps, Free
    <3>4. state'[T(v)] = state[T(v)]
      BY <2>2, <3>1, <3>3 DEF Alone
    <3> QED BY <3>1, <3>2, <3>4
  <2> QED BY <2>1, <2>2
<1>4. ASSUME NEW v \in Worker, NEW u \in Worker \ {v}, Drives(v)', Drives(u)'
      PROVE  T(u)' # T(v)'
  <2>1. CASE v = w
    BY <1>1, <1>2, <1>4, <2>1 DEF Drives, T, Alone
  <2>2. CASE u = w
    BY <1>1, <1>2, <1>4, <2>2 DEF Drives, T, Alone
  <2>3. CASE v # w /\ u # w
    BY <1>2, <1>4, <2>3 DEF Drives, T, ExclusiveDriver
  <2> QED BY <2>1, <2>2, <2>3
<1> QED BY <1>3, <1>4 DEF ExclusiveDriver, DrivenState

\* store.Apply by a worker that drives the ticket, or out of a quiet state.
LEMMA DriverApply ==
  ASSUME TypeOK, ExclusiveDriver,
         NEW w \in Worker, T(w) \in Ticket, NEW next \in Step,
         NEW from, NEW to, NEW actor, NEW set, NEW text,
         Drives(w) \/ from \in Quiet,
         next \in DriveSteps => to = DrivenState(next),
         Apply(w, from, to, actor, set, text, next)
  PROVE  ExclusiveDriver'
<1>1. job[w] \in Job
  BY DEF TypeOK
<1>2. CASE Matches(T(w), from) /\ Transition(T(w), to, actor, set, text) /\ Goto(w, next)
  <2>1. Alone(w, T(w))
    BY <1>2, QuietHasNoDriver DEF Alone, ExclusiveDriver, Matches
  <2>2. state'[T(w)] = to /\ \A u \in Ticket \ {T(w)} : state'[u] = state[u]
    BY <1>2 DEF Transition, TypeOK, StoreTypeOK
  <2> QED BY <1>1, <1>2, <2>1, <2>2, DriverStep DEF Goto, T
<1>3. CASE Goto(w, "failed") /\ UNCHANGED storeVars
  <2>1. state' = state /\ "failed" \in Step /\ "failed" \notin DriveSteps
    BY <1>3 DEF storeVars, Step, Free, DriveSteps, ClassifySteps, DraftSteps
  <2> QED BY <1>1, <1>3, <2>1, DriverStep DEF Goto
<1> QED BY <1>2, <1>3 DEF Apply

\* A step that leaves the states alone, by which a worker goes on driving
\* its ticket in the same state or drives none.
LEMMA DriverRead ==
  ASSUME TypeOK, ExclusiveDriver, state' = state,
         NEW w \in Worker, NEW l \in Step, NEW j, Carry(w, l, j),
         l \in DriveSteps => /\ Drives(w)
                             /\ j.ticket = T(w)
                             /\ DrivenState(l) = DrivenState(pc[w])
  PROVE  ExclusiveDriver'
<1>1. pc'[w] = l /\ (l \in DriveSteps => job'[w] = j)
  BY DEF TypeOK, Carry, Free, DriveSteps, ClassifySteps, DraftSteps
<1>2. \A v \in Worker \ {w} : pc'[v] = pc[v] /\ job'[v] = job[v]
  BY DEF TypeOK, Carry
<1>3. ASSUME NEW v \in Worker, Drives(v)'
      PROVE  Drives(v) /\ T(v)' = T(v) /\ DrivenState(pc'[v]) = DrivenState(pc[v])
  BY <1>1, <1>2, <1>3 DEF Drives, T
<1> QED BY <1>3 DEF ExclusiveDriver, DrivenState

LEMMA RequestDriver ==
  ASSUME TypeOK, ExclusiveDriver, NEW w \in Worker, Request(w)
  PROVE  ExclusiveDriver'
<1> USE DEF DriveSteps, ClassifySteps, DraftSteps, Free, Step
<1>1. ASSUME NEW k \in Key, ReceiveEmail(w, k)  PROVE ExclusiveDriver'
  BY <1>1, DriverRead DEF ReceiveEmail, storeVars
<1>2. ASSUME NEW t \in Ticket, NEW d \in Decision, ReviewClassification(w, t, d)
      PROVE  ExclusiveDriver'
  <2>1. CASE /\ Matches(t, "AWAITING_CLASSIFICATION_REVIEW")
             /\ Transition(t, "ROUTED", "human", d, None)
             /\ Carry(w, "startDraft", [NoJob EXCEPT !.ticket = t])
    <3>1. Alone(w, t)
      BY <2>1, QuietHasNoDriver DEF Alone, Matches, Quiet, Checkpoint
    <3>2. state'[t] = "ROUTED" /\ \A u \in Ticket \ {t} : state'[u] = state[u]
      BY <2>1 DEF Transition, TypeOK, StoreTypeOK
    <3>3. [NoJob EXCEPT !.ticket = t] \in Job /\ [NoJob EXCEPT !.ticket = t].ticket = t
      BY DEF NoJob, Job
    <3>4. DrivenState("startDraft") = "ROUTED"
      BY DEF DrivenState
    <3> QED BY <2>1, <3>1, <3>2, <3>3, <3>4, DriverStep
  <2>2. CASE Goto(w, "failed") /\ UNCHANGED storeVars
    BY <2>2, DriverRead DEF Goto, storeVars
  <2> QED BY <1>2, <2>1, <2>2 DEF ReviewClassification
<1>3. ASSUME NEW t \in Ticket, NEW x, NEW next \in {"finalizeApproved", "finalizeRejected"},
             BeginDecision(w, t, x, next)
      PROVE  ExclusiveDriver'
  BY <1>3, DriverRead DEF BeginDecision, Goto, storeVars, ApproveSteps, RejectSteps
<1>4. ASSUME NEW t \in Ticket, NEW x \in Text \cup {Blank}, ApproveReply(w, t, x)
      PROVE  ExclusiveDriver'
  BY <1>3, <1>4, DriverRead DEF ApproveReply, Goto, storeVars
<1>5. ASSUME NEW t \in Ticket, RejectReply(w, t)
      PROVE  ExclusiveDriver'
  BY <1>3, <1>5 DEF RejectReply
<1> QED BY <1>1, <1>2, <1>4, <1>5 DEF Request

LEMMA ServeDriver ==
  ASSUME TypeOK, ExclusiveDriver, NEW w \in Worker, Serve(w)
  PROVE  ExclusiveDriver'
<1> USE DEF DriveSteps, ClassifySteps, DraftSteps, Free, Step
<1>1. pc[w] \notin Free \cup {"insert"} => T(w) \in Ticket
  BY DEF TypeOK, JobOK
<1>2. CASE CreateTicket(w)
  <2>1. ASSUME NEW t \in Ticket, state[t] = Absent,
               InsertTicketAndEmail(t, job[w].key),
               Carry(w, "claim", [NoJob EXCEPT !.ticket = t])
        PROVE  ExclusiveDriver'
    <3>1. Alone(w, t)
      BY <2>1, QuietHasNoDriver DEF Alone, Quiet
    <3>2. \A u \in Ticket \ {t} : state'[u] = state[u]
      BY <2>1 DEF InsertTicketAndEmail, TypeOK, StoreTypeOK
    <3>3. [NoJob EXCEPT !.ticket = t] \in Job
      BY DEF NoJob, Job
    <3> QED BY <2>1, <3>1, <3>2, <3>3, DriverStep
  <2>2. CASE Goto(w, "failed") /\ UNCHANGED storeVars
    BY <2>2, DriverRead DEF Goto, storeVars
  <2> QED BY <1>2, <2>1, <2>2 DEF CreateTicket
<1>3. CASE ClaimNew(w) \/ Resolve(w) \/ Redraft(w)
  BY <1>1, <1>3, DriverApply
  DEF ClaimNew, Resolve, Redraft, At, Quiet, Checkpoint, DrivenState
<1>4. CASE ParkOnError(w) \/ ParkForReview(w) \/ AutoRoute(w) \/ StartDraft(w)
           \/ ParkReply(w)
  BY <1>1, <1>4, DriverApply
  DEF ParkOnError, ParkForReview, AutoRoute, StartDraft, ParkReply, At, Drives,
      DrivenState
<1>5. CASE ReadExisting(w) \/ SendAlert(w)
  BY <1>5, DriverRead DEF ReadExisting, SendAlert, Goto, storeVars
<1>6. CASE Classify(w)
  <2>1. PICK l \in {"saveClassification", "parkError"}, j \in Job :
          Carry(w, l, j) /\ j.ticket = T(w)
    <3>1. job[w] \in Job
      BY DEF TypeOK
    <3>2. CASE Goto(w, "parkError")
      BY <3>1, <3>2 DEF Goto, T
    <3>3. ASSUME NEW v \in Verdict,
                 Carry(w, "saveClassification", [job[w] EXCEPT !.verdict = v])
          PROVE  \E j \in Job : Carry(w, "saveClassification", j) /\ j.ticket = T(w)
      <4>1. [job[w] EXCEPT !.verdict = v] \in Job
        BY <3>1 DEF Job
      <4>2. [job[w] EXCEPT !.verdict = v].ticket = T(w)
        BY <3>1 DEF Job, T
      <4> QED BY <3>3, <4>1, <4>2
    <3> QED BY <1>6, <3>2, <3>3 DEF Classify
  <2> QED BY <1>6, <2>1, DriverRead DEF Classify, At, Drives, DrivenState, storeVars
<1>7. CASE RecordClassification(w)
  BY <1>7, DriverRead
  DEF RecordClassification, SaveClassification, Goto, At, T, Drives, DrivenState
<1>8. CASE DraftReply(w)
  <2>1. PICK j \in Job : Carry(w, "saveDraft", j) /\ j.ticket = T(w)
    BY <1>8 DEF DraftReply, TypeOK, Job, T
  <2> QED BY <1>8, <2>1, DriverRead DEF DraftReply, At, Drives, DrivenState, storeVars
<1>9. CASE RecordDraft(w)
  BY <1>9, DriverRead DEF RecordDraft, SaveReplyDraft, Goto, At, T, Drives, DrivenState
<1>10. CASE FinalizeApproved(w) \/ FinalizeRejected(w)
  BY <1>10, DriverRead
  DEF FinalizeApproved, FinalizeRejected, FinalizeReply, Goto, ApproveSteps, RejectSteps
<1> QED BY <1>2, <1>3, <1>4, <1>5, <1>6, <1>7, <1>8, <1>9, <1>10 DEF Serve

LEMMA FaultDriver ==
  ASSUME TypeOK, ExclusiveDriver, Fault
  PROVE  ExclusiveDriver'
<1> USE DEF DriveSteps, ClassifySteps, DraftSteps, Free, Step
<1>1. CASE Crash
  BY <1>1 DEF Crash, ExclusiveDriver, Drives
<1>2. ASSUME NEW w \in Worker, SkipAlert(w) \/ Interrupt(w)
      PROVE  ExclusiveDriver'
  BY <1>2, DriverRead DEF SkipAlert, Interrupt, Goto, storeVars
<1> QED BY <1>1, <1>2 DEF Fault

\* No ticket is ever worked on by two goroutines, and a goroutine that works
\* on one finds it in the state its next store.Apply expects.
THEOREM DriverIsExclusive == Spec => []ExclusiveDriver
<1>1. Init => ExclusiveDriver
  BY DEF Init, ExclusiveDriver, Drives, DriveSteps, ClassifySteps, DraftSteps
<1>2. TypeOK /\ ExclusiveDriver /\ [Next]_vars => ExclusiveDriver'
  <2>1. ASSUME ExclusiveDriver, UNCHANGED vars
        PROVE  ExclusiveDriver'
    BY <2>1 DEF vars, ExclusiveDriver, Drives, T, DrivenState
  <2> QED BY <2>1, RequestDriver, ServeDriver, FaultDriver DEF Next
<1> QED BY <1>1, <1>2, TypeCorrect, PTL DEF Spec

\* In the state that its next store.Apply expects, a driver is not refused.
LEMMA ApplyOfDriverSucceeds ==
  ASSUME TypeOK, NEW w \in Worker, NEW from, state[T(w)] = from,
         NEW to, NEW actor, NEW set, NEW text, NEW next,
         next # "failed",
         Apply(w, from, to, actor, set, text, next)
  PROVE  pc'[w] # "failed"
BY DEF Apply, Matches, Goto, Carry, TypeOK

LEMMA CalmIsSpec == CalmSpec => Spec
<1>1. [CalmNext]_vars => [Next]_vars
  BY DEF CalmNext, Next
<1> QED BY <1>1, PTL DEF CalmSpec, Spec

\* On a day without faults a goroutine that has claimed a ticket never fails.
THEOREM DriverIsNeverRefused == CalmSpec => DriverNeverConflicts
<1> DEFINE Kept == \A w \in Worker : Drives(w) => pc'[w] # "failed"
<1>1. TypeOK /\ ExclusiveDriver /\ [CalmNext]_vars => Kept
  <2> SUFFICES ASSUME TypeOK, ExclusiveDriver, [CalmNext]_vars,
                      NEW w \in Worker, Drives(w)
               PROVE  pc'[w] # "failed"
    OBVIOUS
  <2> USE DEF DriveSteps, ClassifySteps, DraftSteps, Free
  <2>1. pc[w] # "failed" /\ state[T(w)] = DrivenState(pc[w])
    BY DEF ExclusiveDriver, Drives
  <2>2. CASE UNCHANGED vars
    BY <2>1, <2>2 DEF vars
  <2>3. ASSUME NEW v \in Worker \ {w}, Request(v) \/ Serve(v)
        PROVE  pc'[w] = pc[w]
    <3>1. ASSUME NEW l, NEW j, Carry(v, l, j)
          PROVE  pc'[w] = pc[w]
      BY <2>3, <3>1 DEF Carry, TypeOK
    <3>2. CASE Request(v)
      BY <3>1, <3>2 DEF Request, ReceiveEmail, ReviewClassification, ApproveReply,
                        RejectReply, BeginDecision, Goto
    <3>3. CASE Serve(v)
      BY <3>1, <3>3
      DEF Serve, CreateTicket, ReadExisting, ClaimNew, Classify, ParkOnError,
          RecordClassification, ParkForReview, SendAlert, AutoRoute, StartDraft,
          DraftReply, RecordDraft, ParkReply, FinalizeApproved, Resolve,
          FinalizeRejected, Redraft, Apply, Goto
    <3> QED BY <2>3, <3>2, <3>3
  <2>4. CASE Request(w)
    BY <2>4 DEF Request, ReceiveEmail, ReviewClassification, ApproveReply,
                RejectReply, BeginDecision, Drives
  <2>5. CASE Serve(w)
    <3>1. CASE ParkOnError(w) \/ ParkForReview(w) \/ AutoRoute(w) \/ StartDraft(w)
               \/ ParkReply(w)
      BY <2>1, <3>1, ApplyOfDriverSucceeds
      DEF ParkOnError, ParkForReview, AutoRoute, StartDraft, ParkReply, At, DrivenState
    <3>2. CASE Classify(w) \/ RecordClassification(w) \/ DraftReply(w) \/ RecordDraft(w)
      BY <3>2 DEF Classify, RecordClassification, DraftReply, RecordDraft, Goto,
                  Carry, TypeOK
    <3>3. CASE CreateTicket(w) \/ ReadExisting(w) \/ ClaimNew(w) \/ SendAlert(w)
               \/ FinalizeApproved(w) \/ Resolve(w) \/ FinalizeRejected(w) \/ Redraft(w)
      BY <3>3 DEF CreateTicket, ReadExisting, ClaimNew, SendAlert, FinalizeApproved,
                  Resolve, FinalizeRejected, Redraft, At, Drives
    <3> QED BY <2>5, <3>1, <3>2, <3>3 DEF Serve
  <2> QED BY <2>1, <2>2, <2>3, <2>4, <2>5 DEF CalmNext
<1>2. CalmSpec => [](TypeOK /\ ExclusiveDriver)
  BY CalmIsSpec, TypeCorrect, DriverIsExclusive, PTL
<1> QED BY <1>1, <1>2, PTL DEF CalmSpec, DriverNeverConflicts

\* A worker's step leaves the other workers where they are.
LEMMA OneAtATime ==
  ASSUME TypeOK, NEW w \in Worker, NEW v \in Worker \ {w},
         Request(w) \/ Serve(w) \/ SkipAlert(w) \/ Interrupt(w)
  PROVE  pc'[v] = pc[v] /\ job'[v] = job[v]
<1>1. job \in [Worker -> Job] /\ pc \in [Worker -> Step]
  BY DEF TypeOK
<1>2. ASSUME NEW l, NEW j, Carry(w, l, j)
      PROVE  pc'[v] = pc[v] /\ job'[v] = job[v]
  BY <1>1, <1>2 DEF Carry
<1>3. \E l, j : Carry(w, l, j)
  <2>1. CASE Request(w)
    BY <2>1 DEF Request, ReceiveEmail, ReviewClassification, ApproveReply,
                RejectReply, BeginDecision, Goto
  <2>2. CASE SkipAlert(w) \/ Interrupt(w)
    BY <2>2 DEF SkipAlert, Interrupt, Goto
  <2>3. CASE CreateTicket(w) \/ ReadExisting(w) \/ Classify(w) \/ SendAlert(w)
               \/ DraftReply(w)
    BY <2>3 DEF CreateTicket, ReadExisting, Classify, SendAlert, DraftReply, Goto
  <2>4. CASE RecordClassification(w) \/ RecordDraft(w) \/ FinalizeApproved(w)
               \/ FinalizeRejected(w)
    BY <2>4 DEF RecordClassification, RecordDraft, FinalizeApproved,
                FinalizeRejected, Goto
  <2>5. CASE ClaimNew(w) \/ ParkOnError(w) \/ ParkForReview(w) \/ AutoRoute(w)
               \/ StartDraft(w) \/ ParkReply(w) \/ Resolve(w) \/ Redraft(w)
    BY <2>5 DEF ClaimNew, ParkOnError, ParkForReview, AutoRoute, StartDraft,
                ParkReply, Resolve, Redraft, Apply, Goto
  <2> QED
    BY <2>1, <2>2, <2>3, <2>4, <2>5 DEF Serve
<1> QED
  BY <1>2, <1>3

-----------------------------------------------------------------------------
(***************************************************************************)
(* Who takes a ticket on.  That a ticket gets to a checkpoint is a matter  *)
(* of fairness and is left to TLC; what can go wrong is that nobody is     *)
(* there to take it, and that is an invariant.                             *)
(***************************************************************************)
\* A step of w strands nobody: w takes on the tickets that it moves, and goes
\* on with the one it had.
Hands(w) ==
  \A t \in Ticket : state'[t] \in Transient =>
    \/ TakesOn(w, t)'
    \/ state'[t] = state[t] /\ ~TakesOn(w, t)

LEMMA HandsStrandNobody ==
  ASSUME TypeOK, NobodyStranded, NEW w \in Worker, Request(w) \/ Serve(w), Hands(w)
  PROVE  NobodyStranded'
<1> SUFFICES ASSUME NEW t \in Ticket, state'[t] \in Transient, ~TakesOn(w, t)'
             PROVE  \E v \in Worker : TakesOn(v, t)'
  BY DEF NobodyStranded, Transient
<1>1. state'[t] = state[t] /\ ~TakesOn(w, t)
  BY DEF Hands
<1>2. PICK v \in Worker : TakesOn(v, t)
  BY <1>1 DEF NobodyStranded
<1>3. pc'[v] = pc[v] /\ job'[v] = job[v]
  BY <1>1, <1>2, OneAtATime
<1>4. TakesOn(v, t)'
  BY <1>1, <1>2, <1>3 DEF TakesOn, Drives, T
<1> QED
  BY <1>4

\* Apply hands the ticket on, when it is moved to a state that the next step
\* drives, or to one that is none of the agent's; when it is not moved, the
\* worker did not have it.
LEMMA ApplyHands ==
  ASSUME TypeOK, NEW w \in Worker, T(w) \in Ticket,
         NEW from, NEW to, NEW actor, NEW set, NEW text, NEW next,
         to \notin Transient \/ next \in DriveSteps,
         ~Matches(T(w), from) => ~TakesOn(w, T(w)),
         Apply(w, from, to, actor, set, text, next)
  PROVE  Hands(w)
<1> PICK u \in Ticket : u = T(w)
  OBVIOUS
<1>1. /\ job \in [Worker -> Job] /\ pc \in [Worker -> Step]
      /\ state \in [Ticket -> TicketState \cup {Absent}]
  BY DEF TypeOK, StoreTypeOK
<1>2. \A t \in Ticket \ {u} : state'[t] = state[t] /\ ~TakesOn(w, t)
  BY <1>1 DEF Apply, Transition, TakesOn, storeVars
<1>3. ASSUME state'[u] \in Transient
      PROVE  TakesOn(w, u)' \/ (state'[u] = state[u] /\ ~TakesOn(w, u))
  <2>1. CASE Matches(u, from)
    <3>1. state'[u] = to /\ Goto(w, next)
      BY <1>1, <2>1 DEF Apply, Transition
    <3>2. next \in DriveSteps
      BY <1>3, <3>1
    <3>3. pc'[w] = next /\ job'[w] = job[w]
      BY <1>1, <3>1, <3>2 DEF Goto, Carry, Free, DriveSteps, ClassifySteps, DraftSteps
    <3> QED
      BY <3>2, <3>3 DEF TakesOn, Drives, T
  <2>2. CASE ~Matches(u, from)
    BY <2>2 DEF Apply, storeVars
  <2> QED
    BY <2>1, <2>2
<1> QED
  BY <1>2, <1>3 DEF Hands

\* A worker that has no ticket in hand, or keeps the one it has.
LEMMA StillHands ==
  ASSUME TypeOK, NEW w \in Worker, state' = state,
         \/ pc[w] \notin DriveSteps \cup {"claim"}
         \/ pc'[w] \in DriveSteps /\ T(w)' = T(w)
  PROVE  Hands(w)
BY DEF Hands, TakesOn, Drives

LEMMA RequestHands ==
  ASSUME TypeOK, NEW w \in Worker, Request(w)
  PROVE  Hands(w)
<1>1. /\ job \in [Worker -> Job] /\ pc \in [Worker -> Step]
      /\ state \in [Ticket -> TicketState \cup {Absent}]
  BY DEF TypeOK, StoreTypeOK
<1>2. pc[w] \in Free /\ \A t \in Ticket : ~TakesOn(w, t)
  BY DEF Request, ReceiveEmail, ReviewClassification, ApproveReply, RejectReply,
         BeginDecision, TakesOn, Drives, Free, DriveSteps, ClassifySteps, DraftSteps
<1>3. CASE state' = state
  BY <1>2, <1>3 DEF Hands
<1>4. ASSUME NEW t \in Ticket, NEW d \in Decision, ReviewClassification(w, t, d)
      PROVE  Hands(w)
  <2>1. ASSUME Transition(t, "ROUTED", "human", d, None),
               Carry(w, "startDraft", [NoJob EXCEPT !.ticket = t])
        PROVE  Hands(w)
    <3>1. \A u \in Ticket \ {t} : state'[u] = state[u]
      BY <1>1, <2>1 DEF Transition
    <3>2. pc'[w] = "startDraft" /\ T(w)' = t
      BY <1>1, <2>1 DEF Carry, Free, NoJob, T
    <3> QED
      BY <1>2, <3>1, <3>2 DEF Hands, TakesOn, Drives, DriveSteps
  <2> QED
    BY <1>3, <1>4, <2>1 DEF ReviewClassification, storeVars
<1> QED
  BY <1>3, <1>4 DEF Request, ReceiveEmail, ApproveReply, RejectReply, BeginDecision,
                    storeVars

LEMMA ServeHands ==
  ASSUME TypeOK, ExclusiveDriver, NEW w \in Worker, Serve(w)
  PROVE  Hands(w)
<1> USE DEF At, DriveSteps, ClassifySteps, DraftSteps
<1>1. /\ job \in [Worker -> Job] /\ pc \in [Worker -> Step]
      /\ state \in [Ticket -> TicketState \cup {Absent}]
  BY DEF TypeOK, StoreTypeOK
<1>2. pc[w] \notin Free \cup {"insert"} => T(w) \in Ticket
  BY DEF TypeOK, JobOK
<1>3. Drives(w) => state[T(w)] = DrivenState(pc[w])
  BY DEF ExclusiveDriver
<1>4. CASE CreateTicket(w)
  <2>1. \A t \in Ticket : ~TakesOn(w, t)
    BY <1>4 DEF CreateTicket, TakesOn, Drives
  <2>2. CASE state' = state
    BY <2>1, <2>2 DEF Hands
  <2>3. ASSUME NEW t \in Ticket, InsertTicketAndEmail(t, job[w].key),
               Carry(w, "claim", [NoJob EXCEPT !.ticket = t])
        PROVE  Hands(w)
    <3>1. /\ state'[t] = "NEW" /\ \A u \in Ticket \ {t} : state'[u] = state[u]
          /\ pc'[w] = "claim" /\ T(w)' = t
      BY <1>1, <2>3 DEF InsertTicketAndEmail, Carry, Free, NoJob, T
    <3> QED
      BY <2>1, <3>1 DEF Hands, TakesOn
  <2> QED
    BY <1>4, <2>2, <2>3 DEF CreateTicket, storeVars
<1>5. CASE ClaimNew(w)
  <2>1. ~Matches(T(w), "NEW") => ~TakesOn(w, T(w))
    BY <1>5 DEF ClaimNew, TakesOn, Drives, Matches
  <2> QED
    BY <1>2, <1>5, <2>1, ApplyHands DEF ClaimNew, Free
<1>6. CASE Classify(w) \/ RecordClassification(w) \/ DraftReply(w) \/ RecordDraft(w)
  <2>1. state' = state
    BY <1>6 DEF Classify, RecordClassification, DraftReply, RecordDraft,
                SaveClassification, SaveReplyDraft, storeVars
  <2>2. pc'[w] \in DriveSteps /\ T(w)' = T(w)
    BY <1>1, <1>6 DEF Classify, RecordClassification, DraftReply, RecordDraft, Goto,
                      Carry, Free, T, Job
  <2> QED
    BY <2>1, <2>2, StillHands
<1>7. CASE ReadExisting(w) \/ SendAlert(w) \/ FinalizeApproved(w) \/ FinalizeRejected(w)
  <2>1. state' = state /\ pc[w] \notin DriveSteps \cup {"claim"}
    BY <1>7 DEF ReadExisting, SendAlert, FinalizeApproved, FinalizeRejected,
                FinalizeReply, storeVars
  <2> QED
    BY <2>1, StillHands
<1>8. CASE ParkOnError(w) \/ ParkForReview(w) \/ ParkReply(w)
  <2>1. /\ T(w) \in Ticket /\ Drives(w)
        /\ \E from, to, actor, set, text, next :
             /\ Matches(T(w), from) /\ to \notin Transient
             /\ Apply(w, from, to, actor, set, text, next)
    BY <1>2, <1>3, <1>8 DEF ParkOnError, ParkForReview, ParkReply, Free, Transient, Drives,
                      DrivenState, Matches
  <2> QED
    BY <2>1, ApplyHands
<1>9. CASE AutoRoute(w) \/ StartDraft(w)
  <2>1. /\ T(w) \in Ticket /\ Drives(w)
        /\ \E from, to, actor, set, text, next :
             /\ Matches(T(w), from) /\ next \in DriveSteps
             /\ Apply(w, from, to, actor, set, text, next)
    BY <1>2, <1>3, <1>9 DEF AutoRoute, StartDraft, Free, Drives, DrivenState, Matches
  <2> QED
    BY <2>1, ApplyHands
<1>10. CASE Resolve(w) \/ Redraft(w)
  <2>1. /\ T(w) \in Ticket /\ ~TakesOn(w, T(w))
        /\ \E from, to, actor, set, text, next :
             /\ to \notin Transient \/ next \in DriveSteps
             /\ Apply(w, from, to, actor, set, text, next)
    BY <1>2, <1>10 DEF Resolve, Redraft, Free, TakesOn, Drives, Transient
  <2> QED
    BY <2>1, ApplyHands
<1> QED
  BY <1>4, <1>5, <1>6, <1>7, <1>8, <1>9, <1>10 DEF Serve

\* On a day without faults every ticket that the agent has not brought to a
\* checkpoint is in the hands of a goroutine, for any number of emails,
\* reviewers and goroutines, and no goroutine loses a ticket it has claimed.
THEOREM NobodyIsStranded == CalmSpec => TicketsAreCarried
<1>1. Init => NobodyStranded
  BY DEF Init, StoreInit, NobodyStranded, Transient, Absent
<1>2. TypeOK /\ ExclusiveDriver /\ NobodyStranded /\ [CalmNext]_vars => NobodyStranded'
  <2> SUFFICES ASSUME TypeOK, ExclusiveDriver, NobodyStranded, [CalmNext]_vars
               PROVE  NobodyStranded'
    OBVIOUS
  <2>1. CASE UNCHANGED vars
    BY <2>1 DEF vars, NobodyStranded, TakesOn, Drives, T
  <2>2. ASSUME NEW w \in Worker, Request(w) \/ Serve(w) PROVE NobodyStranded'
    BY <2>2, RequestHands, ServeHands, HandsStrandNobody
  <2> QED
    BY <2>1, <2>2 DEF CalmNext
<1>3. CalmSpec => [](TypeOK /\ ExclusiveDriver)
  BY CalmIsSpec, TypeCorrect, DriverIsExclusive, PTL
<1>4. CalmSpec => []NobodyStranded
  BY <1>1, <1>2, <1>3, PTL DEF CalmSpec
<1> QED
  BY <1>4, DriverIsNeverRefused DEF TicketsAreCarried

-----------------------------------------------------------------------------
(***************************************************************************)
(* No request goes round for ever: each of its steps leaves fewer to come. *)
(***************************************************************************)
\* The steps that a request which is at l may still take.
StepsLeft(l) ==
  CASE l \in {"insert", "existing"}                          -> 9
    [] l = "claim"                                           -> 8
    [] l = "classify"                                        -> 7
    [] l = "saveClassification"                              -> 6
    [] l \in {"route", "finalizeRejected"}                   -> 5
    [] l \in {"startDraft", "redraft"}                       -> 4
    [] l = "draftReply"                                      -> 3
    [] l \in {"saveDraft", "park", "finalizeApproved"}       -> 2
    [] l \in {"parkReply", "parkError", "alert", "resolve"}  -> 1
    [] OTHER                                                 -> 0

LEMMA StepsInOrder ==
  /\ StepsLeft("insert") = 9 /\ StepsLeft("existing") = 9 /\ StepsLeft("claim") = 8
  /\ StepsLeft("classify") = 7 /\ StepsLeft("saveClassification") = 6
  /\ StepsLeft("route") = 5 /\ StepsLeft("startDraft") = 4
  /\ StepsLeft("draftReply") = 3 /\ StepsLeft("saveDraft") = 2
  /\ StepsLeft("parkReply") = 1 /\ StepsLeft("parkError") = 1
  /\ StepsLeft("park") = 2 /\ StepsLeft("alert") = 1
  /\ StepsLeft("finalizeApproved") = 2 /\ StepsLeft("resolve") = 1
  /\ StepsLeft("finalizeRejected") = 5 /\ StepsLeft("redraft") = 4
  /\ StepsLeft("idle") = 0 /\ StepsLeft("done") = 0 /\ StepsLeft("failed") = 0
BY DEF StepsLeft

Shortens(w) == StepsLeft(pc'[w]) < StepsLeft(pc[w])

LEMMA ApplyShortens ==
  ASSUME TypeOK, NEW w \in Worker, NEW from, NEW to, NEW actor, NEW set, NEW text,
         NEW next \in Step, Apply(w, from, to, actor, set, text, next),
         StepsLeft(next) < StepsLeft(pc[w]), StepsLeft("failed") < StepsLeft(pc[w])
  PROVE  Shortens(w)
BY DEF Apply, Goto, Carry, TypeOK, Shortens

LEMMA ServeShortens ==
  ASSUME TypeOK, NEW w \in Worker, Serve(w)
  PROVE  Shortens(w)
<1> USE DEF At, Step, Free, ClassifySteps, DraftSteps, ApproveSteps, RejectSteps
<1>1. pc \in [Worker -> Step] /\ job \in [Worker -> Job]
  BY DEF TypeOK
<1>2. ASSUME NEW l, NEW j, Carry(w, l, j) PROVE pc'[w] = l
  BY <1>1, <1>2 DEF Carry
<1>3. CASE CreateTicket(w) \/ ReadExisting(w) \/ Classify(w)
  <2>1. \/ pc[w] \in {"insert", "existing"} /\ pc'[w] \in {"claim", "done", "failed"}
        \/ pc[w] = "classify" /\ pc'[w] \in {"saveClassification", "parkError"}
    BY <1>2, <1>3 DEF CreateTicket, ReadExisting, Classify, Goto
  <2> QED
    BY <2>1, StepsInOrder DEF Shortens
<1>4. CASE RecordClassification(w) \/ DraftReply(w) \/ RecordDraft(w) \/ SendAlert(w)
             \/ FinalizeApproved(w) \/ FinalizeRejected(w)
  <2>1. <<pc[w], pc'[w]>> \in {<<"saveClassification", "park">>,
          <<"saveClassification", "route">>, <<"draftReply", "saveDraft">>,
          <<"saveDraft", "parkReply">>, <<"alert", "done">>,
          <<"finalizeApproved", "resolve">>, <<"finalizeRejected", "redraft">>}
    BY <1>2, <1>4 DEF RecordClassification, DraftReply, RecordDraft, SendAlert,
                      FinalizeApproved, FinalizeRejected, Goto
  <2> QED
    BY <2>1, StepsInOrder DEF Shortens
<1>5. CASE ClaimNew(w) \/ ParkOnError(w) \/ AutoRoute(w) \/ StartDraft(w)
  BY <1>5, ApplyShortens, StepsInOrder DEF ClaimNew, ParkOnError, AutoRoute, StartDraft
<1>6. CASE ParkReply(w) \/ Resolve(w) \/ Redraft(w)
  BY <1>6, ApplyShortens, StepsInOrder DEF ParkReply, Resolve, Redraft
<1>7. CASE ParkForReview(w)
  <2>1. CASE Critical(job[w].verdict)
    BY <1>7, <2>1, ApplyShortens, StepsInOrder DEF ParkForReview
  <2>2. CASE ~Critical(job[w].verdict)
    BY <1>7, <2>2, ApplyShortens, StepsInOrder DEF ParkForReview
  <2> QED
    BY <2>1, <2>2
<1> QED
  BY <1>3, <1>4, <1>5, <1>6, <1>7 DEF Serve

\* Nothing that the other workers do gives a request more steps.
LEMMA RequestShortens ==
  ASSUME TypeOK, Next, NEW w \in Worker, pc[w] \notin Free, ~Serve(w)
  PROVE  pc'[w] = pc[w] \/ Shortens(w)
<1>1. pc[w] \in Step \ Free /\ pc \in [Worker -> Step] /\ job \in [Worker -> Job]
  BY DEF TypeOK
<1>2. pc'[w] \in Free => Shortens(w)
  BY <1>1, StepsInOrder DEF Shortens, Step, Free, ClassifySteps, DraftSteps,
                            ApproveSteps, RejectSteps
<1>3. CASE Crash
  BY <1>2, <1>3 DEF Crash, Free
<1>4. CASE SkipAlert(w) \/ Interrupt(w)
  BY <1>1, <1>2, <1>4 DEF SkipAlert, Interrupt, Goto, Carry, Free
<1>5. ASSUME NEW v \in Worker \ {w},
             Request(v) \/ Serve(v) \/ SkipAlert(v) \/ Interrupt(v)
      PROVE  pc'[w] = pc[w]
  BY <1>5, OneAtATime
<1>6. ~Request(w)
  BY <1>1 DEF Request, ReceiveEmail, ReviewClassification, ApproveReply,
              RejectReply, BeginDecision
<1> QED
  BY <1>3, <1>4, <1>5, <1>6 DEF Next, Fault

\* A request takes at most nine steps, and nothing that others do, and no
\* fault, gives it more: what it claimed it holds for a bounded time.
THEOREM RequestsEnd ==
  Spec => [][\A w \in Worker :
               /\ Serve(w) => Shortens(w)
               /\ pc[w] \notin Free => pc'[w] = pc[w] \/ Shortens(w)]_vars
<1> DEFINE Ends == \A w \in Worker :
                     /\ Serve(w) => Shortens(w)
                     /\ pc[w] \notin Free => pc'[w] = pc[w] \/ Shortens(w)
<1>1. TypeOK /\ [Next]_vars => [Ends]_vars
  BY ServeShortens, RequestShortens
<1> QED
  BY <1>1, TypeCorrect, PTL DEF Spec

-----------------------------------------------------------------------------
(***************************************************************************)
(* An email has at most one ticket: only the insert of                     *)
(* CreateTicketWithEmail writes an email row, and it writes a ticket that  *)
(* was not there under a key that was not.                                 *)
(***************************************************************************)
\* No ticket appears or disappears, and no email row changes.
Settled ==
  /\ email' = email
  /\ \A t \in Ticket : state'[t] = Absent <=> state[t] = Absent

\* The insert of ticket t for the email k.
Inserted(t, k) ==
  /\ k \in Key /\ state[t] = Absent /\ UniqueKey(k)
  /\ InsertTicketAndEmail(t, k)

LEMMA TransitionSettles ==
  ASSUME TypeOK, NEW t \in Ticket, NEW from \in TicketState, NEW to \in TicketState,
         NEW actor, NEW set, NEW text,
         Matches(t, from), Transition(t, to, actor, set, text)
  PROVE  Settled
BY DEF TypeOK, StoreTypeOK, Matches, Transition, Settled, TicketState, Absent

LEMMA ApplySettles ==
  ASSUME TypeOK, NEW w \in Worker, T(w) \in Ticket,
         NEW from \in TicketState, NEW to \in TicketState,
         NEW actor, NEW set, NEW text, NEW next,
         Apply(w, from, to, actor, set, text, next)
  PROVE  Settled
BY TransitionSettles DEF Apply, Settled, storeVars

LEMMA RequestSettles ==
  ASSUME TypeOK, NEW w \in Worker, Request(w)
  PROVE  Settled
<1>1. ASSUME NEW t \in Ticket, NEW d \in Decision, ReviewClassification(w, t, d)
      PROVE  Settled
  BY <1>1, TransitionSettles
     DEF ReviewClassification, Settled, storeVars, TicketState
<1>2. ASSUME NEW k \in Key, ReceiveEmail(w, k) PROVE Settled
  BY <1>2 DEF ReceiveEmail, Settled, storeVars
<1>3. ASSUME NEW t \in Ticket, NEW x \in Text \cup {Blank}, ApproveReply(w, t, x)
      PROVE  Settled
  BY <1>3 DEF ApproveReply, BeginDecision, Settled, storeVars
<1>4. ASSUME NEW t \in Ticket, RejectReply(w, t) PROVE Settled
  BY <1>4 DEF RejectReply, BeginDecision, Settled, storeVars
<1> QED
  BY <1>1, <1>2, <1>3, <1>4 DEF Request

LEMMA ServeSettles ==
  ASSUME TypeOK, NEW w \in Worker, Serve(w)
  PROVE  Settled \/ \E t \in Ticket : Inserted(t, job[w].key)
<1>1. pc[w] \notin Free \cup {"insert"} => T(w) \in Ticket
  BY DEF TypeOK, JobOK
<1> USE DEF At, Free
<1>2. CASE CreateTicket(w)
  <2>1. job[w].key \in Key
    BY <1>2 DEF CreateTicket, TypeOK, JobOK
  <2> QED
    BY <1>2, <2>1 DEF CreateTicket, Inserted, Settled, storeVars
<1>3. CASE ReadExisting(w) \/ Classify(w) \/ SendAlert(w) \/ DraftReply(w)
  BY <1>3 DEF ReadExisting, Classify, SendAlert, DraftReply, Settled, storeVars
<1>4. CASE RecordClassification(w) \/ RecordDraft(w) \/ FinalizeApproved(w)
             \/ FinalizeRejected(w)
  BY <1>4 DEF RecordClassification, SaveClassification, RecordDraft, SaveReplyDraft,
              FinalizeApproved, FinalizeRejected, FinalizeReply, Settled
<1>5. CASE ClaimNew(w)
  BY <1>1, <1>5, ApplySettles DEF ClaimNew, TicketState
<1>6. CASE ParkOnError(w)
  BY <1>1, <1>6, ApplySettles DEF ParkOnError, TicketState
<1>7. CASE ParkForReview(w)
  BY <1>1, <1>7, ApplySettles DEF ParkForReview, TicketState
<1>8. CASE AutoRoute(w)
  BY <1>1, <1>8, ApplySettles DEF AutoRoute, TicketState
<1>9. CASE StartDraft(w)
  BY <1>1, <1>9, ApplySettles DEF StartDraft, TicketState
<1>10. CASE ParkReply(w)
  BY <1>1, <1>10, ApplySettles DEF ParkReply, TicketState
<1>11. CASE Resolve(w)
  BY <1>1, <1>11, ApplySettles DEF Resolve, TicketState
<1>12. CASE Redraft(w)
  BY <1>1, <1>12, ApplySettles DEF Redraft, TicketState
<1> QED
  BY <1>2, <1>3, <1>4, <1>5, <1>6, <1>7, <1>8, <1>9, <1>10, <1>11, <1>12 DEF Serve

LEMMA StepSettles ==
  ASSUME TypeOK, [Next]_vars
  PROVE  Settled \/ \E t \in Ticket, k \in Key : Inserted(t, k)
<1>1. CASE Fault \/ UNCHANGED vars
  BY <1>1 DEF Fault, Crash, SkipAlert, Interrupt, vars, storeVars, Settled
<1>2. ASSUME NEW w \in Worker, Request(w) \/ Serve(w)
      PROVE  Settled \/ \E t \in Ticket, k \in Key : Inserted(t, k)
  BY <1>2, RequestSettles, ServeSettles DEF Inserted
<1> QED
  BY <1>1, <1>2 DEF Next

-----------------------------------------------------------------------------
\* A ticket has its email row from the moment it exists.
EmailInv ==
  /\ \A t \in Ticket : state[t] = Absent <=> email[t] = None
  /\ OneTicketPerEmail

LEMMA InsertKeepsEmail ==
  ASSUME TypeOK, EmailInv, NEW t \in Ticket, NEW k \in Key, Inserted(t, k)
  PROVE  EmailInv'
<1>1. /\ state' = [state EXCEPT ![t] = "NEW"] /\ email' = [email EXCEPT ![t] = k]
      /\ state \in [Ticket -> TicketState \cup {Absent}]
      /\ email \in [Ticket -> Key \cup {None}]
  BY DEF Inserted, InsertTicketAndEmail, TypeOK, StoreTypeOK
<1>2. \A u \in Ticket : email[u] # k
  BY DEF Inserted, UniqueKey, Holders
<1>3. \A u \in Ticket : state'[u] = Absent <=> email'[u] = None
  BY <1>1, KeyAssumption DEF EmailInv, Absent
<1>4. OneTicketPerEmail'
  BY <1>1, <1>2 DEF EmailInv, OneTicketPerEmail
<1> QED
  BY <1>3, <1>4 DEF EmailInv

LEMMA EmailStep == TypeOK /\ EmailInv /\ [Next]_vars => EmailInv'
<1> SUFFICES ASSUME TypeOK, EmailInv, [Next]_vars PROVE EmailInv'
  OBVIOUS
<1>1. CASE Settled
  BY <1>1 DEF Settled, EmailInv, OneTicketPerEmail
<1>2. ASSUME NEW t \in Ticket, NEW k \in Key, Inserted(t, k) PROVE EmailInv'
  BY <1>2, InsertKeepsEmail
<1> QED
  BY <1>1, <1>2, StepSettles

LEMMA EmailInit == Init => EmailInv
BY DEF Init, StoreInit, EmailInv, OneTicketPerEmail

\* For any number of goroutines, deliveries and faults an email becomes at
\* most one ticket.
THEOREM EmailIsUnique == Spec => []OneTicketPerEmail
<1>1. EmailInv => OneTicketPerEmail
  BY DEF EmailInv
<1> QED
  BY <1>1, EmailInit, EmailStep, TypeCorrect, PTL DEF Spec

=============================================================================
