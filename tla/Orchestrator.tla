---------------------------- MODULE Orchestrator ----------------------------
(***************************************************************************)
(* The agent core (internal/orchestrator) as the HTTP API and the IMAP     *)
(* poller run it: each request is a goroutine of its own, and a goroutine  *)
(* is a sequence of store calls with calls to the model in between.  One   *)
(* action is one store call together with the code up to the next one, so  *)
(* every interleaving of the goroutines at the database is a behaviour.    *)
(*                                                                         *)
(* A goroutine can be cut short between any two of its steps: the client   *)
(* disconnects and the request context is cancelled, the database refuses  *)
(* a call, or the process is killed.  Nothing resumes the work.            *)
(***************************************************************************)
EXTENDS Store

CONSTANTS
  Worker,              \* goroutines that serve requests and poll the mailbox
  ConfidenceThreshold, \* below it a classification goes to a reviewer
  MaxReplies           \* bound: no rejection is requested at this many drafts

ASSUME ThresholdAssumption == ConfidenceThreshold \in 0 .. 100
ASSUME BoundAssumption     == MaxReplies \in Nat

VARIABLES
  pc,     \* the next step of each worker
  job,    \* the local variables of each worker
  alerts  \* how many alerts were sent for a ticket

vars == <<state, labels, email, classifications, replies, audit,
          pc, job, alerts>>

-----------------------------------------------------------------------------
(***************************************************************************)
(* Workers                                                                 *)
(***************************************************************************)

\* A worker with nothing to do: never used, or its last request answered.
Free == {"idle", "done", "failed"}

\* runClassify between its two transitions: the ticket is CLASSIFYING.
ClassifySteps == {"classify", "parkError", "saveClassification", "park", "route"}

\* draftAndPark up to its transition: the ticket is DRAFTING.
DraftSteps == {"draftReply", "saveDraft", "parkReply"}

ApproveSteps == {"finalizeApproved", "resolve"}
RejectSteps  == {"finalizeRejected", "redraft"}

Step == Free \cup ClassifySteps \cup DraftSteps \cup ApproveSteps \cup RejectSteps
          \cup {"insert", "existing", "claim", "alert", "startDraft"}

Job == [ticket  : Ticket  \cup {None},
        key     : Key     \cup {None},
        verdict : Verdict \cup {None},
        text    : Text    \cup {Blank, None},
        reply   : Nat]

NoJob == [ticket |-> None, key |-> None, verdict |-> None,
          text |-> None, reply |-> 0]

T(w) == job[w].ticket

\* What a worker has in hand at the step it has reached.
JobOK(w) ==
  /\ pc[w] \notin Free \cup {"insert"} => T(w) \in Ticket
  /\ pc[w] = "insert" => job[w].key \in Key
  /\ pc[w] \in {"saveClassification", "park", "route"} =>
       job[w].verdict \in Verdict
  /\ pc[w] = "saveDraft" => job[w].text \in Text \cup {Blank}
  /\ pc[w] \in ApproveSteps => job[w].text \in Text
  /\ pc[w] = "finalizeRejected" => job[w].text = Blank
  /\ pc[w] \in {"finalizeApproved", "finalizeRejected"} =>
       job[w].reply \in 1 .. Len(replies[T(w)])

TypeOK ==
  /\ StoreTypeOK
  /\ pc     \in [Worker -> Step]
  /\ job    \in [Worker -> Job]
  /\ alerts \in [Ticket -> Nat]
  /\ \A w \in Worker : JobOK(w)

Init ==
  /\ StoreInit
  /\ pc     = [w \in Worker |-> "idle"]
  /\ job    = [w \in Worker |-> NoJob]
  /\ alerts = [t \in Ticket |-> 0]

\* Worker w carries j to step l; an answered request leaves nothing behind.
Carry(w, l, j) ==
  /\ pc'  = [pc  EXCEPT ![w] = l]
  /\ job' = [job EXCEPT ![w] = IF l \in Free THEN NoJob ELSE j]

Goto(w, l) == Carry(w, l, job[w])

At(w, l) == pc[w] = l

\* store.Apply by worker w: on success it goes on to step next, on a
\* conflict (or a ticket that does not exist) it answers with the error.
Apply(w, from, to, actor, set, text, next) ==
  /\ \/ /\ Matches(T(w), from)
        /\ Transition(T(w), to, actor, set, text)
        /\ Goto(w, next)
     \/ /\ ~Matches(T(w), from)
        /\ Goto(w, "failed")
        /\ UNCHANGED storeVars
  /\ UNCHANGED alerts

-----------------------------------------------------------------------------
(***************************************************************************)
(* Ingest                                                                  *)
(***************************************************************************)

\* An email arrives; CreateTicketWithEmail looks its key up.
ReceiveEmail(w, k) ==
  /\ pc[w] \in Free
  /\ \/ /\ Holders(k) = {}
        /\ Carry(w, "insert", [NoJob EXCEPT !.key = k])
     \/ \E t \in Holders(k) : Carry(w, "existing", [NoJob EXCEPT !.ticket = t])
  /\ UNCHANGED <<storeVars, alerts>>

\* No row was found: insert, unless another worker has done so meanwhile.
CreateTicket(w) ==
  /\ At(w, "insert")
  /\ \/ \E t \in Ticket :
          /\ state[t] = Absent
          /\ UniqueKey(job[w].key)
          /\ InsertTicketAndEmail(t, job[w].key)
          /\ Carry(w, "claim", [NoJob EXCEPT !.ticket = t])
     \/ /\ ~UniqueKey(job[w].key)
        /\ Goto(w, "failed")
        /\ UNCHANGED storeVars
  /\ UNCHANGED alerts

\* A row was found: GetTicket, and go on only if nobody has started on it.
ReadExisting(w) ==
  /\ At(w, "existing")
  /\ Goto(w, IF Matches(T(w), "NEW") THEN "claim" ELSE "done")
  /\ UNCHANGED <<storeVars, alerts>>

\* Mutant: the transition has an empty From, which skips the check.
ClaimAny(w) ==
  /\ At(w, "claim")
  /\ Transition(T(w), "CLASSIFYING", "system", Unlabelled, None)
  /\ Goto(w, "classify")
  /\ UNCHANGED alerts

ClaimNew(w) ==
  /\ At(w, "claim")
  /\ Apply(w, "NEW", "CLASSIFYING", "system", Unlabelled, None, "classify")

\* The model answers, or every retry has failed.
Classify(w) ==
  /\ At(w, "classify")
  /\ \/ \E v \in Verdict :
          Carry(w, "saveClassification", [job[w] EXCEPT !.verdict = v])
     \/ Goto(w, "parkError")
  /\ UNCHANGED <<storeVars, alerts>>

\* Mutant: a classifier error is only returned to the caller.
ReturnError(w) ==
  /\ At(w, "parkError")
  /\ Goto(w, "failed")
  /\ UNCHANGED <<storeVars, alerts>>

ParkOnError(w) ==
  /\ At(w, "parkError")
  /\ Apply(w, "CLASSIFYING", "AWAITING_CLASSIFICATION_REVIEW", "system",
           Unlabelled, None, "done")

Critical(verdict) == verdict.urgency = "critical"

Unsure(verdict) == verdict.confidence < ConfidenceThreshold

\* Mutants: the gate looks at the confidence alone; it keeps a verdict whose
\* confidence is the threshold.
ParksIfUnsure(verdict) == Unsure(verdict)

ParksAtThreshold(verdict) ==
  Critical(verdict) \/ verdict.confidence <= ConfidenceThreshold

Parks(verdict) == Critical(verdict) \/ Unsure(verdict)

RecordClassification(w) ==
  /\ At(w, "saveClassification")
  /\ SaveClassification(T(w), job[w].verdict)
  /\ Goto(w, IF Parks(job[w].verdict) THEN "park" ELSE "route")
  /\ UNCHANGED alerts

\* Mutants: the labels are not passed on; every parked ticket is alerted.
ParkUnlabelled(w) ==
  /\ At(w, "park")
  /\ Apply(w, "CLASSIFYING", "AWAITING_CLASSIFICATION_REVIEW", "qwen",
           Unlabelled, None,
           IF Critical(job[w].verdict) THEN "alert" ELSE "done")

ParkAndAlert(w) ==
  /\ At(w, "park")
  /\ Apply(w, "CLASSIFYING", "AWAITING_CLASSIFICATION_REVIEW", "qwen",
           LabelsOf(job[w].verdict), None, "alert")

ParkForReview(w) ==
  /\ At(w, "park")
  /\ Apply(w, "CLASSIFYING", "AWAITING_CLASSIFICATION_REVIEW", "qwen",
           LabelsOf(job[w].verdict), None,
           IF Critical(job[w].verdict) THEN "alert" ELSE "done")

\* Re-read the ticket and alert about it.
SendAlert(w) ==
  /\ At(w, "alert")
  /\ alerts' = [alerts EXCEPT ![T(w)] = @ + 1]
  /\ Goto(w, "done")
  /\ UNCHANGED storeVars

AutoRoute(w) ==
  /\ At(w, "route")
  /\ Apply(w, "CLASSIFYING", "ROUTED", "qwen", LabelsOf(job[w].verdict), None,
           "startDraft")

-----------------------------------------------------------------------------
(***************************************************************************)
(* runDraft and draftAndPark                                               *)
(***************************************************************************)

StartDraft(w) ==
  /\ At(w, "startDraft")
  /\ Apply(w, "ROUTED", "DRAFTING", "system", Unlabelled, None, "draftReply")

\* The model drafts a reply; when it cannot, the draft is left empty.
DraftReply(w) ==
  /\ At(w, "draftReply")
  /\ \E x \in Text \cup {Blank} :
       Carry(w, "saveDraft", [job[w] EXCEPT !.text = x])
  /\ UNCHANGED <<storeVars, alerts>>

\* Mutant: an empty draft is not worth a row.
RecordDraftIfAny(w) ==
  /\ At(w, "saveDraft")
  /\ \/ job[w].text # Blank /\ SaveReplyDraft(T(w), job[w].text)
     \/ job[w].text = Blank /\ UNCHANGED storeVars
  /\ Goto(w, "parkReply")
  /\ UNCHANGED alerts

RecordDraft(w) ==
  /\ At(w, "saveDraft")
  /\ SaveReplyDraft(T(w), job[w].text)
  /\ Goto(w, "parkReply")
  /\ UNCHANGED alerts

ParkReply(w) ==
  /\ At(w, "parkReply")
  /\ Apply(w, "DRAFTING", "AWAITING_REPLY_APPROVAL", "system", Unlabelled, None,
           "done")

-----------------------------------------------------------------------------
(***************************************************************************)
(* The human checkpoints.  A request may name any ticket in any state.     *)
(***************************************************************************)

\* Checkpoint 1: the decision is validated before the database is asked.
ReviewClassification(w, t, d) ==
  /\ pc[w] \in Free
  /\ \/ /\ ValidDecision(d)
        /\ Matches(t, "AWAITING_CLASSIFICATION_REVIEW")
        /\ Transition(t, "ROUTED", "human", d, None)
        /\ Carry(w, "startDraft", [NoJob EXCEPT !.ticket = t])
     \/ /\ ~(ValidDecision(d) /\ Matches(t, "AWAITING_CLASSIFICATION_REVIEW"))
        /\ Goto(w, "failed")
        /\ UNCHANGED storeVars
  /\ UNCHANGED alerts

\* Checkpoint 2, first store call: which reply is decided about.
BeginDecision(w, t, x, next) ==
  /\ pc[w] \in Free
  /\ \/ /\ LatestReplyID(t) # 0
        /\ Carry(w, next, [NoJob EXCEPT !.ticket = t, !.text = x,
                                        !.reply = LatestReplyID(t)])
     \/ /\ LatestReplyID(t) = 0
        /\ Goto(w, "failed")
  /\ UNCHANGED <<storeVars, alerts>>

\* Mutant: the text is not looked at.
ApproveAnyText(w, t, x) == BeginDecision(w, t, x, "finalizeApproved")

\* ErrEmptyReply comes before any store call.
ApproveReply(w, t, x) ==
  \/ x # Blank /\ BeginDecision(w, t, x, "finalizeApproved")
  \/ /\ pc[w] \in Free
     /\ x = Blank
     /\ Goto(w, "failed")
     /\ UNCHANGED <<storeVars, alerts>>

RejectReply(w, t) ==
  /\ Len(replies[t]) < MaxReplies
  /\ BeginDecision(w, t, Blank, "finalizeRejected")

FinalizeApproved(w) ==
  /\ At(w, "finalizeApproved")
  /\ FinalizeReply(T(w), job[w].reply, "approved", job[w].text)
  /\ Goto(w, "resolve")
  /\ UNCHANGED alerts

Resolve(w) ==
  /\ At(w, "resolve")
  /\ Apply(w, "AWAITING_REPLY_APPROVAL", "RESOLVED", "human", Unlabelled,
           job[w].text, "done")

FinalizeRejected(w) ==
  /\ At(w, "finalizeRejected")
  /\ FinalizeReply(T(w), job[w].reply, "rejected", job[w].text)
  /\ Goto(w, "redraft")
  /\ UNCHANGED alerts

Redraft(w) ==
  /\ At(w, "redraft")
  /\ Apply(w, "AWAITING_REPLY_APPROVAL", "DRAFTING", "human", Unlabelled, None,
           "draftReply")

-----------------------------------------------------------------------------
(***************************************************************************)
(* What can go wrong around a worker                                       *)
(***************************************************************************)

\* GetTicket fails just before the alert: the alert is skipped.
SkipAlert(w) ==
  /\ At(w, "alert")
  /\ Goto(w, "done")
  /\ UNCHANGED <<storeVars, alerts>>

\* A store call fails or the request context is cancelled: the handler
\* returns the error and what it has written so far stays.
Interrupt(w) ==
  /\ pc[w] \notin Free
  /\ Goto(w, "failed")
  /\ UNCHANGED <<storeVars, alerts>>

\* The process dies and is restarted.  main.go starts the server and the
\* poller afresh; it looks at no ticket.
Crash ==
  /\ pc'  = [w \in Worker |-> "idle"]
  /\ job' = [w \in Worker |-> NoJob]
  /\ UNCHANGED <<storeVars, alerts>>

-----------------------------------------------------------------------------
Request(w) ==
  \/ \E k \in Key : ReceiveEmail(w, k)
  \/ \E t \in Ticket, d \in Decision : ReviewClassification(w, t, d)
  \/ \E t \in Ticket, x \in Text \cup {Blank} : ApproveReply(w, t, x)
  \/ \E t \in Ticket : RejectReply(w, t)

\* The next step of a request that is being served.
Serve(w) ==
  \/ CreateTicket(w) \/ ReadExisting(w) \/ ClaimNew(w)
  \/ Classify(w) \/ ParkOnError(w) \/ RecordClassification(w)
  \/ ParkForReview(w) \/ SendAlert(w) \/ AutoRoute(w)
  \/ StartDraft(w) \/ DraftReply(w) \/ RecordDraft(w) \/ ParkReply(w)
  \/ FinalizeApproved(w) \/ Resolve(w) \/ FinalizeRejected(w) \/ Redraft(w)

Fault == Crash \/ \E w \in Worker : SkipAlert(w) \/ Interrupt(w)

Next == Fault \/ \E w \in Worker : Request(w) \/ Serve(w)

Spec == Init /\ [][Next]_vars

\* A handler that was started is run to its end: goroutines are scheduled
\* fairly and every call to the model is bounded by retries and time-outs, as
\* long as the tools it uses answer.
\* Nothing is assumed of clients, reviewers or faults.
FairSpec == Spec /\ \A w \in Worker : WF_vars(Serve(w))

\* The same system on a day without faults.
CalmNext == \E w \in Worker : Request(w) \/ Serve(w)

CalmSpec == Init /\ [][CalmNext]_vars

=============================================================================
