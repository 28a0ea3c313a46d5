--------------------------- MODULE AuditClockProofs ---------------------------
(***************************************************************************)
(* The audit log sorted by the begins of transactions is the log in the    *)
(* order of the transitions, as long as reviewers take turns.              *)
(*                                                                         *)
(* A transaction that is open about a ticket and will find it in the state *)
(* it expects began when the ticket had the rows it has now: no other      *)
(* worker can move the ticket meanwhile and leave it in that state.  Hence *)
(* row i of a ticket is stamped i - 1.                                     *)
(***************************************************************************)
EXTENDS AuditClock, ReviewProofs

-----------------------------------------------------------------------------
(***************************************************************************)
(* Splitting store.Apply adds no behaviour of the tables                   *)
(***************************************************************************)
LEMMA LogStepIsStep == LogNext => [Next]_vars
<1>1. ASSUME NEW w \in Worker, BeginTx(w) \/ EndTx(w) \/ OtherStep(w)
      PROVE  [Next]_vars
  BY <1>1 DEF BeginTx, EndTx, OtherStep, Next, Request
<1>2. ASSUME NEW w \in Worker, NEW t \in Ticket, NEW d \in Decision,
             NEW s \in 0 .. Now(t), ReviewAt(w, t, d, s)
      PROVE  [Next]_vars
  BY <1>2 DEF ReviewAt, Next, Request
<1>3. LogFault => Fault
  BY DEF LogFault, Fault
<1> QED BY <1>1, <1>2, <1>3 DEF LogNext, Next

\* Splitting store.Apply adds no behaviour of the tables, and hides no
\* decision that overlaps another.
LEMMA SplitKeepsTurns == LogTurnsSpec => TurnsSpec
<1>1. LogInit => Init
  BY DEF LogInit
<1>2. [LogNext /\ ReviewsOnSight /\ TakesTurns]_lvars => [Next /\ TakesTurns]_vars
  BY LogStepIsStep DEF lvars
<1> QED BY <1>1, <1>2, PTL DEF LogTurnsSpec, TurnsSpec

\* Hence what is proved of the orchestrator holds with the begins of
\* transactions told apart: a resolved reply is the approved one, a ticket
\* with missing labels was reviewed, and tickets follow the lifecycle.
THEOREM SplitKeepsPromises ==
  LogTurnsSpec => /\ []ResolvedReplyIsApproved
                  /\ []PartialLabelsAreHuman
                  /\ LifecycleSpec
<1>1. TurnsSpec => Spec
  BY PTL DEF TurnsSpec, Spec
<1> QED BY <1>1, SplitKeepsTurns, ResolvedIsApproved, PartialLabelsAreTheReviewers,
           ImplementsLifecycle

-----------------------------------------------------------------------------
(***************************************************************************)
(* The inductive invariant                                                 *)
(***************************************************************************)

\* The state from which a worker's next store.Apply takes its ticket.
From(l) ==
  CASE l = "claim"                          -> "NEW"
    [] l \in {"parkError", "park", "route"} -> "CLASSIFYING"
    [] l = "startDraft"                     -> "ROUTED"
    [] l = "parkReply"                      -> "DRAFTING"
    [] OTHER                                -> "AWAITING_REPLY_APPROVAL"

\* A transaction that is going to find what it expects began at this row.
BegunOK(w) ==
  begun[w] # None =>
    /\ pc[w] \in ApplySteps
    /\ state[T(w)] \in {Absent, From(pc[w])} => begun[w] = Now(T(w))

ClockInv ==
  /\ begun \in [Worker -> Nat \cup {None}]
  /\ \A w \in Worker : BegunOK(w)
  /\ stamps = [t \in Ticket |-> [i \in 1 .. Now(t) |-> i - 1]]

LEMMA NowType ==
  ASSUME TypeOK, NEW t \in Ticket
  PROVE  Now(t) \in Nat
BY LenProperties DEF TypeOK, StoreTypeOK, Now

\* A worker with a transaction to make is about a ticket.
LEMMA ApplierHasTicket ==
  ASSUME TypeOK, NEW w \in Worker, pc[w] \in ApplySteps
  PROVE  T(w) \in Ticket
BY DEF TypeOK, JobOK, ApplySteps, Free

\* The other workers stay where they are.
OthersStay(w) ==
  \A v \in Worker \ {w} : pc'[v] = pc[v] /\ job'[v] = job[v]

LEMMA WorkersStepAlone ==
  ASSUME TypeOK, NEW w \in Worker, Request(w) \/ Serve(w) \/ Interrupt(w) \/ SkipAlert(w)
  PROVE  OthersStay(w)
<1>1. ASSUME NEW l, NEW j, Carry(w, l, j)
      PROVE  OthersStay(w)
  BY <1>1 DEF Carry, TypeOK, OthersStay
<1>2. CASE Request(w)
  BY <1>1, <1>2 DEF Request, ReceiveEmail, ReviewClassification, ApproveReply,
                    RejectReply, BeginDecision, Goto
<1>3. CASE Serve(w)
  BY <1>1, <1>3
  DEF Serve, CreateTicket, ReadExisting, ClaimNew, Classify, ParkOnError,
      RecordClassification, ParkForReview, SendAlert, AutoRoute, StartDraft,
      DraftReply, RecordDraft, ParkReply, FinalizeApproved, Resolve,
      FinalizeRejected, Redraft, Apply, Goto
<1>4. CASE Interrupt(w) \/ SkipAlert(w)
  BY <1>1, <1>4 DEF Interrupt, SkipAlert, Goto
<1> QED BY <1>2, <1>3, <1>4

-----------------------------------------------------------------------------
(***************************************************************************)
(* Open transactions: nobody else moves the ticket under one that will     *)
(* succeed                                                                 *)
(***************************************************************************)

\* What a step does to the state and the rows of ticket t: nothing, its
\* creation, or a transition, which leaves the state and never leads to NEW.
Stays(t)   == state'[t] = state[t] /\ audit'[t] = audit[t]
Appears(t) == state[t] = Absent /\ audit'[t] = audit[t]
Moves(t)   == state'[t] # state[t] /\ state'[t] \notin {Absent, "NEW"}

LEMMA StepOfTicket ==
  ASSUME TypeOK, [Next]_vars, NEW t \in Ticket
  PROVE  Stays(t) \/ Appears(t) \/ Moves(t)
<1>1. /\ state \in [Ticket -> TicketState \cup {Absent}]
      /\ audit \in [Ticket -> Seq(AuditRow)]
  BY DEF TypeOK, StoreTypeOK
<1>2. [Lifecycle!LNext]_LifecycleVars
  BY StepRefines
<1>3. CASE UNCHANGED LifecycleVars
  BY <1>3 DEF LifecycleVars, Stays
<1>4. ASSUME NEW u \in Ticket, Lifecycle!Create(u)
      PROVE  Stays(t) \/ Appears(t) \/ Moves(t)
  BY <1>1, <1>4 DEF Lifecycle!Create, Stays, Appears, Absent
<1>5. ASSUME NEW u \in Ticket, NEW from, NEW to, NEW actor, NEW text,
             Lifecycle!Move(u, from, to, actor, text),
             to # from, to \notin {Absent, "NEW"}
      PROVE  Stays(t) \/ Appears(t) \/ Moves(t)
  BY <1>1, <1>5 DEF Lifecycle!Move, Stays, Moves
<1>6. ASSUME NEW u \in Ticket, Lifecycle!AgentMove(u) \/ Lifecycle!HumanMove(u)
      PROVE  Stays(t) \/ Appears(t) \/ Moves(t)
  BY <1>5, <1>6 DEF Lifecycle!AgentMove, Lifecycle!HumanMove, Absent
<1> QED BY <1>2, <1>3, <1>4, <1>6 DEF Lifecycle!LNext

\* The workers that drive a ticket or decide about it are not overtaken; a
\* claim can be, and then finds that the ticket has left NEW for good.
LEMMA OpenStaysTrue ==
  ASSUME TypeOK, ExclusiveDriver, ExclusiveDriver', TurnInv, TurnInv', [Next]_vars,
         NEW w \in Worker, BegunOK(w),
         pc'[w] = pc[w], job'[w] = job[w], begun'[w] = begun[w]
  PROVE  BegunOK(w)'
<1> SUFFICES ASSUME begun[w] # None,
                    state'[T(w)] \in {Absent, From(pc[w])}
             PROVE  begun[w] = Len(audit'[T(w)])
  BY DEF BegunOK, T, Now, From, ApplySteps
<1>1. pc[w] \in ApplySteps
  BY DEF BegunOK
<1>2. PICK t \in Ticket : t = T(w)
  BY <1>1, ApplierHasTicket
<1>3. state[t] \in {Absent, From(pc[w])} => begun[w] = Len(audit[t])
  BY <1>2 DEF BegunOK, Now
<1>4. CASE Stays(t)
  BY <1>2, <1>3, <1>4 DEF Stays
<1>5. CASE Appears(t)
  BY <1>2, <1>3, <1>5 DEF Appears
<1>6. CASE Moves(t)
  <2>1. CASE pc[w] = "claim"
    BY <1>2, <1>6, <2>1 DEF Moves, From
  <2>2. CASE pc[w] \in ApplySteps \cap DriveSteps
    BY <1>2, <1>6, <2>2 DEF Moves, ExclusiveDriver, Drives, T, DrivenState
  <2>3. CASE pc[w] \in DecisionSteps
    BY <1>2, <1>6, <2>3 DEF Moves, TurnInv, TurnKnows, T
  <2> QED BY <1>1, <2>1, <2>2, <2>3
          DEF ApplySteps, DriveSteps, ClassifySteps, DraftSteps, DecisionSteps,
              ApproveSteps, RejectSteps
<1> QED BY <1>4, <1>5, <1>6, StepOfTicket

-----------------------------------------------------------------------------
(***************************************************************************)
(* Stamps: a row that is written is stamped with its place                 *)
(***************************************************************************)

\* A row was added to the log of t.
Grows(t) ==
  \E row \in AuditRow : audit' = [audit EXCEPT ![t] = Append(@, row)]

\* What store.Apply does to the log: nothing, or one row when the ticket was
\* in the state that is expected.
LEMMA ApplyGrows ==
  ASSUME TypeOK, TypeOK', NEW w \in Worker, pc[w] \in ApplySteps, Serve(w)
  PROVE  \/ UNCHANGED audit
         \/ state[T(w)] = From(pc[w]) /\ Grows(T(w))
<1>1. T(w) \in Ticket
  BY ApplierHasTicket
<1>2. ASSUME NEW from, NEW to \in TicketState, NEW actor \in Actor, NEW set,
             NEW text \in Text \cup {None}, NEW next, from = From(pc[w]),
             Apply(w, from, to, actor, set, text, next)
      PROVE  \/ UNCHANGED audit
             \/ state[T(w)] = From(pc[w]) /\ Grows(T(w))
  <2>1. CASE UNCHANGED storeVars
    BY <2>1 DEF storeVars
  <2>2. CASE Matches(T(w), from) /\ Transition(T(w), to, actor, set, text)
    <3> DEFINE row == [from |-> state[T(w)], to |-> to, actor |-> actor, text |-> text]
    <3>1. row \in AuditRow
      BY <1>2, <2>2 DEF Matches, AuditRow, From, TicketState
    <3>2. audit' = [audit EXCEPT ![T(w)] = Append(@, row)]
      BY <2>2 DEF Transition
    <3> QED BY <1>2, <2>2, <3>1, <3>2 DEF Matches, Grows
  <2> QED BY <1>2, <2>1, <2>2 DEF Apply
<1> USE DEF At, From, TicketState, Actor
<1>3. CASE ClaimNew(w)
  BY <1>2, <1>3 DEF ClaimNew
<1>4. CASE ParkOnError(w)
  BY <1>2, <1>4 DEF ParkOnError
<1>5. CASE ParkForReview(w)
  BY <1>2, <1>5 DEF ParkForReview
<1>6. CASE AutoRoute(w)
  BY <1>2, <1>6 DEF AutoRoute
<1>7. CASE StartDraft(w)
  BY <1>2, <1>7 DEF StartDraft
<1>8. CASE ParkReply(w)
  BY <1>2, <1>8 DEF ParkReply
<1>9. CASE Resolve(w)
  BY <1>2, <1>9 DEF Resolve, TypeOK, JobOK, ApproveSteps
<1>10. CASE Redraft(w)
  BY <1>2, <1>10 DEF Redraft
<1> QED BY <1>3, <1>4, <1>5, <1>6, <1>7, <1>8, <1>9, <1>10
        DEF Serve, ApplySteps, CreateTicket, ReadExisting, Classify,
            RecordClassification, SendAlert, DraftReply, RecordDraft,
            FinalizeApproved, FinalizeRejected

LEMMA OtherServeWritesNoRow ==
  ASSUME NEW w \in Worker, pc[w] \notin ApplySteps, Serve(w)
  PROVE  UNCHANGED audit
BY DEF Serve, ApplySteps, At, CreateTicket, InsertTicketAndEmail, ReadExisting,
       ClaimNew, Classify, ParkOnError, RecordClassification, SaveClassification,
       ParkForReview, SendAlert, AutoRoute, StartDraft, DraftReply, RecordDraft,
       SaveReplyDraft, ParkReply, FinalizeApproved, Resolve, FinalizeRejected,
       FinalizeReply, Redraft, storeVars

Ranked == stamps = [t \in Ticket |-> [i \in 1 .. Now(t) |-> i - 1]]

LEMMA RankedStays ==
  ASSUME Ranked, UNCHANGED <<audit, stamps>>
  PROVE  Ranked'
BY DEF Ranked, Now

LEMMA AppendRank ==
  ASSUME NEW n \in Nat
  PROVE  Append([i \in 1 .. n |-> i - 1], n) = [i \in 1 .. n + 1 |-> i - 1]
<1> DEFINE s == [i \in 1 .. n |-> i - 1]
<1>1. s \in Seq(Nat) /\ Len(s) = n
  BY SeqDef, LenProperties
<1> QED BY <1>1, AppendProperties

\* A row that is stamped with the number of rows before it.
LEMMA StampKeepsRanks ==
  ASSUME TypeOK, Ranked, NEW t \in Ticket, NEW s,
         UNCHANGED audit \/ (Grows(t) /\ s = Now(t)),
         Stamp(t, s)
  PROVE  Ranked'
<1>1. CASE UNCHANGED audit
  BY <1>1, RankedStays DEF Stamp
<1>2. CASE Grows(t) /\ s = Now(t)
  <2>1. PICK row \in AuditRow : audit' = [audit EXCEPT ![t] = Append(@, row)]
    BY <1>2 DEF Grows
  <2>2. audit \in [Ticket -> Seq(AuditRow)]
    BY DEF TypeOK, StoreTypeOK
  <2>3. /\ Len(audit[t]) \in Nat
        /\ audit'[t] = Append(audit[t], row)
        /\ Len(audit'[t]) = Len(audit[t]) + 1
        /\ \A u \in Ticket \ {t} : audit'[u] = audit[u]
    BY <2>1, <2>2, AppendRow
  <2>4. stamps' = [stamps EXCEPT ![t] = Append(@, Len(audit[t]))]
    BY <1>2, <2>3 DEF Stamp, Now
  <2>5. Append(stamps[t], Len(audit[t])) = [i \in 1 .. Len(audit'[t]) |-> i - 1]
    BY <2>3, AppendRank DEF Ranked, Now
  <2> QED BY <2>3, <2>4, <2>5 DEF Ranked, Now
<1> QED BY <1>1, <1>2

-----------------------------------------------------------------------------
(***************************************************************************)
(* One lemma per kind of step                                              *)
(***************************************************************************)

\* The invariants that the step starts from and, where they are about the
\* tables alone, ends in.
Given == /\ TypeOK  /\ ExclusiveDriver  /\ TurnInv
         /\ TypeOK' /\ ExclusiveDriver' /\ TurnInv'

\* A step of worker w after which it has no transaction open, or has one
\* that began just now.
LEMMA ClockStep ==
  ASSUME Given, ClockInv, NEW w \in Worker, [Next]_vars, OthersStay(w),
         NEW b \in Nat \cup {None}, begun' = [begun EXCEPT ![w] = b],
         b # None => pc'[w] \in ApplySteps /\ b = Now(T(w))',
         Ranked'
  PROVE  ClockInv'
<1>1. begun' \in [Worker -> Nat \cup {None}]
  BY DEF ClockInv
<1>2. ASSUME NEW v \in Worker
      PROVE  BegunOK(v)'
  <2>1. CASE v = w
    BY <2>1 DEF ClockInv, BegunOK
  <2>2. CASE v # w
    BY <2>2, OpenStaysTrue DEF ClockInv, Given, OthersStay
  <2> QED BY <2>1, <2>2
<1> QED BY <1>1, <1>2 DEF ClockInv, Ranked

LEMMA BeginClock ==
  ASSUME Given, ClockInv, NEW w \in Worker, BeginTx(w)
  PROVE  ClockInv'
<1>1. T(w) \in Ticket /\ Now(T(w)) \in Nat
  BY ApplierHasTicket, NowType DEF BeginTx, Given
<1>2. [Next]_vars /\ OthersStay(w) /\ T(w)' = T(w) /\ Now(T(w))' = Now(T(w))
  BY DEF BeginTx, vars, OthersStay, T, Now
<1>3. Ranked'
  BY RankedStays DEF BeginTx, vars, ClockInv, Ranked
<1> QED BY <1>1, <1>2, <1>3, ClockStep DEF BeginTx, vars

LEMMA EndClock ==
  ASSUME Given, ClockInv, NEW w \in Worker, EndTx(w)
  PROVE  ClockInv'
<1>1. [Next]_vars /\ OthersStay(w)
  BY WorkersStepAlone DEF EndTx, Next, Given
<1>2. T(w) \in Ticket
  BY ApplierHasTicket DEF EndTx, Given
<1>3. UNCHANGED audit \/ (Grows(T(w)) /\ begun[w] = Now(T(w)))
  BY ApplyGrows DEF EndTx, Given, ClockInv, BegunOK
<1>4. Ranked'
  BY <1>2, <1>3, StampKeepsRanks DEF EndTx, Given, ClockInv, Ranked
<1> QED BY <1>1, <1>4, ClockStep DEF EndTx

\* A worker that has no transaction open.
LEMMA IdleClock ==
  ASSUME Given, ClockInv, NEW w \in Worker, begun[w] = None, UNCHANGED begun,
         [Next]_vars, OthersStay(w), Ranked'
  PROVE  ClockInv'
<1>1. begun' = [begun EXCEPT ![w] = None]
  BY DEF ClockInv
<1> QED BY <1>1, ClockStep

LEMMA OtherClock ==
  ASSUME Given, ClockInv, NEW w \in Worker, OtherStep(w)
  PROVE  ClockInv'
<1>1. Request(w) \/ Serve(w)
  BY DEF OtherStep, Request
<1>2. pc[w] \notin ApplySteps /\ UNCHANGED audit
  <2>1. CASE pc[w] \notin ApplySteps /\ Serve(w)
    BY <2>1, OtherServeWritesNoRow
  <2>2. ASSUME NEW k \in Key, ReceiveEmail(w, k)
        PROVE  pc[w] \in Free /\ UNCHANGED audit
    BY <2>2 DEF ReceiveEmail, storeVars
  <2>3. ASSUME NEW t \in Ticket, NEW x \in Text \cup {Blank}, ApproveReply(w, t, x)
        PROVE  pc[w] \in Free /\ UNCHANGED audit
    BY <2>3 DEF ApproveReply, BeginDecision, storeVars
  <2>4. ASSUME NEW t \in Ticket, RejectReply(w, t)
        PROVE  pc[w] \in Free /\ UNCHANGED audit
    BY <2>4 DEF RejectReply, BeginDecision, storeVars
  <2> QED BY <2>1, <2>2, <2>3, <2>4 DEF OtherStep, Free, ApplySteps
<1>3. begun[w] = None
  BY <1>2 DEF ClockInv, BegunOK
<1>4. Ranked'
  BY <1>2, RankedStays DEF OtherStep, ClockInv, Ranked
<1>5. [Next]_vars /\ OthersStay(w)
  BY <1>1, WorkersStepAlone DEF Next, Given
<1> QED BY <1>3, <1>4, <1>5, IdleClock DEF OtherStep

\* The reviewer saw the ticket in its checkpoint, so the transaction began
\* after every row that is there.
LEMMA ReviewClock ==
  ASSUME Given, ClockInv, ReviewsOnSight,
         NEW w \in Worker, NEW t \in Ticket, NEW d \in Decision, NEW s \in 0 .. Now(t),
         ReviewAt(w, t, d, s)
  PROVE  ClockInv'
<1>1. [Next]_vars /\ OthersStay(w)
  BY WorkersStepAlone DEF ReviewAt, Next, Request, Given
<1>2. begun[w] = None
  BY DEF ReviewAt, ReviewClassification, ClockInv, BegunOK, Free, ApplySteps
<1>3. UNCHANGED audit \/ (Grows(t) /\ s = Now(t))
  <2>1. CASE UNCHANGED storeVars
    BY <2>1 DEF storeVars
  <2>2. CASE /\ Matches(t, "AWAITING_CLASSIFICATION_REVIEW")
             /\ Transition(t, "ROUTED", "human", d, None)
    <3> DEFINE row == [from  |-> state[t], to |-> "ROUTED",
                       actor |-> "human", text |-> None]
    <3>1. row \in AuditRow
      BY <2>2 DEF AuditRow, TicketState, Actor, Matches
    <3>2. audit' = [audit EXCEPT ![t] = Append(audit[t], row)]
      BY <2>2 DEF Transition
    <3>3. audit[t] \in Seq(AuditRow) /\ audit'[t] = Append(audit[t], row)
      BY <3>2 DEF Given, TypeOK, StoreTypeOK
    <3> HIDE DEF row
    <3>4. audit'[t] # audit[t]
      BY <3>1, <3>3, AppendRow
    <3>5. stamps'[t] = Append(stamps[t], s)
      BY <3>4 DEF ReviewAt, Stamp, ClockInv
    <3>6. state[t] = "AWAITING_CLASSIFICATION_REVIEW" /\ state'[t] = "ROUTED"
      BY <2>2 DEF Matches, Transition, Given, TypeOK, StoreTypeOK
    <3>7. stamps'[t][Len(stamps'[t])] = s
      <4>1. Now(t) \in Nat
        BY NowType DEF Given
      <4>2. stamps[t] \in Seq(Nat) /\ s \in Nat
        BY <4>1, SeqDef DEF ClockInv
      <4> QED BY <3>5, <4>2, AppendProperties, LenProperties
    <3> QED BY <3>1, <3>2, <3>6, <3>7 DEF ReviewsOnSight, Grows
  <2> QED BY <2>1, <2>2 DEF ReviewAt, ReviewClassification
<1>4. Ranked'
  BY <1>3, StampKeepsRanks DEF ReviewAt, Given, ClockInv, Ranked
<1> QED BY <1>1, <1>2, <1>4, IdleClock DEF ReviewAt

LEMMA FaultClock ==
  ASSUME Given, ClockInv, LogFault
  PROVE  ClockInv'
<1>1. UNCHANGED audit
  BY DEF LogFault, Crash, SkipAlert, Interrupt, storeVars
<1>2. Ranked'
  BY <1>1, RankedStays DEF LogFault, ClockInv, Ranked
<1>3. CASE Crash /\ begun' = [w \in Worker |-> None]
  BY <1>2, <1>3 DEF ClockInv, Ranked, BegunOK
<1>4. ASSUME NEW w \in Worker, SkipAlert(w) \/ Interrupt(w),
             begun' = [begun EXCEPT ![w] = None]
      PROVE  ClockInv'
  <2>1. [Next]_vars /\ OthersStay(w)
    BY <1>4, WorkersStepAlone DEF Next, Fault, Given
  <2> QED BY <1>2, <1>4, <2>1, ClockStep
<1> QED BY <1>3, <1>4 DEF LogFault

LEMMA ClockHolds == LogTurnsSpec => []ClockInv
<1>1. LogInit => ClockInv
  <2> SUFFICES ASSUME LogInit PROVE ClockInv
    OBVIOUS
  <2>1. \A t \in Ticket : Now(t) = 0 /\ stamps[t] = << >>
    BY EmptySeq DEF LogInit, Init, StoreInit, Now
  <2>2. << >> = [i \in 1 .. 0 |-> i - 1]
    BY SeqDef
  <2> QED BY <2>1, <2>2 DEF LogInit, ClockInv, BegunOK
<1>2. Given /\ ClockInv /\ [LogNext /\ ReviewsOnSight /\ TakesTurns]_lvars => ClockInv'
  <2>1. ASSUME ClockInv, UNCHANGED lvars
        PROVE  ClockInv'
    BY <2>1 DEF lvars, vars, ClockInv, BegunOK, T, Now
  <2> QED BY <2>1, BeginClock, EndClock, OtherClock, ReviewClock, FaultClock DEF LogNext
<1>3. LogTurnsSpec => [](TypeOK /\ ExclusiveDriver /\ TurnInv)
  <2>1. TurnsSpec => Spec
    BY PTL DEF TurnsSpec, Spec
  <2> QED BY <2>1, SplitKeepsTurns, TurnsHold, TypeCorrect, DriverIsExclusive, PTL
<1> QED BY <1>1, <1>2, <1>3, PTL DEF LogTurnsSpec, Given

-----------------------------------------------------------------------------
(***************************************************************************)
(* What GET /audit returns                                                 *)
(***************************************************************************)

\* Sorting rows that are stamped in the order they were written returns them
\* in that order.
LEMMA SortedAsWritten ==
  ASSUME TypeOK, ClockInv, NEW t \in Ticket
  PROVE  AuditLog(t) = audit[t]
<1> DEFINE Row       == 1 .. Now(t)
           Before(i) == {j \in Row : \/ stamps[t][j] < stamps[t][i]
                                     \/ stamps[t][j] = stamps[t][i] /\ j > i}
           Place(k)  == CHOOSE i \in Row : Cardinality(Before(i)) = k - 1
<1>1. Now(t) \in Nat
  BY NowType
<1>2. \A i \in Row : stamps[t][i] = i - 1
  BY DEF ClockInv
<1>3. ASSUME NEW i \in Row
      PROVE  Cardinality(Before(i)) = i - 1
  <2>1. Before(i) = 1 .. i - 1
    BY <1>1, <1>2
  <2>2. i \in Int /\ 1 \in Int /\ i - 1 \in Int /\ (1 > i - 1 <=> i = 1)
    BY <1>1
  <2>3. Cardinality(1 .. i - 1) = i - 1
    BY <2>2, FS_Interval
  <2> QED BY <2>1, <2>3
<1>4. ASSUME NEW k \in Row
      PROVE  Place(k) = k
  <2> HIDE DEF Before
  <2>1. \A i \in Row : Cardinality(Before(i)) = k - 1 <=> i = k
    BY <1>1, <1>3
  <2> QED BY <2>1
<1>5. AuditLog(t) = [k \in Row |-> audit[t][k]]
  <2>1. AuditLog(t) = [k \in Row |-> audit[t][Place(k)]]
    BY DEF AuditLog
  <2> HIDE DEF Place, Row
  <2> QED BY <1>4, <2>1
<1>6. audit[t] = [k \in 1 .. Len(audit[t]) |-> audit[t][k]]
  BY LenProperties DEF TypeOK, StoreTypeOK
<1> QED BY <1>5, <1>6 DEF Now

\* "A complete, replayable history": although the rows are sorted by the
\* moments their transactions began, which the row lock does not order, what
\* GET /audit returns is a path from NEW to the ticket's state, for any number
\* of goroutines and any faults, when nobody decides about a ticket that
\* another decision is about.
THEOREM LogCanBeReplayed == LogTurnsSpec => []LogReplays
<1>1. TypeOK /\ ClockInv /\ AuditReplays => LogReplays
  BY SortedAsWritten DEF LogReplays, AuditReplays
<1>2. LogTurnsSpec => [](TypeOK /\ AuditReplays)
  <2>1. TurnsSpec => Spec
    BY PTL DEF TurnsSpec, Spec
  <2> QED BY <2>1, SplitKeepsTurns, TypeCorrect, AuditCorrect, PTL
<1> QED BY <1>1, <1>2, ClockHolds, PTL

=============================================================================
