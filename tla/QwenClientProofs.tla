-------------------------- MODULE QwenClientProofs --------------------------
(***************************************************************************)
(* What holds of a call of the Qwen client for every limit, every set of   *)
(* tools and every answer.                                                 *)
(***************************************************************************)
EXTENDS QwenClient, FiniteSetTheorems, TLAPS

\* parseClassification returns values of the taxonomies for every answer
\* that passes its checks.
LEMMA ParsedType ==
  ASSUME NEW a \in Content, ValidAnswer(a)
  PROVE  ParseClassification(a) \in Classification
<1>1. DepartmentOf(a) \in Department
  BY DEF DepartmentOf, DepartmentForType, Department
<1>2. Clamp(a.confidence) \in 0 .. 100
  BY DEF Clamp, Content
<1> QED
  BY <1>1, <1>2 DEF ParseClassification, Classification, ValidAnswer

LEMMA ParsedIsContent == Classification \subseteq Content
BY DEF Classification, Content

-----------------------------------------------------------------------------
(***************************************************************************)
(* Types                                                                   *)
(***************************************************************************)

\* A pause is never taken after the last attempt.
PauseOK == pc = "backoff" => attempt < MaxAttempts

TypeInv == QTypeOK /\ PauseOK

LEMMA CallListType == CallLists \subseteq Seq(Tool)
BY LimitAssumption DEF LimitAssumption, CallLists

LEMMA TypeInit == QInit => TypeInv
<1> SUFFICES ASSUME QInit PROVE TypeInv
  OBVIOUS
<1>1. iter \in 1 .. MaxToolIterations /\ attempt \in 1 .. MaxAttempts
  BY LimitAssumption DEF LimitAssumption, QInit
<1>2. messages \in Seq(Message) /\ pending \in Seq(Tool)
  BY DEF QInit
<1>3. toolsUsed \in [Tool -> Nat] /\ requests \in Nat
  BY DEF QInit
<1> QED
  BY <1>1, <1>2, <1>3 DEF QInit, TypeInv, QTypeOK, PauseOK

LEMMA NextRoundType ==
  ASSUME TypeInv, NextRound
  PROVE  /\ iter' \in 1 .. MaxToolIterations
         /\ attempt' = 1 /\ attempt' \in 1 .. MaxAttempts
         /\ pc' \in {"send", "failed"}
         /\ cause' \in Cause \cup {None}
BY LimitAssumption
   DEF LimitAssumption, TypeInv, QTypeOK, NextRound, Fail, Cause

LEMMA TypeStep == TypeInv /\ [QNext]_qvars => TypeInv'
<1> SUFFICES ASSUME TypeInv, [QNext]_qvars PROVE TypeInv'
  OBVIOUS
<1> USE LimitAssumption
    DEF LimitAssumption, TypeInv, QTypeOK, PauseOK, Cause, Ended, Fail,
        CountRequest, conversation
<1>1. CASE AttemptFails
  BY <1>1 DEF AttemptFails
<1>2. CASE BackoffEnds
  BY <1>2 DEF BackoffEnds
<1>3. CASE BackoffCancelled
  BY <1>3 DEF BackoffCancelled
<1>4. CASE Rejected
  BY <1>4 DEF Rejected
<1>5. CASE InvokeTool
  <2>1. Head(pending) \in Tool /\ Tail(pending) \in Seq(Tool)
    BY <1>5 DEF InvokeTool
  <2>2. Say("tool", <<Head(pending)>>) \in Message
    BY <2>1 DEF Say, Message, Role
  <2>3. messages' \in Seq(Message) /\ toolsUsed' \in [Tool -> Nat]
    BY <1>5, <2>1, <2>2 DEF InvokeTool
  <2> QED
    BY <1>5, <2>1, <2>3 DEF InvokeTool
<1>6. CASE ToolsDone
  BY <1>6, NextRoundType DEF ToolsDone
<1>7. ASSUME NEW calls \in CallLists, AnswerCalls(calls) PROVE TypeInv'
  <2>1. calls \in Seq(Tool)
    BY CallListType
  <2>2. Say("assistant", calls) \in Message
    BY <2>1 DEF Say, Message, Role
  <2> QED
    BY <1>7, <2>1, <2>2 DEF AnswerCalls, Answered
<1>8. ASSUME NEW a \in Answer, AnswerValid(a) PROVE TypeInv'
  <2>1. ParseClassification(a) \in Content
    BY <1>8, AnswerAssumption, ParsedType, ParsedIsContent
       DEF AnswerAssumption, AnswerValid
  <2> QED
    BY <1>8, <2>1 DEF AnswerValid, Answered, Return
<1>9. ASSUME NEW a \in Answer, AnswerInvalid(a) PROVE TypeInv'
  <2>1. CASE repromptUsed
    BY <1>9, <2>1 DEF AnswerInvalid, Answered
  <2>2. CASE ~repromptUsed
    <3>1. /\ Say("assistant", << >>) \in Message
          /\ Say("reprompt", << >>) \in Message
      BY DEF Say, Message, Role
    <3>2. \A s \in Seq(Message) :
            Append(Append(s, Say("assistant", << >>)), Say("reprompt", << >>))
              \in Seq(Message)
      BY <3>1
    <3>3. messages' \in Seq(Message)
      BY <1>9, <2>2, <3>2 DEF AnswerInvalid
    <3>4. repromptUsed' \in BOOLEAN /\ NextRound
      BY <1>9, <2>2 DEF AnswerInvalid
    <3> QED
      BY <1>9, <3>3, <3>4, NextRoundType DEF AnswerInvalid, Answered
  <2> QED
    BY <2>1, <2>2
<1>10. ASSUME NEW a \in Answer, AnswerDraft(a) PROVE TypeInv'
  <2>1. a \in Content
    BY AnswerAssumption DEF AnswerAssumption
  <2> QED
    BY <1>10, <2>1 DEF AnswerDraft, Answered, Return
<1>11. CASE Cancel
  BY <1>11 DEF Cancel
<1>12. CASE UNCHANGED qvars
  BY <1>12 DEF qvars
<1> QED
  BY <1>1, <1>2, <1>3, <1>4, <1>5, <1>6, <1>7, <1>8, <1>9, <1>10, <1>11, <1>12
     DEF QNext, Proceed, ClientStep

\* The client's variables keep their types, so the round and the attempt
\* never go beyond the limits.
THEOREM QTypeCorrect == QSpec => []QTypeOK
<1>1. TypeInv => QTypeOK
  BY DEF TypeInv
<1> QED
  BY <1>1, TypeInit, TypeStep, PTL DEF QSpec


-----------------------------------------------------------------------------
(***************************************************************************)
(* The number of requests                                                  *)
(***************************************************************************)

\* The requests that i rounds cost at most.
Cost(i) == i * MaxAttempts

\* The rounds before this one cost at most their share, and this one a
\* request for each attempt so far.
BoundInv ==
  /\ pc = "send" => requests <= Cost(iter - 1) + (attempt - 1)
  /\ pc = "backoff" => requests <= Cost(iter - 1) + attempt
  /\ requests <= Cost(iter)
  /\ task = "draft" => iter = 1 /\ pc # "invoke"

LEMMA CostStep ==
  ASSUME NEW i \in Nat
  PROVE  /\ Cost(i) \in Nat
         /\ Cost(i + 1) = Cost(i) + MaxAttempts
BY LimitAssumption DEF LimitAssumption, Cost

LEMMA CostOfRound ==
  ASSUME TypeInv
  PROVE  /\ Cost(iter - 1) \in Nat /\ Cost(iter) \in Nat
         /\ Cost(iter) = Cost(iter - 1) + MaxAttempts
         /\ Cost(iter + 1) = Cost(iter) + MaxAttempts
<1>1. iter - 1 \in Nat /\ iter \in Nat /\ (iter - 1) + 1 = iter
  BY LimitAssumption DEF LimitAssumption, TypeInv, QTypeOK
<1>2. Cost(iter - 1) \in Nat /\ Cost((iter - 1) + 1) = Cost(iter - 1) + MaxAttempts
  BY <1>1, CostStep
<1>3. Cost(iter) \in Nat /\ Cost(iter + 1) = Cost(iter) + MaxAttempts
  BY <1>1, CostStep
<1> QED
  BY <1>1, <1>2, <1>3

LEMMA NextRoundBound ==
  ASSUME TypeInv, NextRound, NEW r \in Nat, r <= Cost(iter)
  PROVE  /\ pc' = "send" => r <= Cost(iter' - 1) + (attempt' - 1)
         /\ pc' # "backoff"
         /\ r <= Cost(iter')
<1>1. CASE iter < MaxToolIterations
  <2>1. iter' - 1 = iter /\ iter' = iter + 1 /\ attempt' = 1
    BY <1>1, LimitAssumption
       DEF NextRound, LimitAssumption, TypeInv, QTypeOK
  <2> QED
    BY <1>1, <2>1, CostOfRound, LimitAssumption
       DEF NextRound, LimitAssumption, TypeInv, QTypeOK
<1>2. CASE ~(iter < MaxToolIterations)
  BY <1>2 DEF NextRound, Fail
<1> QED
  BY <1>1, <1>2

LEMMA BoundStep == TypeInv /\ BoundInv /\ [QNext]_qvars => BoundInv'
<1> SUFFICES ASSUME TypeInv, BoundInv, [QNext]_qvars PROVE BoundInv'
  OBVIOUS
<1>0. /\ attempt \in 1 .. MaxAttempts /\ requests \in Nat
      /\ MaxAttempts \in Nat
  BY LimitAssumption DEF LimitAssumption, TypeInv, QTypeOK
<1> DEFINE before == Cost(iter - 1)  after == Cost(iter)
<1>a. before \in Nat /\ after = before + MaxAttempts
  BY CostOfRound
<1>b. ASSUME pc = "send", CountRequest
      PROVE  requests' \in Nat /\ requests' <= before + attempt
  BY <1>0, <1>a, <1>b DEF BoundInv, CountRequest
<1>1. CASE AttemptFails \/ Rejected
  <2>1. iter' = iter /\ attempt' = attempt /\ task' = task
    BY <1>1 DEF AttemptFails, Rejected
  <2>2. requests' \in Nat /\ requests' <= before + attempt
    BY <1>1, <1>b DEF AttemptFails, Rejected
  <2>3. pc' \in {"backoff", "failed"}
    BY <1>1 DEF AttemptFails, Rejected, Fail
  <2>4. requests' <= after
    BY <1>0, <1>a, <2>2
  <2> QED
    BY <2>1, <2>2, <2>3, <2>4 DEF BoundInv
<1>2. CASE BackoffEnds \/ BackoffCancelled
  <2>1. iter' = iter /\ requests' = requests /\ task' = task
    BY <1>2 DEF BackoffEnds, BackoffCancelled
  <2>2. pc' = "send" => attempt' = attempt + 1 /\ attempt' - 1 = attempt
    BY <1>0, <1>2 DEF BackoffEnds, BackoffCancelled, Fail
  <2>3. pc' \in {"send", "failed"} /\ pc = "backoff"
    BY <1>2 DEF BackoffEnds, BackoffCancelled, Fail
  <2> QED
    BY <2>1, <2>2, <2>3 DEF BoundInv
<1>3. CASE InvokeTool \/ Cancel
  BY <1>3 DEF InvokeTool, Cancel, BoundInv
<1>4. CASE ToolsDone
  <2>1. task' = task /\ requests' = requests /\ requests <= Cost(iter) /\ NextRound
    BY <1>4 DEF ToolsDone, BoundInv
  <2>2. task # "draft"
    BY <1>4 DEF ToolsDone, BoundInv
  <2> QED
    BY <1>0, <2>1, <2>2, NextRoundBound DEF BoundInv
<1>5. ASSUME NEW calls \in CallLists, AnswerCalls(calls) PROVE BoundInv'
  <2>1. iter' = iter /\ pc' = "invoke" /\ task' = task /\ task = "classify"
    BY <1>5 DEF AnswerCalls
  <2>2. requests' <= after
    BY <1>0, <1>5, <1>a, <1>b DEF AnswerCalls, Answered
  <2> QED
    BY <2>1, <2>2 DEF BoundInv
<1>6. ASSUME NEW a \in Answer, AnswerValid(a) \/ AnswerDraft(a) PROVE BoundInv'
  <2>1. iter' = iter /\ pc' = "done" /\ task' = task
    BY <1>6 DEF AnswerValid, AnswerDraft, Return
  <2>2. requests' <= after
    BY <1>0, <1>6, <1>a, <1>b DEF AnswerValid, AnswerDraft, Answered
  <2> QED
    BY <2>1, <2>2 DEF BoundInv
<1>7. ASSUME NEW a \in Answer, AnswerInvalid(a) PROVE BoundInv'
  <2>1. requests' \in Nat /\ requests' <= after /\ task' = task /\ task = "classify"
    BY <1>0, <1>7, <1>a, <1>b DEF AnswerInvalid, Answered
  <2>2. CASE repromptUsed
    BY <1>7, <2>1, <2>2 DEF AnswerInvalid, BoundInv, Fail
  <2>3. CASE ~repromptUsed
    <3>1. NextRound
      BY <1>7, <2>3 DEF AnswerInvalid
    <3> QED
      BY <2>1, <3>1, NextRoundBound DEF BoundInv
  <2> QED
    BY <2>2, <2>3
<1>8. CASE UNCHANGED qvars
  BY <1>8 DEF qvars, BoundInv
<1> QED
  BY <1>1, <1>2, <1>3, <1>4, <1>5, <1>6, <1>7, <1>8 DEF QNext, Proceed, ClientStep

\* One call costs at most MaxAttempts requests for every round it has come
\* to: never more than 15 with the limits of the code, and 3 for a draft.
THEOREM RequestsAreBounded == QSpec => []RequestsBounded
<1>1. QInit => TypeInv /\ BoundInv
  <2> SUFFICES ASSUME QInit PROVE BoundInv
    BY TypeInit
  <2>1. iter \in Nat /\ Cost(iter) \in Nat /\ Cost(iter - 1) \in Nat
    BY TypeInit, CostOfRound DEF QInit
  <2> QED
    BY <2>1 DEF QInit, BoundInv
<1>2. TypeInv /\ BoundInv => RequestsBounded
  BY DEF BoundInv, RequestsBounded, Cost
<1> QED
  BY <1>1, <1>2, TypeStep, BoundStep, PTL DEF QSpec

-----------------------------------------------------------------------------
(***************************************************************************)
(* The steps that are left.  That a call returns needs fairness and stays  *)
(* with TLC; that it cannot go on for ever, once every request and every   *)
(* pause ends, is a number that each of its steps makes smaller.           *)
(***************************************************************************)

\* An attempt and the pause behind it for each attempt, then the tools of an
\* answer and the step to the next round.
RoundSteps == 2 * MaxAttempts + MaxCalls

LeftInRound ==
  CASE pc = "send"    -> 2 * (MaxAttempts - attempt) + MaxCalls + 2
    [] pc = "backoff" -> 2 * (MaxAttempts - attempt) + MaxCalls + 1
    [] pc = "invoke"  -> Len(pending) + 1
    [] OTHER          -> 0

RoundsLeft == MaxToolIterations - iter

StepsLeft == IF pc \in Ended THEN 0 ELSE RoundsLeft * RoundSteps + LeftInRound

LEMMA LeftType ==
  ASSUME TypeInv
  PROVE  /\ RoundSteps \in Nat /\ RoundsLeft \in Nat /\ RoundsLeft * RoundSteps \in Nat
         /\ LeftInRound \in Nat /\ StepsLeft \in Nat
         /\ pc \notin Ended => LeftInRound > 0
<1>1. MaxAttempts \in Nat /\ MaxCalls \in Nat /\ MaxToolIterations \in Nat
  BY LimitAssumption DEF LimitAssumption
<1>2. /\ iter \in 1 .. MaxToolIterations /\ attempt \in 1 .. MaxAttempts
      /\ Len(pending) \in Nat /\ pc \in {"send", "backoff", "invoke"} \cup Ended
  BY DEF TypeInv, QTypeOK
<1>3. RoundSteps \in Nat /\ RoundsLeft \in Nat
  BY <1>1, <1>2 DEF RoundSteps, RoundsLeft
<1>4. RoundsLeft * RoundSteps \in Nat
  BY <1>3
<1>5. LeftInRound \in Nat /\ (pc \notin Ended => LeftInRound > 0)
  BY <1>1, <1>2 DEF LeftInRound, Ended
<1> QED
  BY <1>3, <1>4, <1>5 DEF StepsLeft

LeftIsNat == LeftInRound \in Nat /\ StepsLeft \in Nat

LEMMA LeftTypeNext == TypeInv' => LeftIsNat'
<1>1. TypeInv => LeftIsNat
  BY LeftType DEF LeftIsNat
<1> QED
  BY <1>1, PTL

\* Within a round only what is left of the round counts.
LEMMA WithinRound ==
  ASSUME TypeInv, TypeInv', iter' = iter, pc \notin Ended, LeftInRound' < LeftInRound
  PROVE  StepsLeft' < StepsLeft
<1>1. RoundsLeft' = RoundsLeft /\ RoundSteps' = RoundSteps
  BY DEF RoundsLeft, RoundSteps
<1> DEFINE later == RoundsLeft * RoundSteps
           left  == LeftInRound
           next  == LeftInRound'
<1>2. later \in Nat /\ left \in Nat /\ next \in Nat
  BY LeftType, LeftTypeNext DEF LeftIsNat
<1>3. StepsLeft = later + left /\ (StepsLeft' = 0 \/ StepsLeft' = later + next)
  BY <1>1 DEF StepsLeft
<1>4. next < left
  OBVIOUS
<1> HIDE DEF later, left, next
<1> QED
  BY <1>2, <1>3, <1>4

\* The next round, or the end.
LEMMA NextRoundLeft ==
  ASSUME TypeInv, TypeInv', NextRound, pc \notin Ended
  PROVE  StepsLeft' < StepsLeft
<1>1. MaxAttempts \in Nat \ {0} /\ MaxCalls \in Nat /\ MaxToolIterations \in Nat
      /\ iter \in 1 .. MaxToolIterations
  BY LimitAssumption DEF LimitAssumption, TypeInv, QTypeOK
<1> DEFINE left  == LeftInRound
           round == RoundSteps
           n     == RoundsLeft
<1>2. left \in Nat /\ left > 0 /\ round \in Nat /\ n \in Nat /\ StepsLeft = n * round + left
  BY LeftType DEF StepsLeft
<1>3. CASE iter < MaxToolIterations
  <2>1. iter' = iter + 1 /\ pc' = "send" /\ attempt' = 1
    BY <1>1, <1>3 DEF NextRound
  <2>2. LeftInRound' = 2 * (MaxAttempts - 1) + MaxCalls + 2
    BY <2>1 DEF LeftInRound
  <2>3. LeftInRound' = round
    BY <1>1, <2>2 DEF RoundSteps
  <2>4. RoundsLeft' = n - 1 /\ RoundSteps' = round /\ n >= 1
    BY <1>1, <1>3, <2>1 DEF RoundsLeft, RoundSteps
  <2>5. StepsLeft' = (n - 1) * round + round
    BY <2>1, <2>3, <2>4 DEF StepsLeft, Ended
  <2> HIDE DEF left, round, n
  <2>6. (n - 1) * round + round = n * round
    BY <1>2, <2>4
  <2> QED
    BY <1>2, <2>5, <2>6
<1>4. CASE iter = MaxToolIterations
  <2>1. StepsLeft' = 0
    BY <1>1, <1>4 DEF NextRound, Fail, StepsLeft, Ended
  <2>2. n * round \in Nat
    BY <1>2
  <2> HIDE DEF left, round, n
  <2> QED
    BY <1>2, <2>1, <2>2
<1> QED
  BY <1>3, <1>4 DEF NextRound

LEMMA EndLeavesNothing ==
  ASSUME TypeInv, pc \notin Ended, pc' \in Ended
  PROVE  StepsLeft' < StepsLeft
<1>1. StepsLeft' = 0
  BY DEF StepsLeft
<1>2. StepsLeft = RoundsLeft * RoundSteps + LeftInRound
  BY DEF StepsLeft
<1> QED
  BY <1>1, <1>2, LeftType

LEMMA ProceedWindsDown ==
  ASSUME TypeInv, TypeInv', Proceed
  PROVE  StepsLeft' < StepsLeft
<1>1. /\ MaxAttempts \in Nat /\ MaxCalls \in Nat
      /\ attempt \in 1 .. MaxAttempts /\ pending \in Seq(Tool)
  BY LimitAssumption DEF LimitAssumption, TypeInv, QTypeOK
<1>2. CASE AttemptFails
  <2>1. CASE pc' = "backoff"
    <3>1. LeftInRound' < LeftInRound
      BY <1>1, <1>2, <2>1 DEF AttemptFails, LeftInRound
    <3> QED
      BY <1>2, <3>1, WithinRound DEF AttemptFails, Ended
  <2> QED
    BY <1>2, <2>1, EndLeavesNothing DEF AttemptFails, Fail, Ended
<1>3. CASE BackoffEnds
  <2>1. LeftInRound' < LeftInRound
    BY <1>1, <1>3 DEF BackoffEnds, LeftInRound
  <2> QED
    BY <1>3, <2>1, WithinRound DEF BackoffEnds, Ended
<1>4. CASE BackoffCancelled \/ Rejected
  BY <1>4, EndLeavesNothing DEF BackoffCancelled, Rejected, Fail, Ended
<1>5. CASE InvokeTool
  <2>1. LeftInRound' < LeftInRound
    BY <1>1, <1>5 DEF InvokeTool, LeftInRound
  <2> QED
    BY <1>5, <2>1, WithinRound DEF InvokeTool, Ended
<1>6. CASE ToolsDone
  BY <1>6, NextRoundLeft DEF ToolsDone, Ended
<1>7. ASSUME NEW calls \in CallLists, AnswerCalls(calls) PROVE StepsLeft' < StepsLeft
  <2>1. Len(calls) \in 1 .. MaxCalls
    BY <1>1 DEF CallLists
  <2>2. LeftInRound' = Len(calls) + 1
    BY <1>7 DEF AnswerCalls, LeftInRound
  <2>3. LeftInRound = 2 * (MaxAttempts - attempt) + MaxCalls + 2
    BY <1>7 DEF AnswerCalls, Answered, LeftInRound
  <2>4. LeftInRound' < LeftInRound
    BY <1>1, <2>1, <2>2, <2>3
  <2> QED
    BY <1>7, <2>4, WithinRound DEF AnswerCalls, Answered, Ended
<1>8. ASSUME NEW a \in Answer, AnswerValid(a) \/ AnswerDraft(a)
      PROVE  StepsLeft' < StepsLeft
  BY <1>8, EndLeavesNothing DEF AnswerValid, AnswerDraft, Answered, Return, Ended
<1>9. ASSUME NEW a \in Answer, AnswerInvalid(a) PROVE StepsLeft' < StepsLeft
  <2>1. pc \notin Ended
    BY <1>9 DEF AnswerInvalid, Answered, Ended
  <2>2. (pc' \in Ended) \/ NextRound
    BY <1>9 DEF AnswerInvalid, Fail, Ended
  <2> QED
    BY <2>1, <2>2, EndLeavesNothing, NextRoundLeft
<1> QED
  BY <1>2, <1>3, <1>4, <1>5, <1>6, <1>7, <1>8, <1>9 DEF Proceed, ClientStep

\* However retries, rounds, tools and the re-prompt combine, a call has a
\* number of steps left that each of its steps makes smaller and that being
\* cancelled does not raise: no call of the model goes round for ever.
THEOREM CallsWindDown ==
  QSpec => /\ [](StepsLeft \in Nat)
           /\ [][/\ StepsLeft' <= StepsLeft
                 /\ Proceed => StepsLeft' < StepsLeft]_qvars
<1> DEFINE Down == StepsLeft' <= StepsLeft /\ (Proceed => StepsLeft' < StepsLeft)
<1>1. TypeInv /\ TypeInv' /\ [QNext]_qvars => [Down]_qvars
  <2> SUFFICES ASSUME TypeInv, TypeInv', QNext PROVE Down
    OBVIOUS
  <2>1. StepsLeft \in Nat /\ StepsLeft' \in Nat
    BY LeftType, LeftTypeNext DEF LeftIsNat
  <2>2. CASE Proceed
    BY <2>1, <2>2, ProceedWindsDown
  <2>3. CASE Cancel /\ ~Proceed
    <3>1. StepsLeft' = StepsLeft
      BY <2>3 DEF Cancel, StepsLeft, LeftInRound, RoundsLeft, RoundSteps, conversation
    <3> QED
      BY <2>1, <2>3, <3>1
  <2> QED
    BY <2>2, <2>3 DEF QNext
<1>2. TypeInv => StepsLeft \in Nat
  BY LeftType
<1>3. QSpec => []TypeInv
  BY TypeInit, TypeStep, PTL DEF QSpec
<1>4. QSpec => [][Down]_qvars
  BY <1>1, <1>3, PTL DEF QSpec
<1> QED
  BY <1>2, <1>3, <1>4, PTL

-----------------------------------------------------------------------------
(***************************************************************************)
(* What Classify returns                                                   *)
(***************************************************************************)

LEMMA ResultStep == ResultInTaxonomy /\ [QNext]_qvars => ResultInTaxonomy'
<1> SUFFICES ASSUME ResultInTaxonomy, [QNext]_qvars PROVE ResultInTaxonomy'
  OBVIOUS
<1>1. CASE AttemptFails \/ Rejected \/ BackoffEnds \/ BackoffCancelled
  BY <1>1 DEF AttemptFails, Rejected, BackoffEnds, BackoffCancelled, Fail,
              ResultInTaxonomy
<1>2. CASE InvokeTool
  BY <1>2 DEF InvokeTool, ResultInTaxonomy
<1>3. CASE ToolsDone
  BY <1>3 DEF ToolsDone, NextRound, Fail, ResultInTaxonomy
<1>4. CASE Cancel
  BY <1>4 DEF Cancel, Ended, ResultInTaxonomy
<1>5. ASSUME NEW calls \in CallLists, AnswerCalls(calls) PROVE ResultInTaxonomy'
  BY <1>5 DEF AnswerCalls, ResultInTaxonomy
<1>6. ASSUME NEW a \in Answer, AnswerValid(a) PROVE ResultInTaxonomy'
  <2>1. a \in Content /\ ValidAnswer(a)
    BY <1>6, AnswerAssumption DEF AnswerAssumption, AnswerValid
  <2> QED
    BY <1>6, <2>1, ParsedType DEF AnswerValid, Return, ResultInTaxonomy
<1>7. ASSUME NEW a \in Answer, AnswerInvalid(a) PROVE ResultInTaxonomy'
  BY <1>7 DEF AnswerInvalid, NextRound, Fail, ResultInTaxonomy
<1>8. ASSUME NEW a \in Answer, AnswerDraft(a) PROVE ResultInTaxonomy'
  BY <1>8 DEF AnswerDraft, ResultInTaxonomy
<1>9. CASE UNCHANGED qvars
  BY <1>9 DEF qvars, ResultInTaxonomy
<1> QED
  BY <1>1, <1>2, <1>3, <1>4, <1>5, <1>6, <1>7, <1>8, <1>9 DEF QNext, Proceed, ClientStep

\* Whatever the model answers, a classification that is returned has an
\* urgency, a type and a department of the taxonomies and a confidence in
\* [0, 1].
THEOREM ResultIsValid == QSpec => []ResultInTaxonomy
<1>1. QInit => ResultInTaxonomy
  BY DEF QInit, ResultInTaxonomy
<1> QED
  BY <1>1, ResultStep, PTL DEF QSpec

-----------------------------------------------------------------------------
(***************************************************************************)
(* The protocol of the tool calls                                          *)
(***************************************************************************)

\* Call k of the turn at i has its answer k places behind the turn, or it is
\* still pending, and then so many calls are pending before it as messages
\* are missing.
CallOK(i, k) ==
  IF i + k <= Len(messages)
  THEN messages[i + k] = Say("tool", <<Calls(i)[k]>>)
  ELSE /\ (i + k) - Len(messages) \in 1 .. Len(pending)
       /\ pending[(i + k) - Len(messages)] = Calls(i)[k]

ProtocolInv ==
  /\ pc # "invoke" => pending = << >>
  /\ \A i \in 1 .. Len(messages) : messages[i].role = "assistant" =>
       \A k \in 1 .. Len(Calls(i)) : CallOK(i, k)

\* Two messages without calls may be added when nothing is pending.
LEMMA TwoQuietMessages ==
  ASSUME TypeInv, ProtocolInv, pending = << >>, pending' = << >>,
         messages' = Append(Append(messages, Say("assistant", << >>)),
                            Say("reprompt", << >>))
  PROVE  ProtocolInv'
<1>1. messages \in Seq(Message)
  BY DEF TypeInv, QTypeOK
<1>2. /\ Len(messages') = Len(messages) + 2
      /\ \A i \in 1 .. Len(messages) : messages'[i] = messages[i]
      /\ messages'[Len(messages) + 1] = Say("assistant", << >>)
      /\ messages'[Len(messages) + 2] = Say("reprompt", << >>)
  BY <1>1
<1> SUFFICES ASSUME NEW i \in 1 .. Len(messages'),
                    messages'[i].role = "assistant",
                    NEW k \in 1 .. Len(Calls(i)')
             PROVE  CallOK(i, k)'
  BY DEF ProtocolInv
<1>3. i # Len(messages) + 1
  BY <1>2 DEF Calls, Say
<1>4. i # Len(messages) + 2
  BY <1>2 DEF Say
<1>5. i \in 1 .. Len(messages)
  BY <1>1, <1>2, <1>3, <1>4
<1>6. messages[i].role = "assistant" /\ Calls(i)' = Calls(i)
  BY <1>2, <1>5 DEF Calls
<1>7. CallOK(i, k) /\ k \in Nat
  BY <1>5, <1>6 DEF ProtocolInv, Calls
<1>8. i + k <= Len(messages) /\ messages[i + k] = Say("tool", <<Calls(i)[k]>>)
  BY <1>1, <1>5, <1>7 DEF CallOK
<1>9. i + k \in 1 .. Len(messages) /\ i + k <= Len(messages')
  BY <1>1, <1>2, <1>5, <1>7, <1>8
<1> QED
  BY <1>2, <1>6, <1>8, <1>9 DEF CallOK

\* A turn with calls makes them pending.
LEMMA CallsProtocol ==
  ASSUME TypeInv, ProtocolInv, NEW calls \in CallLists, AnswerCalls(calls)
  PROVE  ProtocolInv'
<1>1. messages \in Seq(Message) /\ calls \in Seq(Tool)
  BY CallListType DEF TypeInv, QTypeOK
<1>2. pending = << >> /\ pending' = calls /\ pc' = "invoke"
  BY <1>1 DEF AnswerCalls, Answered, ProtocolInv
<1>3. messages' = Append(messages, Say("assistant", calls))
  BY DEF AnswerCalls
<1>4. /\ Len(messages') = Len(messages) + 1
      /\ \A i \in 1 .. Len(messages) : messages'[i] = messages[i]
      /\ messages'[Len(messages) + 1].calls = calls
  BY <1>1, <1>3 DEF Say
<1> SUFFICES ASSUME NEW i \in 1 .. Len(messages'),
                    messages'[i].role = "assistant",
                    NEW k \in 1 .. Len(Calls(i)')
             PROVE  CallOK(i, k)'
  BY <1>2 DEF ProtocolInv
<1>5. CASE i = Len(messages) + 1
  <2>1. Calls(i)' = calls /\ k \in 1 .. Len(calls)
    BY <1>4, <1>5 DEF Calls
  <2>2. ~(i + k <= Len(messages')) /\ (i + k) - Len(messages') = k
    BY <1>1, <1>4, <1>5, <2>1
  <2> QED
    BY <1>2, <2>1, <2>2 DEF CallOK
<1>6. CASE i \in 1 .. Len(messages)
  <2>1. messages[i].role = "assistant" /\ Calls(i)' = Calls(i)
    BY <1>4, <1>6 DEF Calls
  <2>2. CallOK(i, k) /\ k \in Nat
    BY <1>6, <2>1 DEF ProtocolInv, Calls
  <2>3. i + k <= Len(messages) /\ messages[i + k] = Say("tool", <<Calls(i)[k]>>)
    BY <1>1, <1>2, <1>6, <2>2 DEF CallOK
  <2>4. i + k \in 1 .. Len(messages) /\ i + k <= Len(messages')
    BY <1>1, <1>4, <1>6, <2>2, <2>3
  <2> QED
    BY <1>4, <2>1, <2>3, <2>4 DEF CallOK
<1> QED
  BY <1>1, <1>4, <1>5, <1>6

\* An invocation answers the first pending call.
LEMMA InvokeProtocol ==
  ASSUME TypeInv, ProtocolInv, InvokeTool
  PROVE  ProtocolInv'
<1>1. messages \in Seq(Message) /\ pending \in Seq(Tool) /\ pending # << >>
  BY DEF TypeInv, QTypeOK, InvokeTool
<1> DEFINE m == Say("tool", <<Head(pending)>>)
<1>2. messages' = Append(messages, m) /\ pending' = Tail(pending) /\ pc' = "invoke"
  BY DEF InvokeTool
<1>3. /\ Len(messages') = Len(messages) + 1
      /\ \A i \in 1 .. Len(messages) : messages'[i] = messages[i]
      /\ messages'[Len(messages) + 1] = m
  BY <1>1, <1>2
<1>4. /\ Len(pending') = Len(pending) - 1
      /\ \A n \in 1 .. Len(pending') : pending'[n] = pending[n + 1]
      /\ Head(pending) = pending[1]
  BY <1>1, <1>2
<1> SUFFICES ASSUME NEW i \in 1 .. Len(messages'),
                    messages'[i].role = "assistant",
                    NEW k \in 1 .. Len(Calls(i)')
             PROVE  CallOK(i, k)'
  BY <1>2 DEF ProtocolInv
<1>5. i # Len(messages) + 1
  BY <1>3 DEF Say
<1>6. i \in 1 .. Len(messages)
  BY <1>1, <1>3, <1>5
<1>7. messages[i].role = "assistant" /\ Calls(i)' = Calls(i)
  BY <1>3, <1>6 DEF Calls
<1>8. CallOK(i, k) /\ k \in Nat \ {0}
  BY <1>6, <1>7 DEF ProtocolInv, Calls
<1>9. CASE i + k <= Len(messages)
  <2>1. i + k \in 1 .. Len(messages) /\ i + k <= Len(messages')
    BY <1>1, <1>3, <1>6, <1>8, <1>9
  <2> QED
    BY <1>3, <1>7, <1>8, <1>9, <2>1 DEF CallOK
<1>10. CASE i + k = Len(messages) + 1
  <2>1. (i + k) - Len(messages) = 1 /\ ~(i + k <= Len(messages))
    BY <1>1, <1>10
  <2>2. pending[1] = Calls(i)[k]
    BY <1>8, <2>1 DEF CallOK
  <2>3. i + k <= Len(messages')
    BY <1>1, <1>3, <1>10
  <2> QED
    BY <1>3, <1>4, <1>7, <1>10, <2>2, <2>3 DEF CallOK
<1>11. CASE i + k > Len(messages) + 1
  <2> DEFINE n == (i + k) - Len(messages')
  <2>1. /\ (i + k) - Len(messages) = n + 1 /\ n >= 1 /\ n \in Nat
        /\ ~(i + k <= Len(messages)) /\ ~(i + k <= Len(messages'))
    BY <1>1, <1>3, <1>6, <1>8, <1>11
  <2>2. n + 1 \in 1 .. Len(pending) /\ pending[n + 1] = Calls(i)[k]
    BY <1>8, <2>1 DEF CallOK
  <2>3. n \in 1 .. Len(pending')
    BY <1>1, <1>4, <2>1, <2>2
  <2> QED
    BY <1>4, <1>7, <2>1, <2>2, <2>3 DEF CallOK
<1> QED
  BY <1>1, <1>6, <1>8, <1>9, <1>10, <1>11

LEMMA ProtocolStep == TypeInv /\ ProtocolInv /\ [QNext]_qvars => ProtocolInv'
<1> SUFFICES ASSUME TypeInv, ProtocolInv, [QNext]_qvars PROVE ProtocolInv'
  OBVIOUS
<1>1. ASSUME messages' = messages, pending' = pending,
             pc' = "invoke" \/ pending = << >>
      PROVE  ProtocolInv'
  BY <1>1 DEF ProtocolInv, CallOK, Calls
<1>2. CASE AttemptFails \/ Rejected \/ BackoffEnds \/ BackoffCancelled
  <2>1. pending = << >>
    BY <1>2 DEF AttemptFails, Rejected, BackoffEnds, BackoffCancelled, ProtocolInv
  <2> QED
    BY <1>1, <1>2, <2>1 DEF AttemptFails, Rejected, BackoffEnds,
                            BackoffCancelled, conversation
<1>3. CASE InvokeTool
  BY <1>3, InvokeProtocol
<1>4. CASE ToolsDone
  BY <1>1, <1>4 DEF ToolsDone, conversation
<1>5. CASE Cancel \/ UNCHANGED qvars
  <2>1. messages' = messages /\ pending' = pending /\ pc' = pc
    BY <1>5 DEF Cancel, conversation, qvars
  <2> QED
    BY <1>1, <2>1 DEF ProtocolInv
<1>6. ASSUME NEW calls \in CallLists, AnswerCalls(calls) PROVE ProtocolInv'
  BY <1>6, CallsProtocol
<1>7. ASSUME NEW a \in Answer, AnswerValid(a) \/ AnswerDraft(a)
      PROVE  ProtocolInv'
  <2>1. pending = << >>
    BY <1>7 DEF AnswerValid, AnswerDraft, Answered, ProtocolInv
  <2> QED
    BY <1>1, <1>7, <2>1 DEF AnswerValid, AnswerDraft, conversation
<1>8. ASSUME NEW a \in Answer, AnswerInvalid(a) PROVE ProtocolInv'
  <2>1. pending = << >> /\ pending' = << >>
    BY <1>8 DEF AnswerInvalid, Answered, ProtocolInv
  <2>2. CASE repromptUsed
    BY <1>1, <1>8, <2>1, <2>2 DEF AnswerInvalid
  <2>3. CASE ~repromptUsed
    BY <1>8, <2>1, <2>3, TwoQuietMessages DEF AnswerInvalid
  <2> QED
    BY <2>2, <2>3
<1> QED
  BY <1>2, <1>3, <1>4, <1>5, <1>6, <1>7, <1>8 DEF QNext, Proceed, ClientStep

\* Every request carries a complete conversation: for any number of tools,
\* calls and rounds, each tool call has its answer behind its turn.
THEOREM ToolProtocolHolds == QSpec => []ToolProtocol
<1>1. QInit => TypeInv /\ ProtocolInv
  BY TypeInit DEF QInit, ProtocolInv
<1>2. TypeInv /\ ProtocolInv => ToolProtocol
  <2> SUFFICES ASSUME TypeInv, ProtocolInv, pc = "send",
                      NEW i \in 1 .. Len(messages),
                      messages[i].role = "assistant",
                      NEW k \in 1 .. Len(Calls(i))
               PROVE  /\ i + k <= Len(messages)
                      /\ messages[i + k] = Say("tool", <<Calls(i)[k]>>)
    BY DEF ToolProtocol
  <2>1. CallOK(i, k) /\ pending = << >>
    BY DEF ProtocolInv
  <2> QED
    BY <2>1 DEF CallOK
<1> QED
  BY <1>1, <1>2, TypeStep, ProtocolStep, PTL DEF QSpec

-----------------------------------------------------------------------------
(***************************************************************************)
(* The ways in which a step adds to the conversation                       *)
(***************************************************************************)
records == <<toolsUsed, repromptUsed>>

SaysNothing ==
  /\ messages' = messages /\ UNCHANGED records
  /\ cause' = "invalid" => cause = "invalid" \/ repromptUsed

SaysTurn ==
  /\ \E calls \in Seq(Tool) : messages' = Append(messages, Say("assistant", calls))
  /\ UNCHANGED records /\ cause' = cause

SaysResult ==
  /\ \E x \in Tool :
       /\ messages'  = Append(messages, Say("tool", <<x>>))
       /\ toolsUsed' = [toolsUsed EXCEPT ![x] = Len(messages) + 1]
  /\ UNCHANGED repromptUsed /\ cause' = cause

SaysReprompt ==
  /\ ~repromptUsed /\ repromptUsed'
  /\ messages' = Append(Append(messages, Say("assistant", << >>)),
                        Say("reprompt", << >>))
  /\ UNCHANGED toolsUsed

LEMMA StepSays ==
  ASSUME TypeInv, [QNext]_qvars
  PROVE  SaysNothing \/ SaysTurn \/ SaysResult \/ SaysReprompt
<1>1. CASE \/ AttemptFails \/ Rejected \/ BackoffEnds \/ BackoffCancelled
           \/ ToolsDone \/ Cancel \/ UNCHANGED qvars
  BY <1>1
  DEF AttemptFails, Rejected, BackoffEnds, BackoffCancelled, ToolsDone, NextRound,
      Cancel, Fail, conversation, qvars, SaysNothing, records
<1>2. CASE InvokeTool
  <2>1. Head(pending) \in Tool
    BY <1>2 DEF InvokeTool, TypeInv, QTypeOK
  <2> QED
    BY <1>2, <2>1 DEF InvokeTool, SaysResult
<1>3. ASSUME NEW calls \in CallLists, AnswerCalls(calls) PROVE SaysTurn
  BY <1>3, CallListType DEF AnswerCalls, SaysTurn, records
<1>4. ASSUME NEW a \in Answer, AnswerValid(a) \/ AnswerDraft(a) PROVE SaysNothing
  BY <1>4 DEF AnswerValid, AnswerDraft, conversation, SaysNothing, records
<1>5. ASSUME NEW a \in Answer, AnswerInvalid(a) PROVE SaysNothing \/ SaysReprompt
  BY <1>5 DEF AnswerInvalid, SaysNothing, SaysReprompt, records
<1> QED
  BY <1>1, <1>2, <1>3, <1>4, <1>5 DEF QNext, Proceed, ClientStep

\* What a message or two behind the conversation are.
LEMMA MessageAdded ==
  ASSUME NEW s \in Seq(Message), NEW m \in Message
  PROVE  /\ Append(s, m) \in Seq(Message)
         /\ Len(s) \in Nat /\ Len(Append(s, m)) = Len(s) + 1
         /\ Append(s, m)[Len(s) + 1] = m
         /\ \A i \in 1 .. Len(s) : Append(s, m)[i] = s[i]
OBVIOUS

LEMMA SayType ==
  ASSUME NEW role \in Role, NEW calls \in Seq(Tool)
  PROVE  Say(role, calls) \in Message
BY DEF Say, Message

-----------------------------------------------------------------------------
(***************************************************************************)
(* The re-prompt                                                           *)
(***************************************************************************)
RepromptInv ==
  /\ IF repromptUsed THEN \E i : Reprompts = {i} ELSE Reprompts = {}
  /\ cause = "invalid" => repromptUsed

LEMMA RepromptStep ==
  ASSUME TypeInv, RepromptInv, [QNext]_qvars
  PROVE  RepromptInv'
<1>1. messages \in Seq(Message) /\ << >> \in Seq(Tool)
  BY DEF TypeInv, QTypeOK
<1>2. CASE SaysNothing
  BY <1>2 DEF SaysNothing, records, RepromptInv, Reprompts
<1>3. ASSUME NEW m \in Message, m.role # "reprompt", messages' = Append(messages, m)
      PROVE  Reprompts' = Reprompts
  BY <1>1, <1>3, MessageAdded DEF Reprompts
<1>4. CASE SaysTurn \/ SaysResult
  <2>1. \A calls \in Seq(Tool) : \A role \in {"assistant", "tool"} :
          Say(role, calls) \in Message /\ Say(role, calls).role # "reprompt"
    BY SayType DEF Say, Role
  <2>2. \A x \in Tool : <<x>> \in Seq(Tool)
    OBVIOUS
  <2>3. Reprompts' = Reprompts
    BY <1>3, <1>4, <2>1, <2>2 DEF SaysTurn, SaysResult
  <2>4. repromptUsed' = repromptUsed /\ cause' = cause
    BY <1>4 DEF SaysTurn, SaysResult, records
  <2> HIDE DEF Reprompts
  <2> QED
    BY <2>3, <2>4 DEF RepromptInv
<1>5. CASE SaysReprompt
  <2> DEFINE turn == Say("assistant", << >>)
             ask  == Say("reprompt", << >>)
             told == Append(messages, turn)
  <2>1. turn \in Message /\ ask \in Message /\ turn.role # "reprompt" /\ ask.role = "reprompt"
    BY <1>1, SayType DEF Say, Role
  <2>2. messages' = Append(told, ask) /\ ~repromptUsed /\ repromptUsed'
    BY <1>5 DEF SaysReprompt
  <2> HIDE DEF turn, ask
  <2>3. /\ told \in Seq(Message) /\ Len(told) = Len(messages) + 1 /\ Len(messages) \in Nat
        /\ told[Len(told)] = turn
        /\ \A i \in 1 .. Len(messages) : told[i] = messages[i]
    BY <1>1, <2>1, MessageAdded
  <2> HIDE DEF told
  <2>4. /\ Len(messages') = Len(told) + 1
        /\ messages'[Len(told) + 1] = ask
        /\ \A i \in 1 .. Len(told) : messages'[i] = told[i]
    BY <2>1, <2>2, <2>3, MessageAdded
  <2>5. \A i \in 1 .. Len(messages) : messages[i].role # "reprompt"
    BY <2>2 DEF RepromptInv, Reprompts
  <2>6. \A i \in 1 .. Len(told) : messages'[i].role # "reprompt"
    BY <2>1, <2>3, <2>4, <2>5
  <2>7. Reprompts' = {Len(told) + 1}
    BY <2>1, <2>3, <2>4, <2>6 DEF Reprompts
  <2> QED
    BY <2>2, <2>7 DEF RepromptInv
<1> QED
  BY <1>2, <1>4, <1>5, StepSays

(***************************************************************************)
(* The rounds: the model has a turn in the conversation for every round    *)
(* that is over.                                                           *)
(***************************************************************************)
TurnsInv ==
  /\ pc \in {"send", "backoff"} => Cardinality(Turns) = iter - 1
  /\ pc = "invoke" => Cardinality(Turns) = iter
  /\ pc \notin Ended => cause = None
  /\ cause = "iterations" => Cardinality(Turns) = MaxToolIterations

LEMMA TurnsFinite == TypeInv => IsFiniteSet(Turns) /\ Cardinality(Turns) \in Nat
<1> SUFFICES ASSUME TypeInv PROVE IsFiniteSet(Turns) /\ Cardinality(Turns) \in Nat
  OBVIOUS
<1>1. Len(messages) \in Nat
  BY DEF TypeInv, QTypeOK
<1>2. IsFiniteSet(1 .. Len(messages))
  BY <1>1, FS_Interval
<1>3. IsFiniteSet(Turns)
  BY <1>2, FS_Subset DEF Turns
<1> QED
  BY <1>3, FS_CardinalityType

\* A message of another role is no turn.
LEMMA NoTurnAdded ==
  ASSUME TypeInv, NEW m \in Message, m.role # "assistant",
         messages' = Append(messages, m)
  PROVE  Turns' = Turns
BY MessageAdded DEF TypeInv, QTypeOK, Turns

LEMMA TurnAdded ==
  ASSUME TypeInv, NEW said \in Seq(Message), said = messages,
         NEW m \in Message, m.role = "assistant",
         \/ messages' = Append(messages, m)
         \/ \E ask \in Message : /\ ask.role # "assistant"
                                 /\ messages' = Append(Append(messages, m), ask)
  PROVE  Cardinality(Turns') = Cardinality(Turns) + 1
<1> DEFINE n    == Len(messages) + 1
           told == Append(messages, m)
<1>1. /\ told \in Seq(Message) /\ Len(told) = n /\ Len(messages) \in Nat
      /\ told[n] = m
      /\ \A i \in 1 .. Len(messages) : told[i] = messages[i]
  BY MessageAdded
<1>2. {i \in 1 .. Len(told) : told[i].role = "assistant"} = Turns \cup {n}
  BY <1>1 DEF Turns
<1>3. Turns' = Turns \cup {n}
  <2>1. CASE messages' = told
    BY <1>2, <2>1 DEF Turns
  <2>2. ASSUME NEW ask \in Message, ask.role # "assistant", messages' = Append(told, ask)
        PROVE  Turns' = Turns \cup {n}
    <3> HIDE DEF told, n
    <3>1. /\ Len(messages') = Len(told) + 1 /\ messages'[Len(told) + 1] = ask
          /\ \A i \in 1 .. Len(told) : messages'[i] = told[i]
          /\ Len(told) \in Nat
      BY <1>1, <2>2, MessageAdded
    <3>2. Turns' = {i \in 1 .. Len(told) : told[i].role = "assistant"}
      BY <2>2, <3>1 DEF Turns
    <3> QED
      BY <1>2, <3>2
  <2> QED
    BY <2>1, <2>2
<1>4. n \notin Turns
  BY <1>1 DEF Turns
<1> HIDE DEF n
<1> QED
  BY <1>3, <1>4, TurnsFinite, FS_AddElement

LEMMA NextRoundTurns ==
  ASSUME TypeInv, NextRound, cause = None, Cardinality(Turns') = iter
  PROVE  TurnsInv'
BY LimitAssumption, NilAssumption
   DEF LimitAssumption, TypeInv, QTypeOK, NextRound, Fail, TurnsInv, Ended, Cause

LEMMA TurnsStep == TypeInv /\ TurnsInv /\ [QNext]_qvars => TurnsInv'
<1> SUFFICES ASSUME TypeInv, TurnsInv, [QNext]_qvars PROVE TurnsInv'
  OBVIOUS
<1>a. /\ messages \in Seq(Message) /\ pending \in Seq(Tool) /\ << >> \in Seq(Tool)
      /\ iter \in Nat /\ None # "iterations"
  BY LimitAssumption, NilAssumption DEF LimitAssumption, TypeInv, QTypeOK, Cause
<1>b. messages' = messages => Turns' = Turns
  BY DEF Turns
<1>1. CASE AttemptFails \/ Rejected \/ BackoffEnds \/ BackoffCancelled
  <2>1. Turns' = Turns /\ iter' = iter
    BY <1>1, <1>b DEF AttemptFails, Rejected, BackoffEnds, BackoffCancelled, conversation
  <2>2. Cardinality(Turns) = iter - 1 /\ cause = None
    BY <1>1 DEF AttemptFails, Rejected, BackoffEnds, BackoffCancelled, TurnsInv, Ended
  <2>3. \/ pc' = "failed" /\ cause' # "iterations"
        \/ pc' \in {"send", "backoff"} /\ cause' = cause
    BY <1>1 DEF AttemptFails, Rejected, BackoffEnds, BackoffCancelled, Fail
  <2> HIDE DEF Turns
  <2> QED
    BY <1>a, <2>1, <2>2, <2>3 DEF TurnsInv, Ended
<1>2. CASE Cancel \/ UNCHANGED qvars
  <2>1. Turns' = Turns /\ UNCHANGED <<pc, iter, cause>>
    BY <1>2, <1>b DEF Cancel, conversation, qvars
  <2> HIDE DEF Turns
  <2> QED
    BY <2>1 DEF TurnsInv
<1>3. CASE InvokeTool
  <2>1. Head(pending) \in Tool /\ <<Head(pending)>> \in Seq(Tool)
    BY <1>3, <1>a DEF InvokeTool
  <2>2. Say("tool", <<Head(pending)>>) \in Message
    BY <2>1, SayType DEF Role
  <2>3. Say("tool", <<Head(pending)>>).role # "assistant"
    BY DEF Say
  <2>4. Turns' = Turns
    BY <1>3, <2>2, <2>3, NoTurnAdded DEF InvokeTool
  <2>5. UNCHANGED <<pc, iter, cause>>
    BY <1>3 DEF InvokeTool
  <2> HIDE DEF Turns
  <2> QED
    BY <2>4, <2>5 DEF TurnsInv
<1>4. CASE ToolsDone
  <2>1. Turns' = Turns /\ NextRound
    BY <1>4, <1>b DEF ToolsDone, conversation
  <2>2. cause = None /\ Cardinality(Turns) = iter
    BY <1>4 DEF ToolsDone, TurnsInv, Ended
  <2> HIDE DEF Turns
  <2> QED
    BY <2>1, <2>2, NextRoundTurns
<1>5. ASSUME NEW calls \in CallLists, AnswerCalls(calls) PROVE TurnsInv'
  <2>1. Say("assistant", calls) \in Message /\ Say("assistant", calls).role = "assistant"
    BY CallListType, SayType DEF Say, Role
  <2>2. Cardinality(Turns') = Cardinality(Turns) + 1
    BY <1>5, <1>a, <2>1, TurnAdded DEF AnswerCalls
  <2>3. Cardinality(Turns) = iter - 1 /\ cause = None
    BY <1>5 DEF AnswerCalls, Answered, TurnsInv, Ended
  <2>4. pc' = "invoke" /\ iter' = iter /\ cause' = cause
    BY <1>5 DEF AnswerCalls
  <2> HIDE DEF Turns
  <2> QED
    BY <1>a, <2>2, <2>3, <2>4 DEF TurnsInv
<1>6. ASSUME NEW a \in Answer, AnswerValid(a) \/ AnswerDraft(a) PROVE TurnsInv'
  <2>1. cause' = None /\ pc' = "done"
    BY <1>6 DEF AnswerValid, AnswerDraft, Answered, Return, TurnsInv, Ended
  <2> QED
    BY <1>a, <2>1 DEF TurnsInv, Ended
<1>7. ASSUME NEW a \in Answer, AnswerInvalid(a) PROVE TurnsInv'
  <2>1. CASE repromptUsed
    BY <1>7, <2>1 DEF AnswerInvalid, Fail, TurnsInv, Ended
  <2>2. CASE ~repromptUsed
    <3>1. /\ Say("assistant", << >>) \in Message /\ Say("assistant", << >>).role = "assistant"
          /\ Say("reprompt", << >>) \in Message /\ Say("reprompt", << >>).role # "assistant"
      BY <1>a, SayType DEF Say, Role
    <3>2. /\ messages' = Append(Append(messages, Say("assistant", << >>)),
                                Say("reprompt", << >>))
          /\ NextRound
      BY <1>7, <2>2 DEF AnswerInvalid
    <3>3. Cardinality(Turns') = Cardinality(Turns) + 1
      BY <1>a, <3>1, <3>2, TurnAdded
    <3>4. Cardinality(Turns) = iter - 1 /\ cause = None
      BY <1>7 DEF AnswerInvalid, Answered, TurnsInv, Ended
    <3>5. Cardinality(Turns') = iter
      BY <1>a, <3>3, <3>4
    <3> QED
      BY <3>2, <3>4, <3>5, NextRoundTurns
  <2> QED
    BY <2>1, <2>2
<1> QED
  BY <1>1, <1>2, <1>3, <1>4, <1>5, <1>6, <1>7 DEF QNext, Proceed, ClientStep

\* However many answers are invalid, one re-prompt goes out at the most, no
\* answer is given up as invalid before it did, and Classify gives up for the
\* number of rounds only after as many answers.
THEOREM RepromptsOnce == QSpec => []OneReprompt
<1>1. QInit => TypeInv /\ RepromptInv /\ TurnsInv
  <2> SUFFICES ASSUME QInit PROVE RepromptInv /\ TurnsInv
    BY TypeInit
  <2>1. Reprompts = {} /\ Turns = {}
    BY DEF QInit, Reprompts, Turns
  <2>2. RepromptInv
    BY <2>1, NilAssumption DEF QInit, RepromptInv, Cause
  <2>3. Cardinality(Turns) = iter - 1
    BY <2>1, FS_EmptySet DEF QInit
  <2>4. TurnsInv
    BY <2>3, NilAssumption DEF QInit, TurnsInv, Cause
  <2> QED
    BY <2>2, <2>4
<1>2. RepromptInv /\ TurnsInv => OneReprompt
  <2>1. Reprompts = {} => Cardinality(Reprompts) = 0
    BY FS_EmptySet
  <2>2. (\E i : Reprompts = {i}) => Cardinality(Reprompts) = 1 /\ Reprompts # {}
    BY FS_Singleton
  <2> QED
    BY <2>1, <2>2 DEF RepromptInv, TurnsInv, OneReprompt
<1> QED
  BY <1>1, <1>2, TypeStep, RepromptStep, TurnsStep, PTL DEF QSpec

-----------------------------------------------------------------------------
(***************************************************************************)
(* The record of the tools                                                 *)
(***************************************************************************)
Uses(x) == {i \in 1 .. Len(messages) : messages[i] = Say("tool", <<x>>)}

RecordOK(x) ==
  IF toolsUsed[x] = 0
  THEN Uses(x) = {}
  ELSE toolsUsed[x] \in Uses(x) /\ \A i \in Uses(x) : i <= toolsUsed[x]

RecordInv == \A x \in Tool : RecordOK(x)

LEMMA RecordStep ==
  ASSUME TypeInv, RecordInv, [QNext]_qvars
  PROVE  RecordInv'
<1> SUFFICES ASSUME NEW x \in Tool PROVE RecordOK(x)'
  BY DEF RecordInv
<1>1. /\ messages \in Seq(Message) /\ << >> \in Seq(Tool) /\ Len(messages) \in Nat
      /\ toolsUsed \in [Tool -> Nat]
      /\ RecordOK(x)
  BY DEF TypeInv, QTypeOK, RecordInv
<1>2. ASSUME Uses(x)' = Uses(x), toolsUsed'[x] = toolsUsed[x]
      PROVE  RecordOK(x)'
  BY <1>1, <1>2 DEF RecordOK
<1>3. CASE SaysNothing
  BY <1>2, <1>3 DEF SaysNothing, records, Uses
<1>4. CASE SaysTurn
  <2>1. PICK m \in Message : m # Say("tool", <<x>>) /\ messages' = Append(messages, m)
    BY <1>4, SayType DEF SaysTurn, Say, Role
  <2>2. Uses(x)' = Uses(x)
    BY <1>1, <2>1, MessageAdded DEF Uses
  <2> QED
    BY <1>2, <1>4, <2>2 DEF SaysTurn, records
<1>5. CASE SaysReprompt
  <2>1. /\ Say("assistant", << >>) \in Message /\ Say("assistant", << >>) # Say("tool", <<x>>)
        /\ Say("reprompt", << >>) \in Message /\ Say("reprompt", << >>) # Say("tool", <<x>>)
    BY <1>1, SayType DEF Say, Role
  <2>2. PICK m1, m2, told :
          /\ m1 \in Message /\ m1 # Say("tool", <<x>>)
          /\ m2 \in Message /\ m2 # Say("tool", <<x>>)
          /\ told = Append(messages, m1) /\ messages' = Append(told, m2)
    BY <1>5, <2>1 DEF SaysReprompt
  <2>3. /\ told \in Seq(Message) /\ Len(told) = Len(messages) + 1
        /\ told[Len(messages) + 1] = m1
        /\ \A i \in 1 .. Len(messages) : told[i] = messages[i]
    BY <1>1, <2>2, MessageAdded
  <2>4. /\ Len(messages') = Len(told) + 1
        /\ messages'[Len(told) + 1] = m2
        /\ \A i \in 1 .. Len(told) : messages'[i] = told[i]
    BY <2>2, <2>3, MessageAdded
  <2>5. Uses(x)' = Uses(x)
    BY <1>1, <2>2, <2>3, <2>4 DEF Uses
  <2> QED
    BY <1>2, <1>5, <2>5 DEF SaysReprompt
<1>6. CASE SaysResult
  <2>1. PICK y \in Tool :
          /\ messages'  = Append(messages, Say("tool", <<y>>))
          /\ toolsUsed' = [toolsUsed EXCEPT ![y] = Len(messages) + 1]
    BY <1>6 DEF SaysResult
  <2>2. Say("tool", <<y>>) \in Message
    <3>1. <<y>> \in Seq(Tool)
      OBVIOUS
    <3> QED
      BY <3>1, SayType DEF Role
  <2>3. /\ Len(messages') = Len(messages) + 1
        /\ messages'[Len(messages) + 1] = Say("tool", <<y>>)
        /\ \A i \in 1 .. Len(messages) : messages'[i] = messages[i]
    BY <1>1, <2>1, <2>2, MessageAdded
  <2>4. CASE x = y
    <3>1. toolsUsed'[x] = Len(messages) + 1
      BY <1>1, <2>1, <2>4
    <3>2. Len(messages) + 1 \in Uses(x)' /\ \A i \in Uses(x)' : i <= Len(messages) + 1
      BY <1>1, <2>3, <2>4 DEF Uses
    <3> QED
      BY <1>1, <3>1, <3>2 DEF RecordOK
  <2>5. CASE x # y
    <3>1. Say("tool", <<y>>) # Say("tool", <<x>>)
      <4>1. <<y>>[1] # <<x>>[1]
        BY <2>5
      <4> QED
        BY <4>1 DEF Say
    <3>2. Uses(x)' = Uses(x)
      BY <1>1, <2>3, <3>1 DEF Uses
    <3> QED
      BY <1>1, <1>2, <2>1, <2>5, <3>2
  <2> QED
    BY <2>4, <2>5
<1> QED
  BY <1>3, <1>4, <1>5, <1>6, StepSays

\* What the caller is told of a tool is its latest invocation, and of no
\* other tool, however often the tools were called.
THEOREM RecordsTheLatestCall == QSpec => []LatestCallRecorded
<1>1. QInit => TypeInv /\ RecordInv
  BY TypeInit DEF QInit, RecordInv, RecordOK, Uses
<1>2. RecordInv => LatestCallRecorded
  <2> SUFFICES ASSUME RecordInv, NEW x \in Tool
               PROVE  toolsUsed[x] = IF Uses(x) = {} THEN 0
                                     ELSE CHOOSE i \in Uses(x) : \A j \in Uses(x) : j <= i
    BY DEF LatestCallRecorded, Uses
  <2>1. Uses(x) \subseteq Nat /\ 0 \notin Uses(x)
    BY DEF Uses
  <2>2. RecordOK(x)
    BY DEF RecordInv
  <2>3. CASE toolsUsed[x] = 0
    BY <2>2, <2>3 DEF RecordOK
  <2>4. CASE toolsUsed[x] # 0
    <3> DEFINE Last(i) == i \in Uses(x) /\ \A j \in Uses(x) : j <= i
    <3>1. Last(toolsUsed[x])
      BY <2>2, <2>4 DEF RecordOK
    <3>2. \A i, j : Last(i) /\ Last(j) => i = j
      BY <2>1
    <3>3. (CHOOSE i \in Uses(x) : \A j \in Uses(x) : j <= i) = toolsUsed[x]
      BY <3>1, <3>2
    <3> QED
      BY <3>1, <3>3
  <2> QED
    BY <2>3, <2>4
<1> QED
  BY <1>1, <1>2, TypeStep, RecordStep, PTL DEF QSpec

=============================================================================
