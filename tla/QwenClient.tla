----------------------------- MODULE QwenClient -----------------------------
(***************************************************************************)
(* One call of the Qwen client (internal/qwen): Classify or DraftReply.    *)
(* Classify is a loop of rounds.  A round is one chat completion, which    *)
(* doChatRaw asks for up to MaxAttempts times, and what the answer leads   *)
(* to: tool calls are executed and their results sent with the next round, *)
(* an answer that is not a classification is re-prompted once, and         *)
(* anything else ends the call.  DraftReply is a single round.             *)
(*                                                                         *)
(* The model behind the endpoint may answer anything, the network and the  *)
(* endpoint may fail at any attempt, and the caller's context may be       *)
(* cancelled at any time.  Tool calls come only when tools were offered.   *)
(*                                                                         *)
(* The client's own requests have a timeout.  A tool call has none: over   *)
(* MCP it is a CallTool on a client without one, and ends by an answer, an *)
(* error or the end of the caller's context.                               *)
(***************************************************************************)
EXTENDS Domain, Integers, Sequences, FiniteSets

CONSTANTS
  MaxAttempts,       \* maxAttempts of client.go
  MaxToolIterations, \* maxToolIterations of client.go
  Tool,              \* the tools offered, none when no ToolBox is attached
  MaxCalls,          \* bound: tool calls in one answer
  Answer,            \* contents the model may return
  None               \* no result yet

ASSUME LimitAssumption == /\ MaxAttempts \in Nat \ {0}
                          /\ MaxToolIterations \in Nat \ {0}
                          /\ MaxCalls \in Nat

(***************************************************************************)
(* A content is what parseClassification finds in it; a text that is not   *)
(* JSON is an answer with an urgency outside the taxonomy.  A confidence   *)
(* is in hundredths.                                                       *)
(***************************************************************************)
Content == [urgency    : Urgency    \cup {Unset, Misspelt},
            type       : TicketType \cup {Unset, Misspelt},
            department : Department \cup {Unset, Misspelt},
            confidence : Int]

ASSUME AnswerAssumption == Answer \subseteq Content /\ None \notin Content

ValidAnswer(a) == a.urgency \in Urgency /\ a.type \in TicketType

\* An invalid or empty department is derived from the type.
DepartmentOf(a) ==
  IF a.department \in Department THEN a.department ELSE DepartmentForType(a.type)

\* Mutant: the confidence is taken as it is.
NoClamp(c) == c

Clamp(c) == IF c < 0 THEN 0 ELSE IF c > 100 THEN 100 ELSE c

\* parseClassification of a valid answer.
ParseClassification(a) ==
  [urgency |-> a.urgency, type |-> a.type, department |-> DepartmentOf(a),
   confidence |-> Clamp(a.confidence)]

-----------------------------------------------------------------------------
VARIABLES
  task,         \* the method that was called
  pc,           \* where it is
  iter,         \* the round of Classify, from 1
  attempt,      \* the attempt of doChatRaw, from 1
  messages,     \* the conversation so far, without the two opening messages
  pending,      \* the tool calls of this round that are still to execute
  toolsUsed,    \* where the recorded result of a tool is in messages, or 0
  repromptUsed, \* whether the re-prompt was spent
  result,       \* what the call returns
  cause,        \* why it failed
  cancelled,    \* whether the caller's context is done
  requests      \* history: requests sent

qvars == <<task, pc, iter, attempt, messages, pending, toolsUsed,
           repromptUsed, result, cause, cancelled, requests>>

conversation == <<messages, pending, toolsUsed, repromptUsed>>

Cause == {"rejected", "cancelled", "attempts", "invalid", "iterations"}

ASSUME NilAssumption == None \notin Cause   \* a nil error is none of them

Role == {"assistant", "reprompt", "tool"}

\* An assistant message carries its tool calls, a tool message its tool.
Message == [role : Role, calls : Seq(Tool)]

Ended == {"done", "failed"}

QTypeOK ==
  /\ task         \in {"classify", "draft"}
  /\ pc           \in {"send", "backoff", "invoke"} \cup Ended
  /\ iter         \in 1 .. MaxToolIterations
  /\ attempt      \in 1 .. MaxAttempts
  /\ messages     \in Seq(Message)
  /\ pending      \in Seq(Tool)
  /\ toolsUsed    \in [Tool -> Nat]
  /\ repromptUsed \in BOOLEAN
  /\ result       \in Content \cup {None}
  /\ cause        \in Cause \cup {None}
  /\ cancelled    \in BOOLEAN
  /\ requests     \in Nat

QInit ==
  /\ task \in {"classify", "draft"}
  /\ pc = "send" /\ iter = 1 /\ attempt = 1
  /\ messages = << >> /\ pending = << >> /\ repromptUsed = FALSE
  /\ toolsUsed = [x \in Tool |-> 0]
  /\ result = None /\ cause = None /\ cancelled = FALSE /\ requests = 0

-----------------------------------------------------------------------------
(***************************************************************************)
(* doChatRaw                                                               *)
(***************************************************************************)

Fail(why) == pc' = "failed" /\ cause' = why

\* The request was sent, unless the context was done before it; a context
\* that is done by now may have ended while the request was under way.
CountRequest ==
  \/ requests' = requests + 1
  \/ cancelled /\ requests' = requests

\* Mutant: one attempt too many.
BackoffAtLast ==
  /\ pc = "send"
  /\ CountRequest
  /\ \/ attempt <= MaxAttempts /\ pc' = "backoff" /\ UNCHANGED cause
     \/ attempt > MaxAttempts  /\ Fail("attempts")
  /\ UNCHANGED <<task, iter, attempt, conversation, result, cancelled>>

\* A network error, a 429 or a 5xx: worth another attempt after a pause.
\* The only outcome there is when the context is done already.
AttemptFails ==
  /\ pc = "send"
  /\ CountRequest
  /\ \/ attempt < MaxAttempts /\ pc' = "backoff" /\ UNCHANGED cause
     \/ attempt = MaxAttempts /\ Fail("attempts")
  /\ UNCHANGED <<task, iter, attempt, conversation, result, cancelled>>

\* Mutant: the pause is over only when the context is done.
BackoffForever ==
  /\ pc = "backoff" /\ cancelled
  /\ pc' = "send"
  /\ attempt' = attempt + 1
  /\ UNCHANGED <<task, iter, conversation, result, cause, cancelled, requests>>

\* select: the timer fires ...
BackoffEnds ==
  /\ pc = "backoff"
  /\ pc' = "send"
  /\ attempt' = attempt + 1
  /\ UNCHANGED <<task, iter, conversation, result, cause, cancelled, requests>>

\* ... or the context is done.
BackoffCancelled ==
  /\ pc = "backoff" /\ cancelled
  /\ Fail("cancelled")
  /\ UNCHANGED <<task, iter, attempt, conversation, result, cancelled, requests>>

\* Any other status, a body that is no JSON, an answer without choices.
Rejected ==
  /\ pc = "send" /\ ~cancelled
  /\ CountRequest
  /\ Fail("rejected")
  /\ UNCHANGED <<task, iter, attempt, conversation, result, cancelled>>

-----------------------------------------------------------------------------
(***************************************************************************)
(* Classify                                                                *)
(***************************************************************************)

Answered == pc = "send" /\ ~cancelled /\ CountRequest

Say(role, calls) == [role |-> role, calls |-> calls]

\* Mutant: one round too many.
RoundAtLast ==
  /\ attempt' = 1
  /\ \/ /\ iter <= MaxToolIterations
        /\ iter' = iter + 1 /\ pc' = "send"
        /\ UNCHANGED cause
     \/ /\ iter > MaxToolIterations
        /\ Fail("iterations")
        /\ UNCHANGED iter

\* continue: the next round, or the end of the loop.
NextRound ==
  /\ attempt' = 1
  /\ \/ /\ iter < MaxToolIterations
        /\ iter' = iter + 1 /\ pc' = "send"
        /\ UNCHANGED cause
     \/ /\ iter = MaxToolIterations
        /\ Fail("iterations")
        /\ UNCHANGED iter

\* The model asks for tools: its turn joins the conversation.
AnswerCalls(calls) ==
  /\ task = "classify" /\ Answered
  /\ messages' = Append(messages, Say("assistant", calls))
  /\ pending' = calls
  /\ pc' = "invoke"
  /\ UNCHANGED <<task, iter, attempt, toolsUsed, repromptUsed, result, cause,
                 cancelled>>

\* Mutant: a tool that returns an error is skipped.
InvokeUnlessError ==
  /\ pc = "invoke" /\ pending # << >>
  /\ pending' = Tail(pending)
  /\ \/ /\ messages'  = Append(messages, Say("tool", <<Head(pending)>>))
        /\ toolsUsed' = [toolsUsed EXCEPT ![Head(pending)] = Len(messages) + 1]
     \/ UNCHANGED <<messages, toolsUsed>>
  /\ UNCHANGED <<task, pc, iter, attempt, repromptUsed, result, cause,
                 cancelled, requests>>

\* Mutant: the first invocation of a tool is the one that is kept.
InvokeKeepFirst ==
  /\ pc = "invoke" /\ pending # << >>
  /\ pending'   = Tail(pending)
  /\ messages'  = Append(messages, Say("tool", <<Head(pending)>>))
  /\ toolsUsed' = [toolsUsed EXCEPT ![Head(pending)] =
                     IF @ = 0 THEN Len(messages) + 1 ELSE @]
  /\ UNCHANGED <<task, pc, iter, attempt, repromptUsed, result, cause,
                 cancelled, requests>>

\* Invoke one tool.  Its result, or the text of its error, is recorded under
\* the tool's name and joins the conversation.
InvokeTool ==
  /\ pc = "invoke" /\ pending # << >>
  /\ pending'   = Tail(pending)
  /\ messages'  = Append(messages, Say("tool", <<Head(pending)>>))
  /\ toolsUsed' = [toolsUsed EXCEPT ![Head(pending)] = Len(messages) + 1]
  /\ UNCHANGED <<task, pc, iter, attempt, repromptUsed, result, cause,
                 cancelled, requests>>

ToolsDone ==
  /\ pc = "invoke" /\ pending = << >>
  /\ NextRound
  /\ UNCHANGED <<task, conversation, result, cancelled, requests>>

Return(value) == pc' = "done" /\ result' = value

\* The final answer.
AnswerValid(a) ==
  /\ task = "classify" /\ Answered /\ ValidAnswer(a)
  /\ Return(ParseClassification(a))
  /\ UNCHANGED <<task, iter, attempt, conversation, cause, cancelled>>

\* Mutant: every invalid answer is re-prompted.
AlwaysReprompt(a) ==
  /\ task = "classify" /\ Answered /\ ~ValidAnswer(a)
  /\ repromptUsed' = TRUE
  /\ messages' = Append(Append(messages, Say("assistant", << >>)),
                        Say("reprompt", << >>))
  /\ NextRound
  /\ UNCHANGED <<task, pending, toolsUsed, result, cancelled>>

\* The answer is no classification: re-prompt, or give up when that was done.
AnswerInvalid(a) ==
  /\ task = "classify" /\ Answered /\ ~ValidAnswer(a)
  /\ \/ /\ repromptUsed
        /\ Fail("invalid")
        /\ UNCHANGED <<iter, attempt, messages, repromptUsed>>
     \/ /\ ~repromptUsed
        /\ repromptUsed' = TRUE
        /\ messages' = Append(Append(messages, Say("assistant", << >>)),
                              Say("reprompt", << >>))
        /\ NextRound
  /\ UNCHANGED <<task, pending, toolsUsed, result, cancelled>>

\* DraftReply takes whatever text there is, an empty one included.
AnswerDraft(a) ==
  /\ task = "draft" /\ Answered
  /\ Return(a)
  /\ UNCHANGED <<task, iter, attempt, conversation, cause, cancelled>>

-----------------------------------------------------------------------------
\* The client disconnects, or the caller is shut down.
Cancel ==
  /\ pc \notin Ended /\ ~cancelled
  /\ cancelled' = TRUE
  /\ UNCHANGED <<task, pc, iter, attempt, conversation, result, cause, requests>>

CallLists == UNION {[1 .. n -> Tool] : n \in 1 .. MaxCalls}

\* What the client does by itself, whatever answers the model gives.
ClientStep ==
  \/ AttemptFails \/ BackoffEnds \/ BackoffCancelled \/ Rejected \/ ToolsDone
  \/ \E calls \in CallLists : AnswerCalls(calls)
  \/ \E a \in Answer : AnswerValid(a) \/ AnswerInvalid(a) \/ AnswerDraft(a)

Proceed == ClientStep \/ InvokeTool

QNext == Proceed \/ Cancel

\* Every request to the model ends (the HTTP client has a timeout), timers
\* fire, and a goroutine that can run is run.  Of a tool call no more is
\* assumed than that it heeds its context: an MCP server may keep silent.
QSpec ==
  /\ QInit /\ [][QNext]_qvars
  /\ WF_qvars(ClientStep)
  /\ WF_qvars(cancelled /\ InvokeTool)

-----------------------------------------------------------------------------
(***************************************************************************)
(* Properties                                                              *)
(***************************************************************************)

\* One classification costs at most maxAttempts * maxToolIterations requests
\* and one draft at most maxAttempts, whatever the model answers and however
\* retries, tool calls and the re-prompt combine.
RequestsBounded ==
  requests <= (IF task = "draft" THEN 1 ELSE iter) * MaxAttempts

Calls(i) == messages[i].calls

\* When a request is about to be sent, every tool call of every earlier turn
\* has been answered, in order, right behind the turn, also when the tool
\* failed: the endpoint rejects a conversation with an unanswered call.
ToolProtocol ==
  pc = "send" =>
    \A i \in 1 .. Len(messages) : messages[i].role = "assistant" =>
      \A k \in 1 .. Len(Calls(i)) :
        /\ i + k <= Len(messages)
        /\ messages[i + k] = Say("tool", <<Calls(i)[k]>>)

Reprompts == {i \in 1 .. Len(messages) : messages[i].role = "reprompt"}

Turns == {i \in 1 .. Len(messages) : messages[i].role = "assistant"}

\* "Re-prompts once": never twice, and an answer is given up as invalid only
\* after a re-prompt has gone out.  A re-prompt costs a round like the tools
\* do: Classify gives up for the number of rounds only when the model has
\* answered in every one of them, so a re-prompt in the last is not sent.
OneReprompt ==
  /\ Cardinality(Reprompts) <= 1
  /\ cause = "invalid" => Reprompts # {}
  /\ cause = "iterations" => Cardinality(Turns) = MaxToolIterations

\* What Classify returns is in the fixed taxonomies, with a confidence the
\* threshold can be compared with, whatever the model made up; this is what
\* the orchestrator assumes of a verdict.
ResultInTaxonomy ==
  pc = "done" /\ task = "classify" => result \in Classification

\* What is recorded of a tool is its latest invocation, and no tool is
\* recorded that was not invoked.
LatestCallRecorded ==
  \A x \in Tool :
    LET uses == {i \in 1 .. Len(messages) : messages[i] = Say("tool", <<x>>)}
    IN  toolsUsed[x] = IF uses = {} THEN 0
                       ELSE CHOOSE i \in uses : \A j \in uses : j <= i

InTool == pc = "invoke" /\ pending # << >>

\* The call returns, however retries, pauses, rounds and the re-prompt
\* combine, or it is in one tool call for ever and nobody cancels it: the
\* poller's context never ends.  Tools that answer leave only the first.
ReturnsOrHangs == <>(pc \in Ended) \/ <>[](InTool /\ ~cancelled)

=============================================================================
