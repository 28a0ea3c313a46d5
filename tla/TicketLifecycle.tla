--------------------------- MODULE TicketLifecycle ---------------------------
(***************************************************************************)
(* What the system promises about one ticket, whatever goroutines serve it *)
(* and however they interleave or die: the transitions that the state      *)
(* machine allows, who may take each of them, and that the history of a    *)
(* ticket grows by exactly one row, in the same step, with each.           *)
(*                                                                         *)
(* Module Orchestrator implements this specification.                      *)
(***************************************************************************)
EXTENDS Domain, Naturals, Sequences

CONSTANTS
  Ticket,  \* ticket ids
  Text,    \* reply texts that are not blank
  None     \* no text

VARIABLES
  stage,   \* the state of each ticket, "ABSENT" before it exists
  history  \* the transitions of each ticket, oldest first

LInit ==
  /\ stage   = [t \in Ticket |-> "ABSENT"]
  /\ history = [t \in Ticket |-> << >>]

Create(t) ==
  /\ stage[t] = "ABSENT"
  /\ stage' = [stage EXCEPT ![t] = "NEW"]
  /\ UNCHANGED history

Move(t, from, to, actor, text) ==
  /\ stage[t] = from
  /\ stage'   = [stage EXCEPT ![t] = to]
  /\ history' = [history EXCEPT ![t] = Append(@,
                  [from |-> from, to |-> to, actor |-> actor, text |-> text])]

\* What the agent does by itself.  It may not leave a human checkpoint.
AgentMove(t) ==
  \/ Move(t, "NEW", "CLASSIFYING", "system", None)
  \/ Move(t, "CLASSIFYING", "ROUTED", "qwen", None)
  \/ Move(t, "CLASSIFYING", "AWAITING_CLASSIFICATION_REVIEW", "qwen", None)
  \/ Move(t, "CLASSIFYING", "AWAITING_CLASSIFICATION_REVIEW", "system", None)
  \/ Move(t, "ROUTED", "DRAFTING", "system", None)
  \/ Move(t, "DRAFTING", "AWAITING_REPLY_APPROVAL", "system", None)

\* What needs a human: both checkpoints, and a text for the reply.
HumanMove(t) ==
  \/ Move(t, "AWAITING_CLASSIFICATION_REVIEW", "ROUTED", "human", None)
  \/ Move(t, "AWAITING_REPLY_APPROVAL", "DRAFTING", "human", None)
  \/ \E x \in Text :
       Move(t, "AWAITING_REPLY_APPROVAL", "RESOLVED", "human", x)

LNext == \E t \in Ticket : Create(t) \/ AgentMove(t) \/ HumanMove(t)

LSpec == LInit /\ [][LNext]_<<stage, history>>

=============================================================================
