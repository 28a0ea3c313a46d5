------------------------------- MODULE Domain -------------------------------
(***************************************************************************)
(* The fixed taxonomies of internal/domain: ticket states, urgencies,      *)
(* ticket types and departments, and the records built from them.  A       *)
(* column that is NULL in the database, a nil pointer in a Transition and  *)
(* an empty JSON field all read as the empty string in the Go code; they   *)
(* are the one value Unset here.                                           *)
(***************************************************************************)
EXTENDS Naturals

\* The lifecycle states of a ticket (FAILED is declared but never written).
TicketState == {"NEW", "CLASSIFYING", "AWAITING_CLASSIFICATION_REVIEW",
                "ROUTED", "DRAFTING", "AWAITING_REPLY_APPROVAL",
                "RESOLVED", "FAILED"}

Urgency    == {"low", "normal", "high", "critical"}
TicketType == {"billing", "technical", "account", "feature_request", "general"}
Department == {"billing", "engineering", "accounts", "product", "support_tier1"}

\* The department a type routes to when the model names no valid one.
DepartmentForType(type) ==
  CASE type = "billing"         -> "billing"
    [] type = "technical"       -> "engineering"
    [] type = "account"         -> "accounts"
    [] type = "feature_request" -> "product"
    [] OTHER                    -> "support_tier1"

Unset == ""

-----------------------------------------------------------------------------
(***************************************************************************)
(* Labels are the routing columns of a ticket, any of which may be NULL.   *)
(***************************************************************************)
Labels == [urgency    : Urgency \cup {Unset},
           type       : TicketType \cup {Unset},
           department : Department \cup {Unset}]

Unlabelled == [urgency |-> Unset, type |-> Unset, department |-> Unset]

\* A classification the model returned and the client validated and clamped.
\* The confidence is in hundredths.
Classification == [urgency    : Urgency,
                   type       : TicketType,
                   department : Department,
                   confidence : 0 .. 100]

LabelsOf(verdict) == [urgency    |-> verdict.urgency,
                      type       |-> verdict.type,
                      department |-> verdict.department]

\* What a reviewer may post at Checkpoint 1: any of the fields left empty,
\* valid, or some string outside the taxonomy (Misspelt stands for them all).
Misspelt == "misspelt"
ReviewDecision == [urgency    : Urgency    \cup {Unset, Misspelt},
                   type       : TicketType \cup {Unset, Misspelt},
                   department : Department \cup {Unset, Misspelt}]

\* Mutant: the decision goes to the database unvalidated.
AnyDecision(d) == TRUE

ValidDecision(d) == d \in Labels

=============================================================================
