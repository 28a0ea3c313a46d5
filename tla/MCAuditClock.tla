---------------------------- MODULE MCAuditClock ----------------------------
(***************************************************************************)
(* Small instances of the orchestrator with the begin of each transaction. *)
(***************************************************************************)
EXTENDS AuditClock, MCOrchestrator

\* As posted to the API: a type and nothing else.
TypeOnly == [urgency |-> Unset, type |-> "account", department |-> Unset]

TurnsDecision == MCDecision \cup {TypeOnly}

=============================================================================
