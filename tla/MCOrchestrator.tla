--------------------------- MODULE MCOrchestrator ---------------------------
(***************************************************************************)
(* Small instances of the orchestrator with the threshold at 0.75.  The    *)
(* verdicts are a critical one, and one at the threshold and one just      *)
(* below it; the decisions leave everything as it is, override everything, *)
(* and misspell a field.                                                   *)
(***************************************************************************)
EXTENDS OrchestratorProperties, TLC

MCVerdict ==
  {[urgency |-> "critical", type |-> "technical",
    department |-> "engineering", confidence |-> 90],
   [urgency |-> "normal", type |-> "billing",
    department |-> "billing", confidence |-> 75],
   [urgency |-> "low", type |-> "general",
    department |-> "support_tier1", confidence |-> 74]}

MCDecision ==
  {Unlabelled,
   [urgency |-> "high", type |-> "account", department |-> "accounts"],
   [urgency |-> Misspelt, type |-> Unset, department |-> Unset]}

\* The stored values are kept, or a field is misspelt.
KeepDecision == {d \in MCDecision : d.type = Unset}

MCSymmetry == Permutations(Ticket) \cup Permutations(Worker)
                \cup Permutations(Key) \cup Permutations(Text)

=============================================================================
