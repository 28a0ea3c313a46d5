---------------------------- MODULE MCQwenClient ----------------------------
(***************************************************************************)
(* Small instances of the Qwen client.  The answers are a text that is no  *)
(* classification, a plain one, one whose department is made up and whose  *)
(* confidence is above 1, and one below 0 with no department.              *)
(***************************************************************************)
EXTENDS QwenClient

MCAnswer ==
  {[urgency |-> Misspelt, type |-> Unset, department |-> Unset,
    confidence |-> 0],
   [urgency |-> "high", type |-> "billing", department |-> "billing",
    confidence |-> 80],
   [urgency |-> "low", type |-> "account", department |-> Misspelt,
    confidence |-> 140],
   [urgency |-> "normal", type |-> "general", department |-> Unset,
    confidence |-> -5]}

=============================================================================
