---------------------------- MODULE MCDashboard ----------------------------
(***************************************************************************)
(* A console in front of a small server.  The model is unsure about every  *)
(* ticket and has the same values in mind as the drop-downs start with.    *)
(***************************************************************************)
EXTENDS Dashboard

DefaultVerdict == {[urgency |-> "normal", type |-> "general",
                    department |-> "support_tier1", confidence |-> 40]}

DefaultDecision == {Defaults}

\* The reviewer may also raise the urgency.
RaiseDecision == {Defaults, [Defaults EXCEPT !.urgency = "high"]}

=============================================================================
