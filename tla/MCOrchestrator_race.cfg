SPECIFICATION Spec
CONSTANTS
  Ticket = {t1}
  Key = {k1}
  Worker = {w1, w2, w3}
  Text = {x1}
  Verdict <- MCVerdict
  Decision <- KeepDecision
  None = None
  ConfidenceThreshold = 75
  MaxReplies = 2
SYMMETRY MCSymmetry
INVARIANTS
  TypeOK
  ExclusiveDriver
  AuditReplays
  HumanGates
  GateIsKept
  ReviewShowsTheVerdict
  OneDraftPerRound
  AlertsAreForCritical
