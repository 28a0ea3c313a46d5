SPECIFICATION DashSpec
CONSTANTS
  Ticket = {t1}
  Key = {k1}
  Worker = {w1}
  Text = {x1}
  Verdict <- DefaultVerdict
  Decision <- RaiseDecision
  None = None
  ConfidenceThreshold = 75
  MaxReplies = 2
  Fetch = {f1, f2}
INVARIANTS
  DashTypeOK
  ShownIsConsistent
  TextareaFollowsDraft
PROPERTIES
  EditsAreKept
  ButtonsComeBack
