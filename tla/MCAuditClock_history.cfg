SPECIFICATION LogSightSpec
CONSTANTS
  Ticket = {t1}
  Key = {k1}
  Worker = {w1, w2}
  Text = {x1}
  Verdict <- MCVerdict
  Decision <- KeepDecision
  None = None
  ConfidenceThreshold = 75
  MaxReplies = 2
SYMMETRY MCSymmetry
INVARIANT LogReplays
