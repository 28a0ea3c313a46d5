SPECIFICATION LogTurnsSpec
CONSTANTS
  Ticket = {t1}
  Key = {k1}
  Worker = {w1, w2}
  Text = {x1, x2}
  Verdict <- MCVerdict
  Decision <- TurnsDecision
  None = None
  ConfidenceThreshold = 75
  MaxReplies = 2
SYMMETRY MCSymmetry
INVARIANTS
  ResolvedReplyIsApproved
  LogReplays
  PartialLabelsAreHuman
PROPERTY LifecycleSpec
