SPECIFICATION FairSpec
CONSTANTS
  Ticket = {t1}
  Key = {k1}
  Worker = {w1}
  Text = {x1}
  Verdict <- MCVerdict
  Decision <- MCDecision
  None = None
  ConfidenceThreshold = 75
  MaxReplies = 2
PROPERTY NeverDropped
