SPECIFICATION AloneSpec
CONSTANTS
  Ticket = {t1}
  Key = {k1}
  Worker = {w1, w2}
  Text = {x1}
  Verdict <- DefaultVerdict
  Decision <- DefaultDecision
  None = None
  ConfidenceThreshold = 75
  MaxReplies = 2
  Fetch = {f1}
INVARIANT ResolvedReplyIsApproved
