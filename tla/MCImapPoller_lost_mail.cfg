SPECIFICATION MailSpec
CONSTANTS
  k1 = k1
  k2 = k2
  Ticket = {t1, t2}
  Key = {k1, k2}
  Worker = {poller, w1}
  Poller = poller
  Text = {x1}
  Verdict <- MCVerdict
  Decision <- MCDecision
  None = None
  ConfidenceThreshold = 75
  MaxReplies = 1
  Message <- MCMessage
  KeyOf <- TwoMails
INVARIANT SeenIsIngested
