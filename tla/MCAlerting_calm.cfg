SPECIFICATION CalmAlertSpec
CONSTANTS
  k1 = k1
  k2 = k2
  Ticket = {t1}
  Key = {k1}
  Worker = {poller, w1}
  Poller = poller
  Text = {x1}
  Verdict <- MCVerdict
  Decision <- KeepDecision
  None = None
  ConfidenceThreshold = 75
  MaxReplies = 2
  Message <- MCMessage
  KeyOf <- DuplicateMail
  SlackWebhookURL = TRUE
  SMTPHost = TRUE
  SMTPFrom = TRUE
INVARIANT EachAlerterOnce
PROPERTIES
  TicketsAreCarried
  NeverDropped
  CriticalIsAlerted
  MailReachesHumanOrHangs
