--------------------------- MODULE AlertingProofs ---------------------------
(***************************************************************************)
(* Proofs about the alerters: whatever is configured, and however many     *)
(* goroutines work on tickets meanwhile.                                   *)
(***************************************************************************)
EXTENDS Alerting, ImapPollerProofs, ReviewProofs

\* Calls of alerters are not seen by the poller or the orchestrator.
LEMMA AlertStepRefines == [AlertNext]_avars => [CalmMailNext]_pvars
<1> SUFFICES ASSUME [AlertNext]_avars PROVE [CalmMailNext]_pvars
  OBVIOUS
<1>1. ASSUME NEW w \in Worker, NEW a, CallAlerter(w, a), UNCHANGED mailVars
      PROVE  UNCHANGED pvars
  BY <1>1 DEF CallAlerter, pvars
<1>2. ASSUME NEW w \in Worker, ServePrompt(w)
      PROVE  UNCHANGED pvars \/ (Serve(w) /\ UNCHANGED mailVars)
  BY <1>1, <1>2 DEF ServePrompt, AlertDone, Serve
<1>3. ASSUME NEW w \in Worker, SendMail(w) PROVE UNCHANGED pvars
  BY <1>1, <1>3 DEF SendMail
<1>4. CASE UNCHANGED avars
  BY <1>4 DEF avars
<1>5. CASE AlertNext
  BY <1>2, <1>3, <1>5 DEF AlertNext, CalmMailNext, OthersStep
<1> QED
  BY <1>4, <1>5

LEMMA AlertingIsAClient == CalmAlertSpec => CalmMailSpec
<1>1. AlertInit => PollerInit
  BY DEF AlertInit
<1> QED
  BY <1>1, AlertStepRefines, PTL DEF CalmAlertSpec, CalmMailSpec

\* On a day without faults nothing that was received is dropped, whatever is
\* configured and however long an alerter takes: a message that is marked has
\* a ticket, a ticket is at a checkpoint or in the hands of a goroutine, and a
\* goroutine that has claimed a ticket is not turned away.
THEOREM NothingIsDropped == CalmAlertSpec => []SeenIsIngested /\ TicketsAreCarried
<1>1. CalmMailSpec => CalmSpec
  BY CalmMailIsCalm
<1> QED
  BY <1>1, AlertingIsAClient, NoMailIsLost, NobodyIsStranded

-----------------------------------------------------------------------------
(***************************************************************************)
(* What has been called so far                                             *)
(***************************************************************************)

AlerterName == {"log", "slack", "email"}

\* The alerters that were called about t are the first n.
Called(t, n) ==
  /\ tried[t] \in Seq(AlerterName) /\ Len(tried[t]) = n
  /\ \A i \in 1 .. n : tried[t][i] = Alerters[i]

NobodyAlerts(t) == \A w \in Worker : pc[w] = "alert" => T(w) # t

CallsInv ==
  /\ called \in [Worker -> 0 .. Len(Alerters)] /\ DOMAIN tried = Ticket
  /\ \A w \in Worker : IF pc[w] = "alert" THEN Called(T(w), called[w])
                       ELSE called[w] = 0
  /\ \A t \in Ticket : alerts[t] = 1 => Called(t, Len(Alerters))
  /\ \A t \in Ticket : alerts[t] = 0 /\ NobodyAlerts(t) => Called(t, 0)

LEMMA AlertersAreNames == Alerters \in Seq(AlerterName) /\ Len(Alerters) \in Nat
<1> DEFINE slack == IF SlackWebhookURL THEN <<"slack">> ELSE << >>
           mail  == IF SMTPHost /\ SMTPFrom THEN <<"email">> ELSE << >>
<1>1. slack \in Seq(AlerterName) /\ mail \in Seq(AlerterName)
      /\ <<"log">> \in Seq(AlerterName)
  <2>1. <<"log">> \in Seq(AlerterName) /\ <<"slack">> \in Seq(AlerterName)
        /\ <<"email">> \in Seq(AlerterName) /\ << >> \in Seq(AlerterName)
    BY DEF AlerterName
  <2> QED
    BY <2>1
<1> HIDE DEF slack, mail
<1>2. <<"log">> \o slack \in Seq(AlerterName)
  BY <1>1
<1>3. <<"log">> \o slack \o mail \in Seq(AlerterName)
  BY <1>1, <1>2
<1> QED
  BY <1>3 DEF Alerters, slack, mail

\* A worker that is about to alert about a ticket is the first and only one.
LEMMA AlertIsFirst ==
  ASSUME TypeOK, VerdictInv, NEW w \in Worker, pc[w] = "alert"
  PROVE  /\ T(w) \in Ticket /\ alerts[T(w)] = 0
         /\ \A v \in Worker \ {w} : pc[v] = "alert" => T(v) # T(w)
<1>1. T(w) \in Ticket
  BY DEF TypeOK, JobOK, Free
<1> QED
  BY <1>1 DEF VerdictInv, Knows, AlertDue, AlertsApart

\* Every other step of a worker leaves the alerts alone; only parking leads
\* to an alert, about a ticket nobody has alerted about.
LEMMA OthersLeaveAlerts ==
  ASSUME TypeOK, VerdictInv, NEW w \in Worker, pc[w] # "alert",
         Request(w) \/ Serve(w)
  PROVE  /\ alerts' = alerts
         /\ pc'[w] = "alert" => /\ T(w)' = T(w) /\ T(w) \in Ticket
                                /\ alerts[T(w)] = 0 /\ NobodyAlerts(T(w))
<1>1. pc \in [Worker -> Step] /\ job \in [Worker -> Job]
  BY DEF TypeOK
<1>2. ASSUME NEW l, l # "alert", NEW j, Carry(w, l, j) PROVE pc'[w] # "alert"
  BY <1>1, <1>2 DEF Carry
<1>3. ASSUME NEW l \in Step \ {"alert"}, NEW from, NEW to, NEW actor, NEW set, NEW text,
             Apply(w, from, to, actor, set, text, l)
      PROVE  alerts' = alerts /\ pc'[w] # "alert"
  BY <1>2, <1>3 DEF Apply, Goto
<1>4. CASE Request(w)
  BY <1>2, <1>4 DEF Request, ReceiveEmail, ReviewClassification, ApproveReply,
                    RejectReply, BeginDecision, Goto
<1>5. CASE CreateTicket(w) \/ ReadExisting(w) \/ Classify(w) \/ DraftReply(w)
             \/ RecordClassification(w) \/ RecordDraft(w)
             \/ FinalizeApproved(w) \/ FinalizeRejected(w)
  BY <1>2, <1>5 DEF CreateTicket, ReadExisting, Classify, DraftReply, RecordDraft,
       RecordClassification, FinalizeApproved, FinalizeRejected, Goto
<1>6. CASE ClaimNew(w) \/ ParkOnError(w) \/ AutoRoute(w) \/ StartDraft(w)
             \/ ParkReply(w) \/ Resolve(w) \/ Redraft(w)
  BY <1>3, <1>6 DEF ClaimNew, ParkOnError, AutoRoute, StartDraft, ParkReply, Resolve,
       Redraft, Step, Free, ClassifySteps, DraftSteps
<1>7. CASE ParkForReview(w)
  <2>1. T(w) \in Ticket
    BY <1>7 DEF ParkForReview, At, TypeOK, JobOK, Free
  <2>2. ASSUME Critical(job[w].verdict), pc'[w] = "alert"
        PROVE  Matches(T(w), "CLASSIFYING") /\ T(w)' = T(w)
    BY <1>1, <1>7, <2>2 DEF ParkForReview, Apply, Goto, Carry, Free, T
  <2>3. state[T(w)] = "CLASSIFYING" => alerts[T(w)] = 0 /\ NobodyAlerts(T(w))
    BY <2>1 DEF VerdictInv, TicketOK, BeforeOK, Early, Knows, AlertDue, NobodyAlerts
  <2>4. CASE ~Critical(job[w].verdict)
    BY <1>3, <1>7, <2>4 DEF ParkForReview, Step, Free
  <2>5. alerts' = alerts
    BY <1>7 DEF ParkForReview, Apply
  <2> QED
    BY <2>1, <2>2, <2>3, <2>4, <2>5 DEF Matches
<1> QED
  BY <1>4, <1>5, <1>6, <1>7 DEF Serve, SendAlert, At

-----------------------------------------------------------------------------
\* A step of another kind: what was called stays called.
LEMMA CallsStay ==
  ASSUME TypeOK, CallsInv, UNCHANGED alertVars, alerts' = alerts,
         NEW w \in Worker, pc[w] # "alert",
         \A v \in Worker \ {w} : pc'[v] = pc[v] /\ job'[v] = job[v],
         pc'[w] = "alert" => /\ T(w)' = T(w) /\ T(w) \in Ticket
                             /\ alerts[T(w)] = 0 /\ NobodyAlerts(T(w))
  PROVE  CallsInv'
<1>1. \A t, n : Called(t, n)' <=> Called(t, n)
  BY DEF Called, alertVars
<1>2. called' = called /\ called[w] = 0
  BY DEF CallsInv, alertVars
<1>3. ASSUME NEW v \in Worker
      PROVE  IF pc'[v] = "alert" THEN Called(T(v)', called[v]) ELSE called[v] = 0
  <2>1. CASE v = w
    BY <1>2, <2>1 DEF CallsInv
  <2>2. CASE v # w
    BY <2>2 DEF CallsInv, T
  <2> QED
    BY <2>1, <2>2
<1>4. ASSUME NEW t \in Ticket, alerts[t] = 0, NobodyAlerts(t)'
      PROVE  NobodyAlerts(t)
  <2>1. \A v \in Worker : pc[v] = "alert" => pc'[v] = "alert" /\ T(v)' = T(v)
    BY DEF T
  <2> QED
    BY <1>4, <2>1 DEF NobodyAlerts
<1> QED
  BY <1>1, <1>2, <1>3, <1>4 DEF CallsInv, alertVars

\* One more alerter is called.
LEMMA CallStep ==
  ASSUME TypeOK, VerdictInv, CallsInv, NEW w \in Worker, NEW a, CallAlerter(w, a)
  PROVE  CallsInv'
<1>1. /\ pc[w] = "alert" /\ called[w] < Len(Alerters) /\ a = Alerters[called[w] + 1]
      /\ called' = [called EXCEPT ![w] = @ + 1]
      /\ tried'  = [tried EXCEPT ![T(w)] = Append(@, a)]
      /\ UNCHANGED vars
  BY DEF CallAlerter, InAlerter, At
<1>2. called[w] \in Nat /\ called[w] + 1 \in 1 .. Len(Alerters) /\ a \in AlerterName
  BY <1>1, AlertersAreNames DEF CallsInv
<1>3. T(w) \in Ticket /\ alerts[T(w)] = 0
      /\ \A v \in Worker \ {w} : pc[v] = "alert" => T(v) # T(w)
  BY <1>1, AlertIsFirst
<1>4. Called(T(w), called[w])'
  <2> DEFINE old == tried[T(w)]
             new == Append(old, a)
  <2>1. old \in Seq(AlerterName) /\ Len(old) = called[w]
        /\ \A i \in 1 .. called[w] : old[i] = Alerters[i]
    BY <1>1 DEF CallsInv, Called
  <2>2. tried'[T(w)] = new
    BY <1>1, <1>3 DEF CallsInv
  <2>3. new \in Seq(AlerterName) /\ Len(new) = called[w] + 1
        /\ \A i \in 1 .. called[w] + 1 : new[i] = Alerters[i]
    BY <1>1, <1>2, <2>1
  <2>4. T(w)' = T(w) /\ called'[w] = called[w] + 1
    BY <1>1 DEF vars, T, CallsInv
  <2> HIDE DEF old, new
  <2> QED
    BY <1>2, <2>2, <2>3, <2>4, AlertersAreNames DEF Called, CallsInv
<1>5. ASSUME NEW t \in Ticket, t # T(w), NEW n PROVE Called(t, n)' <=> Called(t, n)
  <2>1. tried'[t] = tried[t]
    BY <1>1, <1>5 DEF CallsInv
  <2> QED
    BY <2>1 DEF Called
<1>6. called' \in [Worker -> 0 .. Len(Alerters)] /\ DOMAIN tried' = Ticket
  BY <1>1, <1>2, AlertersAreNames DEF CallsInv
<1>7. ASSUME NEW v \in Worker
      PROVE  IF pc'[v] = "alert" THEN Called(T(v), called[v])' ELSE called'[v] = 0
  <2>1. pc'[v] = pc[v] /\ T(v)' = T(v)
    BY <1>1 DEF vars, T
  <2>2. CASE v = w
    BY <1>1, <1>4, <2>1, <2>2
  <2>3. CASE v # w /\ pc[v] = "alert"
    <3>1. T(v) \in Ticket /\ T(v) # T(w) /\ called'[v] = called[v]
      BY <1>1, <1>3, <2>3, AlertIsFirst DEF CallsInv
    <3>2. Called(T(v), called[v])
      BY <2>3 DEF CallsInv
    <3>3. Called(T(v), called[v])'
      BY <1>5, <2>1, <3>1, <3>2 DEF Called
    <3> QED
      BY <2>1, <2>3, <3>3
  <2>4. CASE v # w /\ pc[v] # "alert"
    BY <1>1, <2>1, <2>4 DEF CallsInv
  <2> QED
    BY <2>2, <2>3, <2>4
<1>8. ASSUME NEW t \in Ticket
      PROVE  /\ alerts'[t] = 1 => Called(t, Len(Alerters))'
             /\ alerts'[t] = 0 /\ NobodyAlerts(t)' => Called(t, 0)'
  <2>1. alerts' = alerts /\ (NobodyAlerts(t)' <=> NobodyAlerts(t))
    BY <1>1 DEF vars, NobodyAlerts, T
  <2>2. CASE t = T(w)
    BY <1>1, <1>3, <2>1, <2>2 DEF NobodyAlerts
  <2>3. CASE t # T(w)
    BY <1>5, <2>1, <2>3 DEF CallsInv
  <2> QED
    BY <2>2, <2>3
<1> QED
  BY <1>6, <1>7, <1>8 DEF CallsInv

\* The last alerter has returned: the alert is over.
LEMMA DoneStep ==
  ASSUME TypeOK, VerdictInv, CallsInv, NEW w \in Worker, AlertDone(w)
  PROVE  CallsInv'
<1>1. /\ pc[w] = "alert" /\ called[w] = Len(Alerters)
      /\ called' = [called EXCEPT ![w] = 0] /\ tried' = tried
      /\ alerts' = [alerts EXCEPT ![T(w)] = @ + 1]
      /\ pc' = [pc EXCEPT ![w] = "done"]
      /\ \A v \in Worker \ {w} : job'[v] = job[v]
  BY DEF AlertDone, SendAlert, At, Goto, Carry, TypeOK
<1>2. T(w) \in Ticket /\ alerts[T(w)] = 0
  BY <1>1, AlertIsFirst
<1>3. \A t, n : Called(t, n)' <=> Called(t, n)
  BY <1>1 DEF Called
<1>4. called' \in [Worker -> 0 .. Len(Alerters)] /\ DOMAIN tried' = Ticket
  BY <1>1, AlertersAreNames DEF CallsInv
<1>5. ASSUME NEW v \in Worker
      PROVE  IF pc'[v] = "alert" THEN Called(T(v), called[v])' ELSE called'[v] = 0
  <2>1. CASE v = w
    BY <1>1, <2>1 DEF CallsInv, TypeOK
  <2>2. CASE v # w
    <3>1. pc'[v] = pc[v] /\ T(v)' = T(v) /\ called'[v] = called[v]
      BY <1>1, <2>2 DEF CallsInv, TypeOK, T
    <3> QED
      BY <1>3, <3>1 DEF CallsInv
  <2> QED
    BY <2>1, <2>2
<1>6. ASSUME NEW t \in Ticket
      PROVE  /\ alerts'[t] = 1 => Called(t, Len(Alerters))'
             /\ alerts'[t] = 0 /\ NobodyAlerts(t)' => Called(t, 0)'
  <2>1. CASE t = T(w)
    <3>1. alerts'[t] = 1
      BY <1>1, <1>2, <2>1 DEF TypeOK
    <3>2. Called(t, Len(Alerters))
      BY <1>1, <2>1 DEF CallsInv
    <3> QED
      BY <1>3, <3>1, <3>2
  <2>2. CASE t # T(w)
    <3>1. alerts'[t] = alerts[t]
      BY <1>1, <2>2 DEF TypeOK
    <3>2. NobodyAlerts(t)' => NobodyAlerts(t)
      BY <1>1, <2>2 DEF NobodyAlerts, TypeOK, T
    <3> QED
      BY <1>3, <3>1, <3>2 DEF CallsInv
  <2> QED
    BY <2>1, <2>2
<1> QED
  BY <1>4, <1>5, <1>6 DEF CallsInv

LEMMA CallsInvStep ==
  TypeOK /\ VerdictInv /\ CallsInv /\ [AlertNext]_avars => CallsInv'
<1> SUFFICES ASSUME TypeOK, VerdictInv, CallsInv, [AlertNext]_avars PROVE CallsInv'
  OBVIOUS
<1>1. CASE UNCHANGED vars /\ UNCHANGED alertVars
  BY <1>1 DEF vars, alertVars, CallsInv, Called, NobodyAlerts, T
<1>2. ASSUME NEW w \in Worker, pc[w] # "alert", Request(w) \/ Serve(w),
             UNCHANGED alertVars
      PROVE  CallsInv'
  <2>1. \A v \in Worker \ {w} : pc'[v] = pc[v] /\ job'[v] = job[v]
    BY <1>2, OneAtATime
  <2> QED
    BY <1>2, <2>1, OthersLeaveAlerts, CallsStay
<1>3. ASSUME NEW w \in Worker, Request(w) PROVE pc[w] # "alert"
  BY <1>3 DEF Request, ReceiveEmail, ReviewClassification, ApproveReply, RejectReply,
              BeginDecision, Free
<1>4. ASSUME PollerStep \/ \E m \in Message : Deliver(m), UNCHANGED alertVars
      PROVE  CallsInv'
  <2>1. ASSUME NEW m \in Message, FetchMessage(m)
        PROVE  UNCHANGED vars \/ Request(Poller)
    BY <2>1, MessageAssumption DEF FetchMessage, Request
  <2>2. UNCHANGED vars \/ Request(Poller)
    BY <1>4, <2>1 DEF PollerStep, Poll, MarkSeen, IngestFailed, Deliver
  <2> QED
    BY <1>1, <1>2, <1>3, <1>4, <2>2, PollerAssumption
<1>5. ASSUME NEW w \in Worker, ServePrompt(w) \/ SendMail(w)
      PROVE  CallsInv'
  BY <1>2, <1>5, CallStep, DoneStep DEF ServePrompt, SendMail
<1>6. CASE UNCHANGED avars
  BY <1>1, <1>6 DEF avars, pvars
<1> QED
  BY <1>2, <1>3, <1>4, <1>5, <1>6 DEF AlertNext

\* EachAlerterOnce of Multi.Alert: whatever is configured and whichever
\* alerter fails, an alert that is over went to each of them, once and in
\* order, and none that is due is forgotten, however many goroutines work on
\* the same tickets.
THEOREM AlertersAreCalledOnce == CalmAlertSpec => []EachAlerterOnce
<1>1. AlertInit => CallsInv
  <2> SUFFICES ASSUME AlertInit PROVE CallsInv
    OBVIOUS
  <2>1. \A w \in Worker : pc[w] # "alert" /\ called[w] = 0
    BY DEF AlertInit, PollerInit, Init
  <2>2. called \in [Worker -> 0 .. Len(Alerters)] /\ DOMAIN tried = Ticket
    BY AlertersAreNames DEF AlertInit
  <2>3. \A t \in Ticket : Called(t, 0) /\ alerts[t] = 0
    BY DEF AlertInit, PollerInit, Init, Called
  <2> QED
    BY <2>1, <2>2, <2>3 DEF CallsInv
<1>2. TypeOK /\ VerdictInv /\ CallsInv /\ CriticalIsInHand => EachAlerterOnce
  <2> SUFFICES ASSUME TypeOK, VerdictInv, CallsInv, NEW t \in Ticket, alerts[t] > 0
               PROVE  alerts[t] = 1 /\ tried[t] = Alerters
    BY DEF EachAlerterOnce
  <2>1. alerts[t] = 1
    BY DEF VerdictInv, TicketOK, AlertOK
  <2>2. Called(t, Len(Alerters))
    BY <2>1 DEF CallsInv
  <2> QED
    BY <2>1, <2>2, AlertersAreNames, SeqEqual DEF Called
<1>3. CalmAlertSpec => [](TypeOK /\ VerdictInv /\ CriticalIsInHand)
  <2>1. CalmAlertSpec => CalmSpec
    BY AlertingIsAClient, CalmMailIsCalm
  <2>2. CalmSpec => []TypeOK
    BY CalmIsSpec, TypeCorrect, PTL
  <2>3. CalmSpec => []VerdictInv
    BY CalmIsSpec, VerdictHolds, PTL
  <2> QED
    BY <2>1, <2>2, <2>3, AlertsAreInHand, PTL
<1> QED
  BY <1>1, <1>2, <1>3, CallsInvStep, PTL DEF CalmAlertSpec

=============================================================================
