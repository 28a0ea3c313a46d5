-------------------------- MODULE ImapPollerProofs --------------------------
(***************************************************************************)
(* The poller is one more client of the orchestrator, so what is proved of *)
(* the orchestrator holds next to it, and the message it has in hand is    *)
(* the email of the ticket it works on.                                    *)
(***************************************************************************)
EXTENDS ImapPoller, OrchestratorProofs

-----------------------------------------------------------------------------
(***************************************************************************)
(* The mailbox hidden, the poller is a worker that asks for ingestion      *)
(***************************************************************************)

LEMMA MailStepRefines == [MailNext]_pvars => [Next]_vars
<1> SUFFICES ASSUME [MailNext]_pvars PROVE [Next]_vars
  OBVIOUS
<1>1. ASSUME NEW m \in Message, FetchMessage(m) PROVE [Next]_vars
  <2>1. CASE KeyOf[m] = None
    BY <1>1, <2>1 DEF FetchMessage
  <2>2. CASE KeyOf[m] # None
    <3>1. KeyOf[m] \in Key /\ ReceiveEmail(Poller, KeyOf[m])
      BY <1>1, <2>2, MessageAssumption DEF FetchMessage
    <3>2. Request(Poller)
      BY <3>1 DEF Request
    <3> QED
      BY <3>2, PollerAssumption DEF Next
  <2> QED
    BY <2>1, <2>2
<1>2. CASE Poll \/ MarkSeen \/ IngestFailed
  BY <1>2 DEF Poll, MarkSeen, IngestFailed
<1>3. CASE OthersStep
  BY <1>3 DEF OthersStep, Next
<1>4. CASE MailFault
  BY <1>4 DEF MailFault, Restart, MarkFails, FetchFails, Next, Fault
<1>5. CASE \E m \in Message : Deliver(m)
  BY <1>5 DEF Deliver
<1>6. CASE UNCHANGED pvars
  BY <1>6 DEF pvars
<1> QED
  BY <1>1, <1>2, <1>3, <1>4, <1>5, <1>6 DEF MailNext, CalmMailNext, PollerStep

\* The poller calls Ingest as any client does, so what is proved of Spec can
\* be used with the poller running.
LEMMA PollerIsAClient == MailSpec => Spec
<1>1. PollerInit => Init
  BY DEF PollerInit
<1> QED
  BY <1>1, MailStepRefines, PTL DEF MailSpec, Spec

-----------------------------------------------------------------------------
(***************************************************************************)
(* The message in hand                                                     *)
(***************************************************************************)

HasTicket(k) == \E t \in Ticket : email[t] = k

\* From the lookup on the email of the message in hand has a ticket, unless
\* the insert is still to come or the work has failed.
InHandInv ==
  current # None =>
    /\ current \in Message
    /\ KeyOf[current] \in Key
    /\ pc[Poller] = "insert" => job[Poller].key = KeyOf[current]
    /\ T(Poller) # None => email[T(Poller)] = KeyOf[current]
    /\ pc[Poller] \notin {"insert", "failed"} => HasTicket(KeyOf[current])

\* No email row changes or goes.
EmailStays == \A t \in Ticket : email[t] # None => email'[t] = email[t]

LEMMA EmailsStay ==
  ASSUME TypeOK, EmailInv, [Next]_vars
  PROVE  EmailStays
BY StepSettles DEF Settled, Inserted, InsertTicketAndEmail, EmailInv, EmailStays,
                   TypeOK, StoreTypeOK

\* What a worker does other than the insert keeps the ticket it has, or
\* drops it with the answer, and leads to no insert.
LEMMA ServeKeepsTicket ==
  ASSUME TypeOK, NEW w \in Worker, Serve(w), ~CreateTicket(w)
  PROVE  /\ pc[w] \notin {"insert", "failed"}
         /\ pc'[w] # "insert"
         /\ job'[w].ticket \in {T(w), None}
<1>1. job \in [Worker -> Job] /\ pc \in [Worker -> Step]
  BY DEF TypeOK
<1>2. ASSUME NEW l \in Step \ {"insert"}, Goto(w, l)
      PROVE  pc'[w] # "insert" /\ job'[w].ticket \in {T(w), None}
  BY <1>1, <1>2 DEF Goto, Carry, NoJob, T
<1>3. ASSUME NEW from, NEW to, NEW actor, NEW set, NEW text,
             NEW l \in Step \ {"insert"},
             Apply(w, from, to, actor, set, text, l)
      PROVE  pc'[w] # "insert" /\ job'[w].ticket \in {T(w), None}
  BY <1>2, <1>3 DEF Apply, Step, Free
<1> USE DEF At, Step, Free, ClassifySteps, DraftSteps, ApproveSteps, RejectSteps
<1>4. CASE ReadExisting(w) \/ SendAlert(w) \/ RecordClassification(w)
             \/ RecordDraft(w) \/ FinalizeApproved(w) \/ FinalizeRejected(w)
  BY <1>2, <1>4 DEF ReadExisting, SendAlert, RecordClassification, RecordDraft,
                    FinalizeApproved, FinalizeRejected
<1>5. CASE Classify(w)
  BY <1>1, <1>5 DEF Classify, Goto, Carry, NoJob, T, Job
<1>6. CASE DraftReply(w)
  BY <1>1, <1>6 DEF DraftReply, Carry, NoJob, T, Job
<1>7. CASE ClaimNew(w) \/ ParkOnError(w) \/ AutoRoute(w) \/ StartDraft(w)
  BY <1>3, <1>7 DEF ClaimNew, ParkOnError, AutoRoute, StartDraft
<1>8. CASE ParkReply(w) \/ Resolve(w) \/ Redraft(w)
  BY <1>3, <1>8 DEF ParkReply, Resolve, Redraft
<1>9. CASE ParkForReview(w)
  <2>1. CASE Critical(job[w].verdict)
    BY <1>3, <1>9, <2>1 DEF ParkForReview
  <2>2. CASE ~Critical(job[w].verdict)
    BY <1>3, <1>9, <2>2 DEF ParkForReview
  <2> QED
    BY <2>1, <2>2
<1> QED
  BY <1>4, <1>5, <1>6, <1>7, <1>8, <1>9 DEF Serve

\* A step that leaves the message in hand, and does not touch the poller's
\* goroutine or ends in its failure.
LEMMA OthersKeepInHand ==
  ASSUME TypeOK, InHandInv, EmailStays, current' = current,
         \/ pc'[Poller] = pc[Poller] /\ job'[Poller] = job[Poller]
         \/ /\ pc'[Poller] # "insert"
            /\ pc[Poller] \notin {"insert", "failed"} \/ pc'[Poller] = "failed"
            /\ job'[Poller].ticket \in {T(Poller), None}
  PROVE  InHandInv'
<1> SUFFICES ASSUME current # None PROVE InHandInv'
  BY DEF InHandInv
<1>1. KeyOf[current] \in Key /\ KeyOf[current] # None
  BY KeyAssumption DEF InHandInv
<1>2. job[Poller] \in Job /\ T(Poller) \in Ticket \cup {None}
  BY PollerAssumption DEF TypeOK, Job, T
<1>3. ASSUME T(Poller)' # None PROVE email'[T(Poller)'] = KeyOf[current]
  <2>1. T(Poller)' = T(Poller)
    BY <1>3 DEF T
  <2> QED
    BY <1>1, <1>2, <1>3, <2>1 DEF InHandInv, EmailStays
<1>4. HasTicket(KeyOf[current]) => HasTicket(KeyOf[current])'
  BY <1>1 DEF HasTicket, EmailStays
<1> QED
  BY <1>1, <1>3, <1>4 DEF InHandInv

\* The insert, by the poller or by another worker.
LEMMA CreateKeepsInHand ==
  ASSUME TypeOK, InHandInv, EmailStays, current' = current, CreateTicket(Poller)
  PROVE  InHandInv'
<1> SUFFICES ASSUME current # None PROVE InHandInv'
  BY DEF InHandInv
<1>1. /\ job[Poller].key = KeyOf[current] /\ KeyOf[current] \in Key
      /\ job \in [Worker -> Job] /\ pc \in [Worker -> Step]
      /\ email \in [Ticket -> Key \cup {None}]
  BY DEF CreateTicket, At, InHandInv, TypeOK, StoreTypeOK
<1>2. ASSUME NEW t \in Ticket, InsertTicketAndEmail(t, job[Poller].key),
             Carry(Poller, "claim", [NoJob EXCEPT !.ticket = t])
      PROVE  InHandInv'
  <2>1. email'[t] = KeyOf[current]
    BY <1>1, <1>2 DEF InsertTicketAndEmail
  <2>2. pc'[Poller] = "claim" /\ job'[Poller].ticket = t
    BY <1>1, <1>2, PollerAssumption DEF Carry, Free, NoJob
  <2> QED
    BY <1>1, <2>1, <2>2 DEF InHandInv, HasTicket, T
<1>3. ASSUME Goto(Poller, "failed") PROVE InHandInv'
  <2>1. pc'[Poller] = "failed" /\ job'[Poller].ticket = None
    BY <1>1, <1>3, PollerAssumption DEF Goto, Carry, Free, NoJob
  <2> QED
    BY <2>1, OthersKeepInHand
<1> QED
  BY <1>2, <1>3 DEF CreateTicket

\* The poller takes up a message.
LEMMA FetchInHand ==
  ASSUME TypeOK, EmailInv, NEW m \in Message, FetchMessage(m)
  PROVE  InHandInv'
<1>1. CASE KeyOf[m] = None
  BY <1>1 DEF FetchMessage, InTurn, InHandInv
<1>2. CASE KeyOf[m] # None
  <2>1. /\ current' = m /\ KeyOf[m] \in Key /\ email' = email
        /\ ReceiveEmail(Poller, KeyOf[m])
    BY <1>2, MessageAssumption DEF FetchMessage, ReceiveEmail, storeVars
  <2>2. job \in [Worker -> Job] /\ pc \in [Worker -> Step]
    BY DEF TypeOK
  <2>3. CASE Carry(Poller, "insert", [NoJob EXCEPT !.key = KeyOf[m]])
    <3>1. /\ pc'[Poller] = "insert" /\ job'[Poller].key = KeyOf[m]
          /\ job'[Poller].ticket = None
      BY <2>2, <2>3, PollerAssumption DEF Carry, Free, NoJob
    <3> QED
      BY <2>1, <3>1 DEF InHandInv, T
  <2>4. ASSUME NEW t \in Holders(KeyOf[m]),
               Carry(Poller, "existing", [NoJob EXCEPT !.ticket = t])
        PROVE  InHandInv'
    <3>1. pc'[Poller] = "existing" /\ job'[Poller].ticket = t
      BY <2>2, <2>4, PollerAssumption DEF Carry, Free, NoJob
    <3>2. t \in Ticket /\ email'[t] = KeyOf[m]
      BY <2>1 DEF Holders
    <3> QED
      BY <2>1, <3>1, <3>2 DEF InHandInv, HasTicket, T
  <2> QED
    BY <2>1, <2>3, <2>4 DEF ReceiveEmail
<1> QED
  BY <1>1, <1>2

LEMMA InHandStep ==
  TypeOK /\ EmailInv /\ InHandInv /\ [MailNext]_pvars => InHandInv'
<1> SUFFICES ASSUME TypeOK, EmailInv, InHandInv, [MailNext]_pvars
             PROVE  InHandInv'
  OBVIOUS
<1>1. EmailStays
  BY MailStepRefines, EmailsStay
<1>2. ASSUME current' = None PROVE InHandInv'
  BY <1>2 DEF InHandInv
<1>3. ASSUME UNCHANGED vars, current' = current PROVE InHandInv'
  BY <1>3 DEF vars, InHandInv, HasTicket, T
<1>4. ASSUME NEW m \in Message, FetchMessage(m) PROVE InHandInv'
  BY <1>4, FetchInHand
<1>5. CASE \/ Poll \/ MarkSeen \/ IngestFailed \/ MarkFails \/ Restart
           \/ \E m \in Message : Deliver(m) \/ FetchFails(m)
           \/ UNCHANGED pvars
  BY <1>2, <1>3, <1>5 DEF Poll, MarkSeen, IngestFailed, MarkFails, Restart,
                          Deliver, FetchFails, pvars, mailVars
<1>6. ASSUME NEW w \in Worker \ {Poller},
             Request(w) \/ Serve(w) \/ SkipAlert(w) \/ Interrupt(w),
             UNCHANGED mailVars
      PROVE  InHandInv'
  <2>1. pc'[Poller] = pc[Poller] /\ job'[Poller] = job[Poller]
    BY <1>6, OneAtATime, PollerAssumption
  <2> QED
    BY <1>1, <1>6, <2>1, OthersKeepInHand DEF mailVars
<1>7. ASSUME Serve(Poller), UNCHANGED mailVars PROVE InHandInv'
  <2>1. CASE CreateTicket(Poller)
    BY <1>1, <1>7, <2>1, CreateKeepsInHand DEF mailVars
  <2>2. CASE ~CreateTicket(Poller)
    BY <1>1, <1>7, <2>2, ServeKeepsTicket, PollerAssumption, OthersKeepInHand
       DEF mailVars
  <2> QED
    BY <2>1, <2>2
<1>8. ASSUME SkipAlert(Poller) \/ Interrupt(Poller), UNCHANGED mailVars
      PROVE  InHandInv'
  <2>1. /\ pc'[Poller] # "insert" /\ job'[Poller].ticket = None
        /\ pc[Poller] \notin {"insert", "failed"} \/ pc'[Poller] = "failed"
    BY <1>8, PollerAssumption
       DEF SkipAlert, Interrupt, At, Goto, Carry, Free, NoJob, TypeOK
  <2> QED
    BY <1>1, <1>8, <2>1, OthersKeepInHand DEF mailVars
<1> QED
  BY <1>4, <1>5, <1>6, <1>7, <1>8
     DEF MailNext, CalmMailNext, PollerStep, OthersStep, MailFault

LEMMA InHandHolds == MailSpec => [](TypeOK /\ EmailInv /\ InHandInv)
<1>1. PollerInit => InHandInv
  BY DEF PollerInit, InHandInv
<1>2. MailSpec => [](TypeOK /\ EmailInv)
  <2>1. MailSpec => Spec
    BY PollerIsAClient
  <2>2. Spec => [](TypeOK /\ EmailInv)
    BY EmailInit, EmailStep, TypeCorrect, PTL DEF Spec
  <2> QED
    BY <2>1, <2>2, PTL
<1> QED
  BY <1>1, <1>2, InHandStep, PTL DEF MailSpec

\* The ticket the poller works on is that of the message it has in hand,
\* and is in the database when it goes on to mark the message.
THEOREM WorksOnItsMessage == MailSpec => []WorksOnCurrent
<1>1. InHandInv => WorksOnCurrent
  BY KeyAssumption DEF InHandInv, WorksOnCurrent, HasTicket
<1> QED
  BY <1>1, InHandHolds, PTL

-----------------------------------------------------------------------------
(***************************************************************************)
(* What is still to handle was not handled before                          *)
(***************************************************************************)

\* The message in hand has left the batch: its flag was set by the fetch.
HandledInv == PollerTypeOK /\ (current # None => flag[current] = "seen")

LEMMA HandledStep ==
  ASSUME HandledInv, [MailNext]_pvars
  PROVE  HandledInv'
<1> USE DEF HandledInv, PollerTypeOK, Unseen, SetSeen
<1>1. None \notin Message
  BY MessageAssumption
<1>2. ASSUME NEW m \in Message, Deliver(m) \/ FetchMessage(m) \/ FetchFails(m)
      PROVE  HandledInv'
  BY <1>1, <1>2 DEF Deliver, FetchMessage, FetchFails, InTurn
<1>3. CASE Poll \/ MarkSeen \/ IngestFailed \/ MarkFails \/ Restart
  BY <1>3 DEF Poll, MarkSeen, IngestFailed, MarkFails, Restart
<1>4. CASE UNCHANGED mailVars \/ UNCHANGED pvars
  BY <1>4 DEF mailVars, pvars
<1> QED
  BY <1>2, <1>3, <1>4
     DEF MailNext, CalmMailNext, PollerStep, OthersStep, MailFault

LEMMA HandledHolds == MailSpec => []HandledInv
<1>1. PollerInit => HandledInv
  BY DEF PollerInit, HandledInv, PollerTypeOK
<1> QED
  BY <1>1, HandledStep, PTL DEF MailSpec

\* Every message of a batch is unseen when its turn comes: the poller handles
\* no message twice in one poll, whatever it fails at and whenever it dies.
THEOREM BatchIsUnseen == MailSpec => []PollerTypeOK
<1>1. HandledInv => PollerTypeOK
  BY DEF HandledInv
<1> QED
  BY <1>1, HandledHolds, PTL

-----------------------------------------------------------------------------
(***************************************************************************)
(* What a fault costs                                                      *)
(***************************************************************************)

\* A message that becomes seen is the one in hand, or it is taken up.
LEMMA SeenInTurn ==
  ASSUME HandledInv, [MailNext]_pvars, NEW m \in Message,
         flag[m] # "seen", flag'[m] = "seen"
  PROVE  InTurn(m) /\ (FetchMessage(m) \/ FetchFails(m))
<1> USE DEF HandledInv, PollerTypeOK, SetSeen
<1>1. ASSUME NEW n \in Message, FetchMessage(n) \/ FetchFails(n)
      PROVE  InTurn(m) /\ (FetchMessage(m) \/ FetchFails(m))
  <2>1. n = m
    BY <1>1 DEF FetchMessage, FetchFails
  <2> QED
    BY <1>1, <2>1 DEF FetchMessage, FetchFails
<1>2. CASE Poll \/ MarkSeen \/ IngestFailed \/ MarkFails \/ Restart
  BY <1>2 DEF Poll, MarkSeen, IngestFailed, MarkFails, Restart
<1>3. CASE \E n \in Message : Deliver(n)
  BY <1>3 DEF Deliver
<1>4. CASE UNCHANGED mailVars \/ UNCHANGED pvars
  BY <1>4 DEF mailVars, pvars
<1> QED
  BY <1>1, <1>2, <1>3, <1>4
     DEF MailNext, CalmMailNext, PollerStep, OthersStep, MailFault

\* The rest of a batch is unseen when a message is lost.
LEMMA RestIsUnseen ==
  ASSUME HandledInv, HandledInv', [MailNext]_pvars, NEW m \in Message,
         m = current \/ InTurn(m), m \notin batch', current' # m,
         NEW n \in batch \ {m}
  PROVE  flag'[n] = "unseen"
<1>1. n \in Message /\ flag[n] = "unseen"
  BY DEF HandledInv, PollerTypeOK, Unseen
<1>2. flag'[n] # "seen"
  <2> SUFFICES ASSUME flag'[n] = "seen" PROVE FALSE
    OBVIOUS
  <2>1. InTurn(n)
    BY <1>1, SeenInTurn
  <2>2. CASE InTurn(m)
    <3>1. n <= m /\ m <= n /\ m \in Nat /\ n \in Nat
      BY <1>1, <2>1, <2>2, MessageAssumption DEF InTurn
    <3> QED
      BY <3>1
  <2>3. CASE m = current
    BY <2>1, <2>3, MessageAssumption DEF InTurn
  <2> QED
    BY <2>2, <2>3
<1>3. flag'[n] # "absent"
  <2> SUFFICES ASSUME flag'[n] = "absent" PROVE FALSE
    OBVIOUS
  <2> USE <1>1 DEF SetSeen, HandledInv, PollerTypeOK
  <2>1. ~\E k \in Message : FetchMessage(k) \/ FetchFails(k) \/ Deliver(k)
    BY DEF FetchMessage, FetchFails, Deliver
  <2>2. ~(Poll \/ MarkSeen \/ IngestFailed \/ MarkFails \/ Restart)
    BY DEF Poll, MarkSeen, IngestFailed, MarkFails, Restart
  <2> QED
    BY <2>1, <2>2 DEF mailVars, pvars, MailNext, CalmMailNext, PollerStep,
                      OthersStep, MailFault
<1> QED
  BY <1>1, <1>2, <1>3 DEF HandledInv, PollerTypeOK

\* However the poller, its goroutine or the whole server fails, and whatever
\* the other goroutines do, a step loses one mail at the most, the one in
\* hand or in its turn, and the others of the batch are still to be found.
THEOREM FaultsCostOneMail == MailSpec => FaultCostsOneMail
<1> DEFINE Known == TypeOK /\ EmailInv /\ HandledInv
           Costs == \A m \in Lost' \ Lost :
                      /\ m = current \/ InTurn(m)
                      /\ \A n \in batch \ {m} : flag'[n] = "unseen"
<1>1. ASSUME Known, HandledInv', [MailNext]_pvars PROVE Costs
  <2> SUFFICES ASSUME NEW m \in Lost' \ Lost
               PROVE  /\ m = current \/ InTurn(m)
                      /\ \A n \in batch \ {m} : flag'[n] = "unseen"
    OBVIOUS
  <2>1. /\ m \in Message /\ flag'[m] = "seen" /\ KeyOf[m] # None
        /\ current' # m /\ m \notin batch'
        /\ \A t \in Ticket : email'[t] # KeyOf[m]
    BY DEF Lost
  <2>2. \A t \in Ticket : email[t] # KeyOf[m]
    <3>1. EmailStays
      BY <1>1, MailStepRefines, EmailsStay
    <3> QED
      BY <2>1, <3>1 DEF EmailStays
  <2>3. flag[m] # "seen" \/ current = m \/ m \in batch
    BY <2>1, <2>2 DEF Lost
  <2>4. m \in batch => flag[m] # "seen"
    BY <1>1 DEF HandledInv, PollerTypeOK, Unseen
  <2>5. m = current \/ InTurn(m)
    BY <1>1, <2>1, <2>3, <2>4, SeenInTurn
  <2> QED
    BY <1>1, <2>1, <2>5, RestIsUnseen
<1>2. Known /\ HandledInv' /\ [MailNext]_pvars => [Costs]_pvars
  BY <1>1
<1>3. MailSpec => []Known
  BY InHandHolds, HandledHolds, PTL
<1>4. MailSpec => [][Costs]_pvars
  <2>1. Known' => HandledInv'
    OBVIOUS
  <2> HIDE DEF Known, Costs
  <2> QED
    BY <1>2, <1>3, <2>1, PTL DEF MailSpec
<1> QED
  BY <1>4 DEF FaultCostsOneMail

-----------------------------------------------------------------------------
(***************************************************************************)
(* Mail is lost by faults only.  The fetch has marked the message before   *)
(* Ingest looks at it, so for this no call of Ingest may fail before its   *)
(* email is in the database: the one error that is left is that of another *)
(* goroutine having put it there first.                                    *)
(***************************************************************************)
\* Also when Ingest has failed the email of the message in hand has a ticket.
KeptInv ==
  /\ current # None /\ pc[Poller] = "failed" => HasTicket(KeyOf[current])
  /\ \A m \in Message :
       flag[m] = "seen" /\ current # m /\ KeyOf[m] # None => HasTicket(KeyOf[m])

LEMMA CalmMailIsCalm == CalmMailSpec => MailSpec /\ CalmSpec
<1>1. [CalmMailNext]_pvars => [MailNext]_pvars
  BY DEF MailNext
<1>2. [CalmMailNext]_pvars => [CalmNext]_vars
  <2> SUFFICES ASSUME [CalmMailNext]_pvars PROVE [CalmNext]_vars
    OBVIOUS
  <2>1. ASSUME NEW m \in Message, FetchMessage(m) PROVE [CalmNext]_vars
    <3>1. UNCHANGED vars \/ Request(Poller)
      BY <2>1, MessageAssumption DEF FetchMessage, Request
    <3> QED
      BY <3>1, PollerAssumption DEF CalmNext
  <2>2. CASE Poll \/ MarkSeen \/ IngestFailed \/ \E m \in Message : Deliver(m)
    BY <2>2 DEF Poll, MarkSeen, IngestFailed, Deliver
  <2>3. CASE OthersStep \/ UNCHANGED pvars
    BY <2>3 DEF OthersStep, CalmNext, pvars
  <2> QED
    BY <2>1, <2>2, <2>3 DEF CalmMailNext, PollerStep
<1>3. PollerInit => Init
  BY DEF PollerInit
<1> QED
  BY <1>1, <1>2, <1>3, PTL DEF CalmMailSpec, MailSpec, CalmSpec

\* A step at the mailbox: a message is taken up, or the one in hand put down.
LEMMA MailStepKeeps ==
  ASSUME TypeOK, EmailInv, EmailStays, InHandInv, HandledInv, KeptInv,
         PollerStep \/ \E m \in Message : Deliver(m)
  PROVE  KeptInv'
<1>1. /\ None \notin Message /\ flag \in [Message -> {"absent", "unseen", "seen"}]
      /\ \A m \in Message : KeyOf[m] # None => KeyOf[m] \in Key
  BY MessageAssumption DEF HandledInv, PollerTypeOK
<1>2. \A k \in Key : HasTicket(k) => HasTicket(k)'
  BY KeyAssumption DEF HasTicket, EmailStays
<1>3. CASE Poll
  BY <1>3 DEF Poll, KeptInv, HasTicket, vars
<1>4. CASE \E m \in Message : Deliver(m)
  BY <1>1, <1>4 DEF Deliver, KeptInv, HasTicket, vars
<1>5. CASE MarkSeen \/ IngestFailed
  <2>1. current \in Message /\ HasTicket(KeyOf[current])
    BY <1>5 DEF MarkSeen, IngestFailed, InHandInv, KeptInv
  <2>2. /\ current' = None /\ email' = email
        /\ \A m \in Message \ {current} : flag'[m] = flag[m]
    BY <1>1, <1>5 DEF MarkSeen, IngestFailed, SetSeen, vars
  <2> QED
    BY <2>1, <2>2 DEF KeptInv, HasTicket
<1>6. ASSUME NEW m \in Message, FetchMessage(m) PROVE KeptInv'
  <2>1. current = None /\ \A n \in Message \ {m} : flag'[n] = flag[n]
    BY <1>1, <1>6 DEF FetchMessage, InTurn, SetSeen
  <2>2. \A n \in Message \ {m} :
          flag'[n] = "seen" /\ KeyOf[n] # None => HasTicket(KeyOf[n])'
    BY <1>1, <1>2, <2>1 DEF KeptInv
  <2>3. CASE KeyOf[m] = None
    BY <1>6, <2>1, <2>2, <2>3 DEF FetchMessage, KeptInv
  <2>4. CASE KeyOf[m] # None
    <3>1. current' = m /\ pc'[Poller] # "failed"
      BY <1>6, <2>4, PollerAssumption
         DEF FetchMessage, ReceiveEmail, Carry, TypeOK
    <3> QED
      BY <2>2, <3>1 DEF KeptInv
  <2> QED
    BY <2>3, <2>4
<1> QED
  BY <1>3, <1>4, <1>5, <1>6 DEF PollerStep

\* A step of a goroutine: the poller's fails at an insert only if the email
\* has a ticket by then, and behind the insert it has one.
LEMMA WorkKeeps ==
  ASSUME TypeOK, EmailStays, InHandInv, KeptInv, OthersStep
  PROVE  KeptInv'
<1>1. \A m \in Message : KeyOf[m] # None => KeyOf[m] \in Key
  BY MessageAssumption
<1>2. \A k \in Key : HasTicket(k) => HasTicket(k)'
  BY KeyAssumption DEF HasTicket, EmailStays
<1>3. flag' = flag /\ current' = current
  BY DEF OthersStep, mailVars
<1>4. ASSUME current # None, pc'[Poller] = "failed" PROVE HasTicket(KeyOf[current])'
  <2>1. KeyOf[current] \in Key
    BY <1>4 DEF InHandInv
  <2>2. CASE pc[Poller] # "insert"
    BY <1>2, <1>3, <1>4, <2>1, <2>2 DEF InHandInv, KeptInv
  <2>3. CASE pc[Poller] = "insert"
    <3>1. CreateTicket(Poller)
      <4>1. PICK w \in Worker : (w # Poller /\ Request(w)) \/ Serve(w)
        BY DEF OthersStep
      <4>2. w = Poller
        BY <1>4, <2>3, <4>1, OneAtATime, PollerAssumption
      <4> QED
        BY <2>3, <4>1, <4>2, ServeKeepsTicket
    <3>2. job[Poller].key = KeyOf[current]
      BY <1>4, <2>3 DEF InHandInv
    <3>3. ~UniqueKey(KeyOf[current])
      BY <1>4, <3>1, <3>2, PollerAssumption DEF CreateTicket, Carry, TypeOK
    <3>4. HasTicket(KeyOf[current])
      BY <3>3 DEF UniqueKey, Holders, HasTicket
    <3> QED
      BY <1>2, <1>3, <2>1, <3>4
  <2> QED
    BY <2>2, <2>3
<1> QED
  BY <1>1, <1>2, <1>3, <1>4 DEF KeptInv

\* Without faults no mail is lost: a message that is marked and not in hand
\* has a ticket, although it is marked before it is ingested, and although
\* another goroutine may insert its email first or drive its ticket.
THEOREM NoMailIsLost == CalmMailSpec => []SeenIsIngested
<1>1. PollerInit => KeptInv
  BY DEF PollerInit, KeptInv
<1>2. TypeOK /\ EmailInv /\ InHandInv /\ HandledInv /\ KeptInv
        /\ [CalmMailNext]_pvars => KeptInv'
  <2> SUFFICES ASSUME TypeOK, EmailInv, InHandInv, HandledInv, KeptInv,
                      [CalmMailNext]_pvars
               PROVE  KeptInv'
    OBVIOUS
  <2>1. EmailStays
    BY MailStepRefines, EmailsStay DEF MailNext
  <2>2. CASE UNCHANGED pvars
    BY <2>2 DEF pvars, mailVars, vars, KeptInv, HasTicket
  <2> QED
    BY <2>1, <2>2, MailStepKeeps, WorkKeeps DEF CalmMailNext
<1>3. KeptInv => SeenIsIngested
  BY DEF KeptInv, SeenIsIngested, HasTicket
<1>4. CalmMailSpec => [](TypeOK /\ EmailInv /\ InHandInv /\ HandledInv)
  <2>1. CalmMailSpec => MailSpec
    BY CalmMailIsCalm
  <2> QED
    BY <2>1, InHandHolds, HandledHolds, PTL
<1> QED
  BY <1>1, <1>2, <1>3, <1>4, PTL DEF CalmMailSpec

=============================================================================
