------------------------------ MODULE Alerting ------------------------------
(***************************************************************************)
(* The alerters (internal/alert) in the goroutines that call them.  An     *)
(* alert is a synchronous loop over the configured alerters, in the        *)
(* goroutine that parked the ticket: for a mail that is the only goroutine *)
(* of the poller.  An error of an alerter is logged and forgotten.         *)
(*                                                                         *)
(* The Slack client gives up after ten seconds.  smtp.SendMail takes no    *)
(* context and sets no deadline: against a server that accepts the         *)
(* connection and says nothing it need not return.                         *)
(***************************************************************************)
EXTENDS ImapPoller

CONSTANTS
  SlackWebhookURL, SMTPHost, SMTPFrom  \* whether each is configured

ASSUME ConfigAssumption == {SlackWebhookURL, SMTPHost, SMTPFrom} \subseteq BOOLEAN

\* FromConfig.
Alerters ==
  <<"log">> \o (IF SlackWebhookURL THEN <<"slack">> ELSE << >>)
            \o (IF SMTPHost /\ SMTPFrom THEN <<"email">> ELSE << >>)

VARIABLES
  called,  \* how many alerters a worker has called in the alert it sends
  tried    \* history: the alerters that were called about a ticket

alertVars == <<called, tried>>

avars == <<pvars, alertVars>>

AlertInit ==
  /\ PollerInit
  /\ called = [w \in Worker |-> 0]
  /\ tried  = [t \in Ticket |-> << >>]

-----------------------------------------------------------------------------
\* Worker w is in the alerter a, or about to call it.
InAlerter(w, a) ==
  At(w, "alert") /\ called[w] < Len(Alerters) /\ Alerters[called[w] + 1] = a

\* Mutant: the first error ends the loop.
CallOrStop(w, a) ==
  /\ InAlerter(w, a)
  /\ called' = [called EXCEPT ![w] = IF a = "slack" THEN Len(Alerters) ELSE @ + 1]
  /\ tried'  = [tried  EXCEPT ![T(w)] = Append(@, a)]
  /\ UNCHANGED vars

\* Multi.Alert: one alerter returns, with an error or without.
CallAlerter(w, a) ==
  /\ InAlerter(w, a)
  /\ called' = [called EXCEPT ![w] = @ + 1]
  /\ tried'  = [tried  EXCEPT ![T(w)] = Append(@, a)]
  /\ UNCHANGED vars

\* All alerters have returned: Multi.Alert returns nil.
AlertDone(w) ==
  /\ called[w] = Len(Alerters)
  /\ SendAlert(w)
  /\ called' = [called EXCEPT ![w] = 0]
  /\ UNCHANGED tried

\* Work that ends by itself, and work that takes an SMTP server to end.
ServePrompt(w) ==
  /\ \/ pc[w] # "alert" /\ Serve(w) /\ UNCHANGED alertVars
     \/ AlertDone(w)
     \/ CallAlerter(w, "log") \/ CallAlerter(w, "slack")
  /\ UNCHANGED mailVars

SendMail(w) == CallAlerter(w, "email") /\ UNCHANGED mailVars

AlertNext ==
  \/ (PollerStep \/ \E m \in Message : Deliver(m)) /\ UNCHANGED alertVars
  \/ /\ \E w \in Worker \ {Poller} : Request(w)
     /\ UNCHANGED <<mailVars, alertVars>>
  \/ \E w \in Worker : ServePrompt(w) \/ SendMail(w)

\* The ticker fires, the poll loop is a goroutine like any other, and no call
\* to the mailbox, the model, an MCP server or Slack lasts for ever: none has a
\* fault today, and an MCP server needs to have none, for a call of a tool has
\* no time-out.  Nothing is assumed of the SMTP server.
CalmAlertSpec ==
  /\ AlertInit /\ [][AlertNext]_avars
  /\ WF_avars(PollerStep /\ UNCHANGED alertVars)
  /\ \A w \in Worker : WF_avars(ServePrompt(w))

-----------------------------------------------------------------------------
(***************************************************************************)
(* Properties                                                              *)
(***************************************************************************)

\* An alert that is over went to every configured alerter, once and in order,
\* whichever of them failed, and although the email is delivered again; one
\* that is due and not over is in the hands of a goroutine.
EachAlerterOnce ==
  /\ \A t \in Ticket : alerts[t] > 0 => alerts[t] = 1 /\ tried[t] = Alerters
  /\ CriticalIsInHand

HasTried(t, a) == \E i \in 1 .. Len(tried[t]) : tried[t][i] = a

\* A critical classification is followed by an alert, in the log and in Slack
\* also when the SMTP server hangs: SMTP comes last.
CriticalIsAlerted ==
  \A t \in Ticket :
    CriticalSeen(t) ~> HasTried(t, "log") /\ (SlackWebhookURL => HasTried(t, "slack"))

\* On a day without faults every delivered message that can be parsed gets to
\* a human as a ticket, or a human is done with that ticket already, although
\* bad messages are in the same batch and other goroutines ingest the same
\* email at the same time; or the poller is in smtp.SendMail for ever.  That
\* Classify returns is assumed here: QwenClient shows when it does not.
MailReachesHumanOrHangs ==
  MailReachesHuman \/ <>[]InAlerter(Poller, "email")

=============================================================================
