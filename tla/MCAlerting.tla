----------------------------- MODULE MCAlerting -----------------------------
(***************************************************************************)
(* Small instances of the poller with all three alerters configured.       *)
(***************************************************************************)
EXTENDS Alerting, MCImapPoller

TwoMessages == 1 .. 2

TwoGoodMails == (1 :> k1) @@ (2 :> k2)

=============================================================================
