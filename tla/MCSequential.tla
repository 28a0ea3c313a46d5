---------------------------- MODULE MCSequential ----------------------------
(***************************************************************************)
(* The three parts that run on their own, each on small inputs: the email  *)
(* parser, a tool call of the classifier and the evaluation command.  They *)
(* share nothing, so a behaviour is one of a single part.                  *)
(***************************************************************************)
EXTENDS EmailParsing, Toolbox, Evaluation

VARIABLE running    \* the part that runs

ParserIdle == /\ raw = NoEmail /\ walk = "header" /\ next = 1
              /\ plainText = Blank /\ htmlText = Blank /\ parsed = NoEmail

ToolIdle == /\ tickets = << >> /\ tool = NoAnswer /\ args = NoAnswer
            /\ stage = "dial" /\ wire = NoAnswer /\ answer = NoAnswer /\ lost = FALSE

EvaluationIdle == cache = Absent /\ EvalInit

SeqInit ==
  \/ running = "parser"     /\ ParseInit  /\ ToolIdle /\ EvaluationIdle
  \/ running = "tool"       /\ ParserIdle /\ ToolInit /\ EvaluationIdle
  \/ running = "evaluation" /\ ParserIdle /\ ToolIdle /\ EvalInit

SeqNext ==
  /\ UNCHANGED running
  /\ \/ running = "parser"     /\ ParseNext /\ UNCHANGED <<tvars, xvars>>
     \/ running = "tool"       /\ ToolNext  /\ UNCHANGED <<evars, xvars>>
     \/ running = "evaluation" /\ EvalNext  /\ UNCHANGED <<evars, tvars>>

SeqSpec == SeqInit /\ [][SeqNext]_<<running, evars, tvars, xvars>>

-----------------------------------------------------------------------------
(***************************************************************************)
(* Messages of up to three parts, of nine kinds.                           *)
(***************************************************************************)
Part(type, text) == [part |-> TRUE, inline |-> TRUE, readable |-> TRUE,
                     type |-> type, text |-> text]

MCPart ==
  {Part("text/plain", "plain a"), Part("text/plain", "plain b"), Part("text/plain", ""),
   Part("text/html", "<p>html</p>"), Part("text/html", "<br>"),
   [Part("text/plain", "plain a") EXCEPT !.inline = FALSE],
   [Part("text/plain", "plain b") EXCEPT !.readable = FALSE],
   [Part("text/html", "<p>html</p>") EXCEPT !.part = FALSE],
   Part("text/calendar", "plain b")}

MCHeader == {"Ann <ann@x>", "ann@x", "=?q?ann?=", "ann", ""}

MCParseAddress == [h \in MCHeader |-> IF h = "Ann <ann@x>" THEN "ann@x" ELSE h]

MCDecodeHeader == [h \in MCHeader |-> IF h = "=?q?ann?=" THEN "ann" ELSE h]

MCHtml == {"<p>html</p>", "<br>"}

MCHtmlToText == [h \in MCHtml |-> IF h = "<br>" THEN "" ELSE "html"]

MCPlain == {"plain a", "plain b", "html", "", "rest"}

MCRaw ==
  [readable : BOOLEAN, from : {"Ann <ann@x>", "ann@x", ""}, subject : {"=?q?ann?=", "ann@x"},
   id : {"<id@x>", NoId}, opens : {"ok", "charset", "error"},
   parts : UNION {[1 .. n -> MCPart] : n \in 0 .. 2}, ends : {"EOF", "error"},
   rest : {"rest"}]
  \cup
  [readable : {TRUE}, from : {"ann@x"}, subject : {"ann@x"}, id : {NoId},
   opens : {"ok"}, parts : [1 .. 3 -> MCPart], ends : {"error"}, rest : {"rest"}]

-----------------------------------------------------------------------------
(***************************************************************************)
(* Tables of up to three tickets, of which two may be shown.               *)
(***************************************************************************)
MCWord == {"", "ann@x", "refund"}

MCRow == [words : {{"refund"}, {"ann@x", "refund"}, {}}, type : {"billing", Unset},
          urgency : {"low", Unset}]

MCTables == UNION {[1 .. n -> MCRow] : n \in {0, 1, 3}}

-----------------------------------------------------------------------------
(***************************************************************************)
(* Three emails, predictions around two of the thresholds, and two caches  *)
(* of other gold sets.                                                     *)
(***************************************************************************)
MCGold == <<[id |-> "g1", urgency |-> "low", type |-> "billing"],
            [id |-> "g2", urgency |-> "critical", type |-> "technical"],
            [id |-> "g3", urgency |-> "low", type |-> "billing"]>>

MCPrediction ==
  [urgency : {"low"}, type : {"billing"}, confidence : {49, 93, 95}]
    \cup [urgency : {"critical"}, type : {"technical"}, confidence : {50, 95}]
    \cup [urgency : {"low"}, type : {"technical"}, confidence : {95}]

MCStale == UNION {[ids -> MCPrediction] : ids \in {{"g1"}, {"g2", "g9"}}}

=============================================================================
