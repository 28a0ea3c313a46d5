------------------------------- MODULE Toolbox -------------------------------
(***************************************************************************)
(* One tool call of the classifier, from Invoke of the ToolBox the client  *)
(* was given to its answer.  At start-up main.go dials the MCP server; the *)
(* tools are then called over MCP, or in the process when the dial failed. *)
(* Over MCP the arguments are decoded by the client, encoded again by the  *)
(* server, and decoded once more by the same in-process tools, and an      *)
(* error travels back as a result that is marked as one.                   *)
(***************************************************************************)
EXTENDS Domain, Integers, Sequences, FiniteSets, SequencesExt

CONSTANTS
  Word,      \* strings the model may pass to a tool, "" among them
  Customer,  \* the words that are the email of a customer
  Limit,     \* tickets lookup_similar_tickets shows at most (5 in the code)
  Tables,    \* contents the tickets table may have
  NoAnswer   \* no answer yet

\* What stands for a value that is no string.
NotAString == "17"

ASSUME LookupAssumption == /\ Customer \subseteq Word
                           /\ "" \in Word /\ NotAString \notin Word
                           /\ Limit \in Nat \ {0}

Tool == {"lookup_customer", "lookup_similar_tickets", "no_such_tool"}

(***************************************************************************)
(* The arguments are a text the model wrote: nothing at all, not JSON, the *)
(* JSON null, JSON that is neither null nor an object, or an object whose  *)
(* field for the tool is absent (that is, ""), a word or no string.  Field *)
(* names are matched without regard to case, and of two that differ in it  *)
(* the last one counts: value is the one that is last as the text stands,  *)
(* sorted the one that is last when the keys are in order.                 *)
(***************************************************************************)
Args ==
  [form : {"empty", "broken", "null", "array"}, value : {""}, sorted : {""}]
    \cup [form : {"object"}, value : Word, sorted : Word]
    \cup [form : {"object"}, value : {NotAString}, sorted : {NotAString}]

Null == [form |-> "null", value |-> "", sorted |-> ""]

\* json.Marshal of a map puts the keys in order; a nil map is null.
Encoded(args) ==
  IF args.form = "empty" THEN Null ELSE [args EXCEPT !.value = args.sorted]

\* A ticket with its email, newest first: the words that match it.
TicketRow == [words : SUBSET Word, type : TicketType \cup {Unset},
              urgency : Urgency \cup {Unset}]

ASSUME TablesAssumption == Tables \subseteq Seq(TicketRow)

\* json.Unmarshal into the struct of a tool, and into a map.
Decodes(args)      == args.form \in {"null", "object"} /\ args.value # NotAString
DecodesToMap(args) == args.form \in {"null", "object"}

Answer(text) == [err |-> FALSE, text |-> text]

Error == [err |-> TRUE, text |-> << >>]

GetCustomer(email) == Answer(<<email \in Customer>>)

Shown(row, query) == row.type # Unset /\ (query = "" \/ query \in row.words)

\* Mutant: the limit comes before the condition on the type.
LimitFirst(table, query) ==
  LET found[n \in 0 .. Len(table)] ==
        IF n = 0 THEN << >>
        ELSE IF Shown(table[n], query) /\ n <= Limit
             THEN Append(found[n - 1], table[n])
             ELSE found[n - 1]
  IN  found[Len(table)]

\* The result set of the query: from the newest ticket on, those that are
\* classified and match, up to the limit.
Found(table, query) ==
  LET found[n \in 0 .. Len(table)] ==
        IF n = 0 THEN << >>
        ELSE IF Shown(table[n], query) /\ Len(found[n - 1]) < Limit
             THEN Append(found[n - 1], table[n])
             ELSE found[n - 1]
  IN  found[Len(table)]

\* A row whose urgency is NULL cannot be scanned and fails the lookup.
FindSimilarTickets(table, query) ==
  LET found == Found(table, query)
  IN  IF \E i \in 1 .. Len(found) : found[i].urgency = Unset
      THEN Error ELSE Answer(found)

\* Invoke of the in-process Box.
BoxInvoke(table, tool, args) ==
  IF tool \notin {"lookup_customer", "lookup_similar_tickets"} \/ ~Decodes(args)
  THEN Error
  ELSE IF tool = "lookup_customer" THEN GetCustomer(args.value)
       ELSE FindSimilarTickets(table, args.value)

ASSUME NoAnswerAssumption ==
  \A table \in Tables, tool \in Tool, args \in Args : BoxInvoke(table, tool, args) # NoAnswer

-----------------------------------------------------------------------------
VARIABLES
  tickets, \* the tickets table
  tool, args, \* the call
  stage,   \* where the call is
  wire,    \* what the client or the server has sent
  answer,  \* what Invoke returns
  lost     \* history: the call was lost on the way

tvars == <<tickets, tool, args, stage, wire, answer, lost>>

ToolInit ==
  /\ tickets \in Tables /\ tool \in Tool /\ args \in Args
  /\ stage = "dial" /\ wire = NoAnswer /\ answer = NoAnswer /\ lost = FALSE

Return(a) == stage' = "answered" /\ answer' = a

\* main: the toolbox that the classifier is given.
Dial ==
  /\ stage = "dial"
  /\ stage' \in {"mcp", "local"}
  /\ UNCHANGED <<tickets, tool, args, wire, answer, lost>>

InvokeLocal ==
  /\ stage = "local"
  /\ Return(BoxInvoke(tickets, tool, args))
  /\ UNCHANGED <<tickets, tool, args, wire, lost>>

\* ToolBox.Invoke: the arguments are decoded to a map, if there are any, and
\* encoded again.
SendCall ==
  /\ stage = "mcp"
  /\ \/ /\ args.form # "empty" /\ ~DecodesToMap(args)
        /\ Return(Error)
        /\ UNCHANGED wire
     \/ /\ args.form = "empty" \/ DecodesToMap(args)
        /\ wire' = Encoded(args)
        /\ stage' = "called"
        /\ UNCHANGED answer
  /\ UNCHANGED <<tickets, tool, args, lost>>

\* The handler of the server decodes and encodes the arguments once more, with
\* the keys in order already.  A tool it has not registered is refused.
ServeCall ==
  /\ stage = "called"
  /\ wire' = BoxInvoke(tickets, tool, wire)
  /\ stage' = "result"
  /\ UNCHANGED <<tickets, tool, args, answer, lost>>

\* Mutant: the mark of an error is not looked at.
TextOnly ==
  /\ stage = "result"
  /\ Return(Answer(wire.text))
  /\ UNCHANGED <<tickets, tool, args, wire, lost>>

ReceiveResult ==
  /\ stage = "result"
  /\ Return(IF wire.err THEN Error ELSE Answer(wire.text))
  /\ UNCHANGED <<tickets, tool, args, wire, lost>>

\* The server or the connection fails: CallTool returns an error.
LoseCall ==
  /\ stage \in {"called", "result"}
  /\ Return(Error)
  /\ lost' = TRUE
  /\ UNCHANGED <<tickets, tool, args, wire>>

ToolNext == Dial \/ InvokeLocal \/ SendCall \/ ServeCall \/ ReceiveResult \/ LoseCall

ToolSpec == ToolInit /\ [][ToolNext]_tvars

-----------------------------------------------------------------------------
(***************************************************************************)
(* Properties                                                              *)
(***************************************************************************)

\* Over MCP a tool gives the answer it gives in the process, an error for an
\* error, whatever the model wrote as its arguments, with two exceptions.  A
\* call without any text is an error in the process and has empty arguments
\* here, and of a field that was written twice, in different case, the first
\* may count where in the process the last does.
SameOverMcp ==
  stage = "answered" /\ ~lost =>
    \/ answer = BoxInvoke(tickets, tool, args)
    \/ /\ wire # NoAnswer /\ args.form = "empty"
       /\ answer = BoxInvoke(tickets, tool, Null)
    \/ /\ wire # NoAnswer /\ args.form = "object" /\ args.sorted # args.value
       /\ answer = BoxInvoke(tickets, tool, [args EXCEPT !.value = args.sorted])

\* What the tool is asked for, here or over MCP.
Asked == IF wire = NoAnswer THEN args.value ELSE args.sorted

Listed == {i \in 1 .. Len(tickets) :
             /\ tickets[i].type # Unset
             /\ Asked = "" \/ Asked \in tickets[i].words}

\* A look-up of similar tickets that the model asked for properly shows the
\* newest classified tickets that match, as many as there are up to the
\* limit, each with type and urgency; it fails only on one that lacks an
\* urgency, or when it is lost.
SimilarAreNewest ==
  stage = "answered" /\ tool = "lookup_similar_tickets" /\ Decodes(args) /\ ~lost =>
    LET top == {i \in Listed : Cardinality({j \in Listed : j < i}) < Limit}
    IN  IF \E i \in top : tickets[i].urgency = Unset THEN answer.err
        ELSE ~answer.err /\ ToSet(answer.text) = {tickets[i] : i \in top}

=============================================================================
