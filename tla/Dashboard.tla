------------------------------ MODULE Dashboard ------------------------------
(***************************************************************************)
(* The reviewer console (src/frontend) of one reviewer, in front of the    *)
(* orchestrator.  The console shows the detail of one ticket, which it     *)
(* fetches when a ticket is selected and after each decision.  Answers     *)
(* come back in any order or not at all, and the server puts a detail      *)
(* together from several reads that other requests may come between.       *)
(*                                                                         *)
(* The queue is left out: it is polled all the time, and any ticket there  *)
(* is may be selected.  Tickets are mounted by their id, as the key of the *)
(* component says.                                                         *)
(***************************************************************************)
EXTENDS OrchestratorProperties

CONSTANT Fetch   \* bound: requests for a detail at a time

\* What the drop-downs show when there is no classification.
Defaults == [urgency |-> "normal", type |-> "general",
             department |-> "support_tier1"]

ASSUME ChoiceAssumption ==
  {Defaults} \cup {LabelsOf(v) : v \in Verdict} \subseteq Decision

\* null is not a row.
ASSUME NullAssumption == None \notin Verdict \cup ReplyRow

VARIABLES
  selected, \* App.selectedId
  shown,    \* App.detail, which TicketDetail renders
  selects,  \* the drop-downs of TicketDetail
  text,     \* its textarea
  typed,    \* history: whether the reviewer typed into the textarea
            \* since it was filled
  fetches,  \* the requests for details that are under way
  posts     \* the decision that a worker serves for the console

consoleVars == <<selected, shown, selects, text, typed, fetches, posts>>

dvars == <<vars, consoleVars>>

(***************************************************************************)
(* A detail as ticketDetail answers it: columns of the ticket and the      *)
(* latest classification and reply.                                        *)
(***************************************************************************)
Detail == [ticket  : Ticket,
           state   : TicketState \cup {Absent},
           labels  : Labels,
           verdict : Verdict  \cup {None},
           reply   : ReplyRow \cup {None}]

\* The reads of ticketDetail.  The email never changes and is left out.
\* Mutant: the ticket is read last.
TicketLast == <<"classification", "reply", "ticket">>

ReadOrder == <<"ticket", "classification", "reply">>

\* A request that has made step - 1 of the reads.  Whether the click handler
\* of the component that is mounted waits for it is holds.
DetailRequest == [step : 1 .. Len(ReadOrder) + 1, detail : Detail,
                  holds : BOOLEAN]

Post == [refetch : Ticket, holds : BOOLEAN]

DashTypeOK ==
  /\ selected \in Ticket \cup {None}
  /\ shown    \in Detail \cup {None}
  /\ selects  \in Decision \cap Labels
  /\ text     \in Text \cup {Blank}
  /\ typed    \in BOOLEAN
  /\ fetches  \in [Fetch -> DetailRequest \cup {None}]
  /\ posts    \in [Worker -> Post \cup {None}]

DashInit ==
  /\ Init
  /\ selected = None /\ shown = None
  /\ selects = Defaults /\ text = Blank /\ typed = FALSE
  /\ fetches = [f \in Fetch  |-> None]
  /\ posts   = [w \in Worker |-> None]

-----------------------------------------------------------------------------
(***************************************************************************)
(* Fetching a detail                                                       *)
(***************************************************************************)
\* refreshDetail(t) with request f.
Ask(f, t, holds) ==
  /\ fetches[f] = None
  /\ fetches' = [fetches EXCEPT ![f] =
       [step |-> 1, holds |-> holds,
        detail |-> [ticket |-> t, state |-> Absent, labels |-> Unlabelled,
                    verdict |-> None, reply |-> None]]]

\* onSelect: an effect fetches when selectedId has changed.
Select(t, f) ==
  /\ state[t] # Absent /\ t # selected
  /\ selected' = t
  /\ Ask(f, t, FALSE)
  /\ UNCHANGED <<vars, shown, selects, text, typed, posts>>

Latest(rows) == IF rows = << >> THEN None ELSE rows[Len(rows)]

Learn(d, what) ==
  CASE what = "ticket" ->
         [d EXCEPT !.state = state[d.ticket], !.labels = labels[d.ticket]]
    [] what = "classification" ->
         [d EXCEPT !.verdict = Latest(classifications[d.ticket])]
    [] what = "reply" ->
         [d EXCEPT !.reply = Latest(replies[d.ticket])]

Complete(f) == fetches[f].step > Len(ReadOrder)

\* The server makes its next read for request f.
Read(f) ==
  /\ fetches[f] # None /\ ~Complete(f)
  /\ fetches' = [fetches EXCEPT
       ![f].step   = @ + 1,
       ![f].detail = Learn(@, ReadOrder[fetches[f].step])]
  /\ UNCHANGED <<vars, selected, shown, selects, text, typed, posts>>

DraftText(d) == IF d.reply = None THEN Blank ELSE d.reply.draft

Let(request) == IF request = None THEN None ELSE [request EXCEPT !.holds = FALSE]

\* A new TicketDetail: its fields are filled, and no handler of it is running.
Mount(d, left) ==
  /\ selects' = IF d.verdict = None THEN Defaults ELSE LabelsOf(d.verdict)
  /\ text'    = DraftText(d)
  /\ typed'   = FALSE
  /\ fetches' = [f \in Fetch  |-> Let(left[f])]
  /\ posts'   = [w \in Worker |-> Let(posts[w])]

\* Mutants: the textarea is filled again by every fetch, or never.
UpdateAlways(d, left) ==
  /\ text' = DraftText(d) /\ typed' = FALSE
  /\ fetches' = left
  /\ UNCHANGED <<selects, posts>>

UpdateNever(d, left) ==
  /\ fetches' = left
  /\ UNCHANGED <<selects, posts, text, typed>>

\* The same TicketDetail with a new detail: an effect fills the textarea when
\* the text of the draft has changed; the drop-downs are left alone.
Update(d, left) ==
  /\ \/ /\ DraftText(d) = DraftText(shown)
        /\ UNCHANGED <<text, typed>>
     \/ /\ DraftText(d) # DraftText(shown)
        /\ text' = DraftText(d) /\ typed' = FALSE
  /\ fetches' = left
  /\ UNCHANGED <<selects, posts>>

Mounted(d) == shown # None /\ shown.ticket = d.ticket

\* setDetail, whatever is selected by now.
Show(f) ==
  /\ fetches[f] # None /\ Complete(f)
  /\ LET d    == fetches[f].detail
         left == [fetches EXCEPT ![f] = None]
     IN  /\ shown' = d
         /\ \/ ~Mounted(d) /\ Mount(d, left)
            \/ Mounted(d)  /\ Update(d, left)
  /\ UNCHANGED <<vars, selected>>

-----------------------------------------------------------------------------
(***************************************************************************)
(* Deciding.  The buttons of a TicketDetail are disabled while one of its  *)
(* own handlers is running.                                                *)
(***************************************************************************)
Busy == \/ \E f \in Fetch  : fetches[f] # None /\ fetches[f].holds
        \/ \E w \in Worker : posts[w] # None /\ posts[w].holds

Offers(checkpoint) == shown # None /\ shown.state = checkpoint

EditText(x) ==
  /\ Offers("AWAITING_REPLY_APPROVAL") /\ x # text
  /\ text' = x /\ typed' = TRUE
  /\ UNCHANGED <<vars, selected, shown, selects, fetches, posts>>

EditSelects(d) ==
  /\ Offers("AWAITING_CLASSIFICATION_REVIEW") /\ d # selects
  /\ selects' = d
  /\ UNCHANGED <<vars, selected, shown, text, typed, fetches, posts>>

\* Mutant: the handler has the ticket that was selected when it was made.
ClickForgets(w) ==
  /\ ~Busy /\ posts[w] = None
  /\ posts' = [posts EXCEPT ![w] = [refetch |-> None, holds |-> TRUE]]
  /\ UNCHANGED <<selected, shown, selects, text, typed, fetches>>

\* A click sends the decision about the ticket that is shown, and remembers
\* which ticket is selected.
Click(w) ==
  /\ ~Busy /\ posts[w] = None
  /\ posts' = [posts EXCEPT ![w] = [refetch |-> selected, holds |-> TRUE]]
  /\ UNCHANGED <<selected, shown, selects, text, typed, fetches>>

Confirm(w) ==
  /\ Offers("AWAITING_CLASSIFICATION_REVIEW") /\ Click(w)
  /\ ReviewClassification(w, shown.ticket, selects)

Approve(w) ==
  /\ Offers("AWAITING_REPLY_APPROVAL") /\ Click(w)
  /\ ApproveReply(w, shown.ticket, text)

Reject(w) ==
  /\ Offers("AWAITING_REPLY_APPROVAL") /\ Click(w)
  /\ RejectReply(w, shown.ticket)

\* The page is loaded again.
Reload ==
  /\ selected' = None /\ shown' = None
  /\ selects' = Defaults /\ text' = Blank /\ typed' = FALSE
  /\ fetches' = [f \in Fetch  |-> None]
  /\ posts'   = [w \in Worker |-> None]
  /\ UNCHANGED vars

\* Mutant: there is no finally.
AnsweredIfDone(w, f) ==
  /\ posts[w] # None /\ pc[w] = "done"
  /\ Ask(f, posts[w].refetch, posts[w].holds)
  /\ posts' = [posts EXCEPT ![w] = None]
  /\ UNCHANGED <<vars, selected, shown, selects, text, typed>>

\* The decision is answered: afterAction, or an error that nobody shows.
Answered(w, f) ==
  /\ posts[w] # None /\ pc[w] \in Free
  /\ \/ pc[w] = "done" /\ Ask(f, posts[w].refetch, posts[w].holds)
     \/ pc[w] # "done" /\ UNCHANGED fetches
  /\ posts' = [posts EXCEPT ![w] = None]
  /\ UNCHANGED <<vars, selected, shown, selects, text, typed>>

-----------------------------------------------------------------------------
(***************************************************************************)
(* What can go wrong between the console and the server                    *)
(***************************************************************************)
\* A detail is not answered: refreshDetail shows the error.
FetchFails(f) ==
  /\ fetches[f] # None
  /\ fetches' = [fetches EXCEPT ![f] = None]
  /\ UNCHANGED <<vars, selected, shown, selects, text, typed, posts>>

\* The answer to a decision is lost; the server works on.
PostFails(w) ==
  /\ posts[w] # None
  /\ posts' = [posts EXCEPT ![w] = None]
  /\ UNCHANGED <<vars, selected, shown, selects, text, typed, fetches>>

-----------------------------------------------------------------------------
ConsoleStep ==
  \/ \E f \in Fetch : Read(f) \/ Show(f)
  \/ \E f \in Fetch, w \in Worker : Answered(w, f)

ReviewerStep ==
  \/ \E t \in Ticket, f \in Fetch : Select(t, f)
  \/ \E x \in Text \cup {Blank} : EditText(x)
  \/ \E d \in Decision \cap Labels : EditSelects(d)
  \/ \E w \in Worker : Confirm(w) \/ Approve(w) \/ Reject(w)
  \/ Reload

\* Emails arrive, and what has been asked for is served.
ServerStep ==
  /\ \/ \E w \in Worker : Serve(w)
     \/ \E w \in Worker, k \in Key : posts[w] = None /\ ReceiveEmail(w, k)
  /\ UNCHANGED consoleVars

\* One reviewer on a day without faults.
AloneNext == ConsoleStep \/ ReviewerStep \/ ServerStep

AloneSpec == DashInit /\ [][AloneNext]_dvars

\* Other reviewers, and all the faults there are.
OthersStep ==
  /\ \E w \in Worker : posts[w] = None /\ Request(w)
  /\ UNCHANGED consoleVars

ConsoleFault ==
  \/ \E f \in Fetch : FetchFails(f)
  \/ \E w \in Worker : PostFails(w)
  \/ Fault /\ UNCHANGED consoleVars

DashNext == AloneNext \/ OthersStep \/ ConsoleFault

\* The server and the browser work on what was asked of them.
DashSpec ==
  /\ DashInit /\ [][DashNext]_dvars
  /\ WF_dvars(ConsoleStep)
  /\ \A w \in Worker : WF_dvars(Serve(w) /\ UNCHANGED consoleVars)

-----------------------------------------------------------------------------
(***************************************************************************)
(* Properties                                                              *)
(***************************************************************************)
Consistent(d) ==
  /\ d.state = "AWAITING_CLASSIFICATION_REVIEW" =>
       \/ d.verdict = None /\ d.labels = Unlabelled
       \/ d.verdict # None /\ d.labels = LabelsOf(d.verdict)
  /\ d.state \in {"AWAITING_REPLY_APPROVAL", "RESOLVED"} => d.reply # None

\* What the reviewer is asked to decide about is there: a detail at
\* Checkpoint 1 shows the classification that its labels came from, and one
\* at Checkpoint 2 has a draft, although the server reads the tables one by
\* one while requests change them.  It is enough that the ticket is read
\* first and that the orchestrator writes its row last.
ShownIsConsistent == shown # None => Consistent(shown)

\* The textarea holds the draft that is shown, or what the reviewer made of
\* it: no new draft hides behind the text of an old one.
TextareaFollowsDraft == shown # None /\ ~typed => text = DraftText(shown)

\* "In-progress edits aren't clobbered by unchanged refetches."
EditsAreKept ==
  [][ /\ shown # None /\ shown' # None /\ shown' # shown
      /\ shown'.ticket = shown.ticket
      /\ DraftText(shown') = DraftText(shown)
      => text' = text ]_dvars

\* The buttons come back, whether the decision went through, was refused or
\* was never answered.
ButtonsComeBack == Busy ~> ~Busy

=============================================================================
