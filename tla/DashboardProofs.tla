--------------------------- MODULE DashboardProofs ---------------------------
(***************************************************************************)
(* What the reviewer console shows and sends, for any number of tickets,   *)
(* requests and reviewers, and with every fault of the model.              *)
(***************************************************************************)
EXTENDS Dashboard, ReviewProofs

-----------------------------------------------------------------------------
(***************************************************************************)
(* Details                                                                 *)
(***************************************************************************)

\* The row that a query for the latest one finds.
LEMMA LatestType ==
  ASSUME NEW S, NEW rows \in Seq(S)
  PROVE  Latest(rows) \in S \cup {None}
<1>1. rows # << >> => Len(rows) \in 1 .. Len(rows)
  BY LenProperties, EmptySeq
<1> QED
  BY <1>1, ElementOfSeq DEF Latest

LEMMA ReadOrderLen == Len(ReadOrder) = 3
BY DEF ReadOrder

\* A read of the server leaves a detail a detail.
LEMMA LearnType ==
  ASSUME StoreTypeOK, NEW d \in Detail, NEW i \in 1 .. Len(ReadOrder)
  PROVE  Learn(d, ReadOrder[i]) \in Detail
<1>1. d.ticket \in Ticket
  BY DEF Detail
<1>2. /\ state[d.ticket] \in TicketState \cup {Absent}
      /\ labels[d.ticket] \in Labels
      /\ Latest(classifications[d.ticket]) \in Verdict \cup {None}
      /\ Latest(replies[d.ticket]) \in ReplyRow \cup {None}
  BY <1>1, LatestType DEF StoreTypeOK
<1>3. ReadOrder[i] \in {"ticket", "classification", "reply"}
  <2>1. i \in {1, 2, 3}
    BY ReadOrderLen
  <2> QED
    BY <2>1 DEF ReadOrder
<1> QED
  BY <1>1, <1>2, <1>3 DEF Learn, Detail

\* What the fields of a TicketDetail are filled with may be sent as it is.
LEMMA FieldsOfNothing == Defaults \in Decision \cap Labels
BY ChoiceAssumption DEF Defaults, Labels, Urgency, TicketType, Department

LEMMA FieldsType ==
  ASSUME NEW d \in Detail
  PROVE  /\ DraftText(d) \in Text \cup {Blank}
         /\ d.verdict # None => LabelsOf(d.verdict) \in Decision \cap Labels
<1>1. DraftText(d) \in Text \cup {Blank}
  BY DEF Detail, DraftText, ReplyRow
<1>2. d.verdict # None => d.verdict \in Verdict
  BY DEF Detail
<1> QED
  BY <1>1, <1>2, LabelsOfType, ChoiceAssumption

LEMMA LetType ==
  ASSUME NEW holds \in [Fetch -> DetailRequest \cup {None}],
         NEW sent \in [Worker -> Post \cup {None}]
  PROVE  /\ \A f \in Fetch  : Let(holds[f]) \in DetailRequest \cup {None}
         /\ \A w \in Worker : Let(sent[w]) \in Post \cup {None}
BY DEF Let, DetailRequest, Post

-----------------------------------------------------------------------------
(***************************************************************************)
(* Type correctness.  Nothing is shown, fetched or sent before a ticket    *)
(* was selected, so that the handlers of a TicketDetail have a ticket to   *)
(* fetch when they are done.                                               *)
(***************************************************************************)
NothingUnasked ==
  selected \notin Ticket =>
    /\ shown = None
    /\ \A f \in Fetch  : fetches[f] = None
    /\ \A w \in Worker : posts[w] = None

ConsoleInv == DashTypeOK /\ NothingUnasked

LEMMA AskType ==
  ASSUME DashTypeOK, NEW f \in Fetch, NEW t \in Ticket, NEW holds \in BOOLEAN,
         Ask(f, t, holds)
  PROVE  fetches' \in [Fetch -> DetailRequest \cup {None}]
<1>1. [ticket |-> t, state |-> Absent, labels |-> Unlabelled,
       verdict |-> None, reply |-> None] \in Detail
  BY UnlabelledType DEF Detail
<1> QED
  BY <1>1, ReadOrderLen DEF Ask, DashTypeOK, DetailRequest

LEMMA DetailReadType ==
  ASSUME StoreTypeOK, ConsoleInv, NEW f \in Fetch, Read(f)
  PROVE  ConsoleInv'
<1> DEFINE r == fetches[f]
<1>1. r \in DetailRequest /\ r.step \in 1 .. Len(ReadOrder)
  BY ReadOrderLen DEF Read, Complete, ConsoleInv, DashTypeOK, DetailRequest
<1>2. Learn(r.detail, ReadOrder[r.step]) \in Detail
  BY <1>1, LearnType DEF DetailRequest
<1>3. fetches' = [fetches EXCEPT ![f] =
         [r EXCEPT !.step = @ + 1,
                   !.detail = Learn(@, ReadOrder[r.step])]]
  BY <1>1 DEF Read, DetailRequest, ConsoleInv, DashTypeOK
<1>4. [r EXCEPT !.step = @ + 1, !.detail = Learn(@, ReadOrder[r.step])]
        \in DetailRequest
  <2>1. r.step + 1 \in 1 .. Len(ReadOrder) + 1
    BY <1>1, ReadOrderLen
  <2> HIDE DEF r
  <2> QED
    BY <1>1, <1>2, <2>1 DEF DetailRequest
<1>5. fetches' \in [Fetch -> DetailRequest \cup {None}]
  BY <1>3, <1>4 DEF ConsoleInv, DashTypeOK
<1>6. selected \in Ticket
  BY DEF Read, ConsoleInv, NothingUnasked
<1> QED
  BY <1>5, <1>6 DEF Read, ConsoleInv, DashTypeOK, NothingUnasked

LEMMA ShowType ==
  ASSUME ConsoleInv, NEW f \in Fetch, Show(f)
  PROVE  ConsoleInv'
<1> DEFINE d    == fetches[f].detail
           left == [fetches EXCEPT ![f] = None]
<1>1. d \in Detail
  BY DEF Show, ConsoleInv, DashTypeOK, DetailRequest
<1>2. left \in [Fetch -> DetailRequest \cup {None}]
  BY DEF ConsoleInv, DashTypeOK
<1>3. selected \in Ticket /\ selected' = selected /\ shown' = d
  BY DEF Show, ConsoleInv, NothingUnasked
<1>4. CASE Mount(d, left)
  BY <1>1, <1>2, <1>3, <1>4, FieldsType, FieldsOfNothing, LetType
     DEF Mount, ConsoleInv, DashTypeOK, NothingUnasked
<1>5. CASE Update(d, left)
  BY <1>1, <1>2, <1>3, <1>5, FieldsType
     DEF Update, ConsoleInv, DashTypeOK, NothingUnasked
<1> QED
  BY <1>4, <1>5 DEF Show

LEMMA ClickType ==
  ASSUME ConsoleInv, NEW w \in Worker, shown # None, Click(w)
  PROVE  ConsoleInv'
<1>1. selected \in Ticket
  BY DEF ConsoleInv, DashTypeOK, NothingUnasked
<1>2. posts' \in [Worker -> Post \cup {None}]
  BY <1>1 DEF Click, Post, ConsoleInv, DashTypeOK
<1> QED
  BY <1>1, <1>2 DEF Click, ConsoleInv, DashTypeOK, NothingUnasked

LEMMA AnsweredType ==
  ASSUME ConsoleInv, NEW f \in Fetch, NEW w \in Worker, Answered(w, f)
  PROVE  ConsoleInv'
<1>1. posts[w] \in Post /\ selected \in Ticket
  BY DEF Answered, ConsoleInv, DashTypeOK, NothingUnasked
<1>2. posts[w].refetch \in Ticket /\ posts[w].holds \in BOOLEAN
  BY <1>1 DEF Post
<1>3. fetches' \in [Fetch -> DetailRequest \cup {None}]
  BY <1>2, AskType DEF Answered, ConsoleInv, DashTypeOK
<1>4. posts' \in [Worker -> Post \cup {None}]
  BY DEF Answered, ConsoleInv, DashTypeOK
<1> QED
  BY <1>1, <1>3, <1>4 DEF Answered, ConsoleInv, DashTypeOK, NothingUnasked

LEMMA SelectType ==
  ASSUME ConsoleInv, NEW t \in Ticket, NEW f \in Fetch, Select(t, f)
  PROVE  ConsoleInv'
<1>1. fetches' \in [Fetch -> DetailRequest \cup {None}]
  BY AskType DEF Select, ConsoleInv
<1> QED
  BY <1>1 DEF Select, ConsoleInv, DashTypeOK, NothingUnasked

LEMMA DashInitInv == DashInit => ConsoleInv
BY FieldsOfNothing DEF DashInit, ConsoleInv, DashTypeOK, NothingUnasked

LEMMA ConsoleStepType ==
  ASSUME StoreTypeOK, ConsoleInv, [DashNext]_dvars
  PROVE  ConsoleInv'
<1>1. CASE ConsoleStep
  BY <1>1, DetailReadType, ShowType, AnsweredType DEF ConsoleStep
<1>2. CASE ReviewerStep
  <2>1. ASSUME NEW t \in Ticket, NEW f \in Fetch, Select(t, f)
        PROVE  ConsoleInv'
    BY <2>1, SelectType
  <2>2. CASE \/ \E x \in Text \cup {Blank} : EditText(x)
             \/ \E d \in Decision \cap Labels : EditSelects(d)
    BY <2>2 DEF EditText, EditSelects, ConsoleInv, DashTypeOK, NothingUnasked
  <2>3. ASSUME NEW w \in Worker, Confirm(w) \/ Approve(w) \/ Reject(w)
        PROVE  ConsoleInv'
    BY <2>3, ClickType DEF Confirm, Approve, Reject, Offers
  <2>4. CASE Reload
    BY <2>4, FieldsOfNothing DEF Reload, ConsoleInv, DashTypeOK, NothingUnasked
  <2> QED
    BY <1>2, <2>1, <2>2, <2>3, <2>4 DEF ReviewerStep
<1>3. ASSUME UNCHANGED consoleVars PROVE ConsoleInv'
  BY <1>3 DEF consoleVars, ConsoleInv, DashTypeOK, NothingUnasked
<1>4. ASSUME NEW f \in Fetch, FetchFails(f) PROVE ConsoleInv'
  BY <1>4 DEF FetchFails, ConsoleInv, DashTypeOK, NothingUnasked
<1>5. ASSUME NEW w \in Worker, PostFails(w) PROVE ConsoleInv'
  BY <1>5 DEF PostFails, ConsoleInv, DashTypeOK, NothingUnasked
<1> QED
  BY <1>1, <1>2, <1>3, <1>4, <1>5
     DEF DashNext, AloneNext, ServerStep, OthersStep, ConsoleFault, dvars

-----------------------------------------------------------------------------
(***************************************************************************)
(* The console is a client of the orchestrator                             *)
(***************************************************************************)

\* A decision that is sent is one of the requests anybody may send.
LEMMA DashStepRefines == ConsoleInv /\ [DashNext]_dvars => [Next]_vars
<1> SUFFICES ASSUME ConsoleInv, [DashNext]_dvars PROVE [Next]_vars
  OBVIOUS
<1>1. ASSUME NEW w \in Worker, Confirm(w) \/ Approve(w) \/ Reject(w)
      PROVE  Next
  <2>1. /\ shown.ticket \in Ticket /\ selects \in Decision
        /\ text \in Text \cup {Blank}
    BY <1>1 DEF Confirm, Approve, Reject, Offers, ConsoleInv, DashTypeOK, Detail
  <2>2. Request(w)
    BY <1>1, <2>1 DEF Confirm, Approve, Reject, Request
  <2> QED
    BY <2>2 DEF Next
<1>2. CASE ConsoleStep
  BY <1>2 DEF ConsoleStep, Read, Show, Answered
<1>3. CASE ReviewerStep
  BY <1>1, <1>3 DEF ReviewerStep, Select, EditText, EditSelects, Reload
<1>4. CASE ServerStep \/ OthersStep
  BY <1>4 DEF ServerStep, OthersStep, Request, Next
<1>5. CASE ConsoleFault
  BY <1>5 DEF ConsoleFault, FetchFails, PostFails, Next
<1>6. CASE UNCHANGED dvars
  BY <1>6 DEF dvars
<1> QED
  BY <1>2, <1>3, <1>4, <1>5, <1>6 DEF DashNext, AloneNext

LEMMA DashStepInv ==
  TypeOK /\ ConsoleInv /\ [DashNext]_dvars => TypeOK' /\ ConsoleInv'
<1>1. TypeOK => StoreTypeOK
  BY DEF TypeOK
<1> QED
  BY <1>1, ConsoleStepType, DashStepRefines, TypeStep

\* The console shows and sends values of the taxonomies only, and its
\* handlers always have a ticket to fetch.
THEOREM ConsoleTypeCorrect == DashSpec => []DashTypeOK
<1>1. DashInit => TypeOK /\ ConsoleInv
  BY TypeInit, DashInitInv DEF DashInit
<1>2. ConsoleInv => DashTypeOK
  BY DEF ConsoleInv
<1> QED
  BY <1>1, <1>2, DashStepInv, PTL DEF DashSpec

\* Whatever reviewers do at the console, the tickets live as module
\* Orchestrator says: every theorem about Spec holds behind it.
THEOREM ConsoleIsAClient == DashSpec => Spec
<1>1. DashInit => Init /\ TypeOK /\ ConsoleInv
  BY TypeInit, DashInitInv DEF DashInit
<1> QED
  BY <1>1, DashStepInv, DashStepRefines, PTL DEF DashSpec, Spec

-----------------------------------------------------------------------------
(***************************************************************************)
(* The textarea                                                            *)
(***************************************************************************)

\* Neither an edit nor a fetch leaves a new draft behind an old text.
LEMMA TextareaStep ==
  ASSUME ConsoleInv, TextareaFollowsDraft, [DashNext]_dvars
  PROVE  TextareaFollowsDraft'
<1>1. ASSUME NEW f \in Fetch, Show(f) PROVE TextareaFollowsDraft'
  <2> DEFINE d == fetches[f].detail
  <2>1. shown' = d
    BY <1>1 DEF Show
  <2>2. ASSUME NEW left, Mount(d, left) PROVE TextareaFollowsDraft'
    BY <2>1, <2>2 DEF Mount, TextareaFollowsDraft, DraftText
  <2>3. ASSUME NEW left, Mounted(d), Update(d, left)
        PROVE  TextareaFollowsDraft'
    BY <2>1, <2>3 DEF Update, Mounted, TextareaFollowsDraft, DraftText
  <2> QED
    BY <1>1, <2>2, <2>3 DEF Show
<1>2. CASE \E x \in Text \cup {Blank} : EditText(x)
  BY <1>2 DEF EditText, TextareaFollowsDraft
<1>3. CASE Reload
  BY <1>3 DEF Reload, TextareaFollowsDraft
<1>4. ASSUME UNCHANGED <<shown, text, typed>> PROVE TextareaFollowsDraft'
  BY <1>4 DEF TextareaFollowsDraft, DraftText
<1> QED
  BY <1>1, <1>2, <1>3, <1>4
     DEF DashNext, AloneNext, ConsoleStep, ReviewerStep, ServerStep, OthersStep,
         ConsoleFault, consoleVars, dvars, Read, Answered, Select, EditSelects,
         Confirm, Approve, Reject, Click, FetchFails, PostFails

\* A textarea that the reviewer has not typed into holds the draft that is
\* shown, in whatever order answers arrive.
THEOREM TextareaIsFilled == DashSpec => []TextareaFollowsDraft
<1>1. DashInit => TypeOK /\ ConsoleInv /\ TextareaFollowsDraft
  BY TypeInit, DashInitInv DEF DashInit, TextareaFollowsDraft
<1> QED
  BY <1>1, DashStepInv, TextareaStep, PTL DEF DashSpec

\* What the reviewer has in the textarea survives every fetch that brings
\* the same draft of the same ticket.
THEOREM EditsSurvive == DashSpec => EditsAreKept
<1>1. [DashNext]_dvars =>
        [ /\ shown # None /\ shown' # None /\ shown' # shown
          /\ shown'.ticket = shown.ticket
          /\ DraftText(shown') = DraftText(shown)
          => text' = text ]_dvars
  <2> SUFFICES ASSUME DashNext, shown # None, shown' # None, shown' # shown,
                      shown'.ticket = shown.ticket,
                      DraftText(shown') = DraftText(shown)
               PROVE  text' = text
    OBVIOUS
  <2>1. PICK f \in Fetch : Show(f)
    BY DEF DashNext, AloneNext, ConsoleStep, ReviewerStep, ServerStep, OthersStep,
           ConsoleFault, consoleVars, Read, Answered, Select, EditText,
           EditSelects, Confirm, Approve, Reject, Click, Reload, FetchFails,
           PostFails
  <2>2. Mounted(fetches[f].detail) /\ shown' = fetches[f].detail
    BY <2>1 DEF Show, Mounted
  <2> QED
    BY <2>1, <2>2 DEF Show, Update
<1> QED
  BY <1>1, PTL DEF DashSpec, EditsAreKept

-----------------------------------------------------------------------------
(***************************************************************************)
(* What is shown was read in three steps.  From the first read on the      *)
(* tables bear out what it found, because a ticket keeps its rows; so the  *)
(* later reads, whenever they come, find rows that belong to it.           *)
(***************************************************************************)
VerdictFits(d, v) ==
  \/ v = None /\ d.labels = Unlabelled
  \/ v # None /\ d.labels = LabelsOf(v)

RowsFit(d) ==
  /\ d.state = "AWAITING_CLASSIFICATION_REVIEW" =>
       state[d.ticket] \notin Early /\ VerdictFits(d, Latest(classifications[d.ticket]))
  /\ d.state \in Waiting => Len(replies[d.ticket]) >= 1

ReadsFit(d, step) ==
  /\ step >= 2 => RowsFit(d)
  /\ step >= 3 => \/ d.state # "AWAITING_CLASSIFICATION_REVIEW"
                  \/ VerdictFits(d, d.verdict)
  /\ step >= 4 => (d.state \in Waiting => d.reply # None)

FetchesFit ==
  \A f \in Fetch : fetches[f] # None => ReadsFit(fetches[f].detail, fetches[f].step)

TablesInv == TypeOK /\ ExclusiveDriver /\ VerdictInv /\ RepliedInv

LEMMA FitStays ==
  ASSUME RowsStay, TypeOK, TypeOK', NEW d \in Detail, NEW step, ReadsFit(d, step)
  PROVE  ReadsFit(d, step)'
<1>1. PICK t \in Ticket : t = d.ticket
  BY DEF Detail
<1>2. Len(replies[t]) \in Nat /\ Len(replies'[t]) \in Nat
  BY LenProperties DEF TypeOK, StoreTypeOK
<1>3. RowsFit(d) => RowsFit(d)'
  BY <1>1, <1>2 DEF RowsStay, RowsFit, VerdictFits, Latest
<1> QED BY <1>3 DEF ReadsFit, VerdictFits

\* The first read finds a ticket whose rows belong to it.
LEMMA TicketReadFits ==
  ASSUME TablesInv, NEW d \in Detail
  PROVE  RowsFit(Learn(d, "ticket"))
<1> DEFINE e == Learn(d, "ticket")
<1>1. PICK t \in Ticket : t = d.ticket
  BY DEF Detail
<1>2. e.ticket = t /\ e.state = state[t] /\ e.labels = labels[t]
  BY <1>1 DEF Learn, Detail
<1> HIDE DEF e
<1>3. ASSUME state[t] = "AWAITING_CLASSIFICATION_REVIEW"
      PROVE  VerdictFits(e, Latest(classifications[t]))
  <2>1. CASE classifications[t] = << >> /\ labels[t] = Unlabelled
    BY <1>2, <2>1 DEF VerdictFits, Latest
  <2>2. ASSUME NEW v \in Verdict, OneVerdict(t, v), labels[t] = LabelsOf(v)
        PROVE  VerdictFits(e, Latest(classifications[t]))
    <3>1. classifications[t] = <<v>> /\ <<v>> # << >> /\ Len(<<v>>) = 1 /\ <<v>>[1] = v
      BY <2>2 DEF OneVerdict
    <3>2. Latest(classifications[t]) = v
      BY <3>1 DEF Latest
    <3> QED BY <1>2, <2>2, <3>2, NullAssumption DEF VerdictFits
  <2> QED BY <1>3, <2>1, <2>2 DEF TablesInv, VerdictInv, TicketOK, ShowsOK
<1>4. RowsFit(e)
  BY <1>2, <1>3 DEF RowsFit, TablesInv, RepliedInv, Replied, Early, Absent
<1> QED BY <1>4 DEF e

\* The later reads find what the first one promised.
LEMMA RowReadFits ==
  ASSUME TypeOK, NEW d \in Detail
  PROVE  /\ ReadsFit(d, 2) => ReadsFit(Learn(d, "classification"), 3)
         /\ ReadsFit(d, 3) => ReadsFit(Learn(d, "reply"), 4)
<1>1. PICK t \in Ticket : t = d.ticket
  BY DEF Detail
<1>2. ASSUME ReadsFit(d, 2) PROVE ReadsFit(Learn(d, "classification"), 3)
  <2> DEFINE e == Learn(d, "classification")
  <2>1. /\ e.ticket = t /\ e.state = d.state /\ e.labels = d.labels
        /\ e.verdict = Latest(classifications[t])
    BY <1>1 DEF Learn, Detail
  <2> HIDE DEF e
  <2>2. ReadsFit(e, 3)
    BY <1>1, <1>2, <2>1 DEF ReadsFit, RowsFit, VerdictFits
  <2> QED BY <2>2 DEF e
<1>3. ASSUME ReadsFit(d, 3) PROVE ReadsFit(Learn(d, "reply"), 4)
  <2> DEFINE e == Learn(d, "reply")
  <2>1. /\ e.ticket = t /\ e.state = d.state /\ e.labels = d.labels
        /\ e.verdict = d.verdict /\ e.reply = Latest(replies[t])
    BY <1>1 DEF Learn, Detail
  <2> HIDE DEF e
  <2>2. ASSUME Len(replies[t]) >= 1 PROVE Latest(replies[t]) # None
    <3>1. replies[t] \in Seq(ReplyRow) /\ Len(replies[t]) \in Nat /\ replies[t] # << >>
      BY <2>2, LenProperties, EmptySeq DEF TypeOK, StoreTypeOK
    <3>2. replies[t][Len(replies[t])] \in ReplyRow
      BY <2>2, <3>1, ElementOfSeq
    <3> QED BY <3>1, <3>2, NullAssumption DEF Latest
  <2>3. ReadsFit(e, 4)
    BY <1>1, <1>3, <2>1, <2>2 DEF ReadsFit, RowsFit, VerdictFits
  <2> QED BY <2>3 DEF e
<1> QED BY <1>2, <1>3

LEMMA ReadFits ==
  ASSUME TablesInv, ConsoleInv, FetchesFit, NEW f \in Fetch, Read(f)
  PROVE  FetchesFit'
<1>1. PICK r \in DetailRequest : r = fetches[f]
  BY DEF Read, ConsoleInv, DashTypeOK
<1>2. r.step \in {1, 2, 3} /\ r.detail \in Detail /\ ReadsFit(r.detail, r.step)
  BY <1>1, ReadOrderLen DEF Read, Complete, DetailRequest, FetchesFit
<1>3. PICK e : e = Learn(r.detail, ReadOrder[r.step])
  OBVIOUS
<1>4. fetches' = [fetches EXCEPT ![f] = [r EXCEPT !.step = @ + 1, !.detail = e]]
  BY <1>1, <1>3 DEF Read, DetailRequest, ConsoleInv, DashTypeOK
<1>5. ReadsFit(e, r.step + 1)
  <2>1. CASE r.step = 1
    BY <1>2, <1>3, <2>1, TicketReadFits DEF ReadOrder, ReadsFit
  <2>2. CASE r.step = 2
    BY <1>2, <1>3, <2>2, RowReadFits DEF ReadOrder, TablesInv
  <2>3. CASE r.step = 3
    BY <1>2, <1>3, <2>3, RowReadFits DEF ReadOrder, TablesInv
  <2> QED BY <1>2, <2>1, <2>2, <2>3
<1>6. fetches'[f].detail = e /\ fetches'[f].step = r.step + 1
  BY <1>4 DEF ConsoleInv, DashTypeOK, DetailRequest
<1>7. \A g \in Fetch \ {f} : fetches'[g] = fetches[g]
  BY <1>4 DEF ConsoleInv, DashTypeOK
<1>8. ReadsFit(e, r.step + 1)'
  BY <1>5 DEF Read, vars, ReadsFit, RowsFit, VerdictFits, Latest
<1>9. ASSUME NEW g \in Fetch \ {f}, fetches[g] # None
      PROVE  ReadsFit(fetches[g].detail, fetches[g].step)'
  BY <1>7, <1>9 DEF FetchesFit, Read, vars, ReadsFit, RowsFit, VerdictFits, Latest
<1> QED BY <1>6, <1>7, <1>8, <1>9 DEF FetchesFit

\* A step that reads nothing: every request it leaves was there before, with
\* the same detail, or has yet to make its first read.
LEMMA OthersFit ==
  ASSUME TypeOK, TypeOK', RowsStay, ConsoleInv, FetchesFit,
         \A f \in Fetch :
           \/ fetches'[f] = None
           \/ fetches'[f].step = 1
           \/ /\ fetches[f] # None
              /\ fetches'[f].step = fetches[f].step
              /\ fetches'[f].detail = fetches[f].detail
  PROVE  FetchesFit'
<1> SUFFICES ASSUME NEW f \in Fetch, fetches'[f] # None
             PROVE  ReadsFit(fetches[f].detail, fetches[f].step)'
  BY DEF FetchesFit
<1>1. CASE fetches'[f].step = 1
  BY <1>1 DEF ReadsFit
<1>2. CASE /\ fetches[f] # None
           /\ fetches'[f].step = fetches[f].step
           /\ fetches'[f].detail = fetches[f].detail
  <2>1. PICK d \in Detail, n \in Nat : d = fetches[f].detail /\ n = fetches[f].step
    BY <1>2, ReadOrderLen DEF ConsoleInv, DashTypeOK, DetailRequest
  <2>2. ReadsFit(d, n)'
    BY <1>2, <2>1, FitStays DEF FetchesFit
  <2> QED BY <1>2, <2>1, <2>2 DEF ReadsFit, RowsFit, VerdictFits
<1> QED BY <1>1, <1>2

ShownInv == FetchesFit /\ ShownIsConsistent

LEMMA ShowFits ==
  ASSUME TypeOK, TypeOK', RowsStay, ConsoleInv, ShownInv, NEW f \in Fetch, Show(f)
  PROVE  ShownInv'
<1> DEFINE d    == fetches[f].detail
           left == [fetches EXCEPT ![f] = None]
<1>1. fetches[f].step = 4 /\ ReadsFit(d, 4) /\ shown' = d
  BY ReadOrderLen
  DEF Show, Complete, ConsoleInv, DashTypeOK, DetailRequest, ShownInv, FetchesFit
<1>2. ShownIsConsistent'
  BY <1>1 DEF ShownIsConsistent, Consistent, ReadsFit, VerdictFits, Waiting
<1>3. \A g \in Fetch : fetches'[g] \in {left[g], Let(left[g])}
  BY DEF Show, Mount, Update, ConsoleInv, DashTypeOK
<1>4. \A g \in Fetch : left[g] = None \/ (left[g] = fetches[g] /\ fetches[g] \in DetailRequest)
  BY DEF ConsoleInv, DashTypeOK
<1> HIDE DEF left
<1>5. ASSUME NEW g \in Fetch, fetches'[g] # None
      PROVE  /\ fetches[g] # None
             /\ fetches'[g].step = fetches[g].step
             /\ fetches'[g].detail = fetches[g].detail
  <2>1. left[g] # None
    BY <1>3, <1>5 DEF Let
  <2>2. left[g] = fetches[g] /\ fetches[g] \in DetailRequest
    BY <1>4, <2>1
  <2> QED BY <1>3, <2>1, <2>2 DEF Let, DetailRequest
<1>6. FetchesFit'
  BY <1>5, OthersFit DEF ShownInv
<1> QED BY <1>2, <1>6 DEF ShownInv

LEMMA ShownStep ==
  ASSUME TablesInv, TypeOK', ConsoleInv, ShownInv, [DashNext]_dvars
  PROVE  ShownInv'
<1>1. RowsStay
  BY DashStepRefines, StepKeepsRows DEF TablesInv
<1>2. TypeOK /\ FetchesFit /\ ShownIsConsistent
  BY DEF TablesInv, ShownInv
<1>3. ASSUME NEW f \in Fetch, Read(f) PROVE ShownInv'
  BY <1>2, <1>3, ReadFits DEF Read, ShownInv, ShownIsConsistent, Consistent
<1>4. ASSUME NEW f \in Fetch, Show(f) PROVE ShownInv'
  BY <1>1, <1>2, <1>4, ShowFits
<1>5. ASSUME shown' \in {shown, None},
             \A f \in Fetch : fetches'[f] \in {fetches[f], None} \/ fetches'[f].step = 1
      PROVE  ShownInv'
  <2>1. FetchesFit'
    BY <1>1, <1>2, <1>5, OthersFit
  <2>2. ShownIsConsistent'
    BY <1>2, <1>5 DEF ShownIsConsistent, Consistent
  <2> QED BY <2>1, <2>2 DEF ShownInv
<1>6. ASSUME NEW f \in Fetch, NEW t, NEW holds, Ask(f, t, holds)
      PROVE  \A g \in Fetch : fetches'[g] = fetches[g] \/ fetches'[g].step = 1
  BY <1>6 DEF Ask, ConsoleInv, DashTypeOK
<1>7. ASSUME NEW t \in Ticket, NEW f \in Fetch, Select(t, f) PROVE ShownInv'
  BY <1>5, <1>6, <1>7 DEF Select
<1>8. ASSUME NEW w \in Worker, NEW f \in Fetch, Answered(w, f) PROVE ShownInv'
  BY <1>5, <1>6, <1>8 DEF Answered
<1>9. CASE Reload
  BY <1>5, <1>9 DEF Reload
<1>10. ASSUME NEW f \in Fetch, FetchFails(f) PROVE ShownInv'
  BY <1>5, <1>10 DEF FetchFails, ConsoleInv, DashTypeOK
<1>11. ASSUME UNCHANGED <<shown, fetches>> PROVE ShownInv'
  BY <1>5, <1>11
<1> QED
  BY <1>3, <1>4, <1>7, <1>8, <1>9, <1>10, <1>11
     DEF DashNext, AloneNext, ConsoleStep, ReviewerStep, ServerStep, OthersStep,
         ConsoleFault, consoleVars, dvars, EditText, EditSelects, Confirm, Approve,
         Reject, Click, PostFails

\* A detail at a checkpoint shows what there is to decide about, for any
\* number of requests between the reads it was put together from: the labels
\* come with their classification, and Checkpoint 2 with a draft.
THEOREM ReviewersSeeTheWhole == DashSpec => []ShownIsConsistent
<1>1. DashInit => TypeOK /\ ConsoleInv /\ ShownInv
  BY TypeInit, DashInitInv
  DEF DashInit, ShownInv, FetchesFit, ShownIsConsistent
<1>2. ShownInv => ShownIsConsistent
  BY DEF ShownInv
<1>3. DashSpec => []TablesInv
  <2>1. TypeOK /\ ExclusiveDriver /\ VerdictInv /\ RepliedInv => TablesInv
    BY DEF TablesInv
  <2> QED
    BY <2>1, ConsoleIsAClient, TypeCorrect, DriverIsExclusive, VerdictHolds,
       RepliedHolds, PTL
<1>4. TablesInv => TypeOK
  BY DEF TablesInv
<1> QED
  BY <1>1, <1>2, <1>3, <1>4, DashStepInv, ShownStep, PTL DEF DashSpec

-----------------------------------------------------------------------------
(***************************************************************************)
(* The buttons.  That they come back is a matter of fairness and is left   *)
(* to TLC; that a handler holds them for a bounded number of steps, and    *)
(* that no two handlers of a component run at a time, is proved here.      *)
(***************************************************************************)
HeldByFetch(f) == fetches[f] # None /\ fetches[f].holds

HeldByPost(w) == posts[w] # None /\ posts[w].holds

\* The buttons are held by one handler, which is about the ticket mounted.
OneHandler ==
  /\ \A f, g \in Fetch : HeldByFetch(f) /\ HeldByFetch(g) => f = g
  /\ \A v, w \in Worker : HeldByPost(v) /\ HeldByPost(w) => v = w
  /\ \A f \in Fetch, w \in Worker : ~(HeldByFetch(f) /\ HeldByPost(w))
  /\ \A w \in Worker :
       HeldByPost(w) /\ pc[w] \notin Free => pc[w] # "insert" /\ T(w) = shown.ticket

\* A component that is mounted has no handler running.
LEMMA MountLetsGo ==
  ASSUME ConsoleInv, NEW d, NEW left, Mount(d, left),
         left \in [Fetch -> DetailRequest \cup {None}]
  PROVE  ~Busy'
<1>1. /\ \A f \in Fetch  : left[f] \in DetailRequest \cup {None}
      /\ \A w \in Worker : posts[w] \in Post \cup {None}
  BY DEF ConsoleInv, DashTypeOK
<1>2. ASSUME NEW r \in DetailRequest \cup Post \cup {None}
      PROVE  Let(r) = None \/ ~Let(r).holds
  BY <1>2 DEF Let, DetailRequest, Post
<1>3. /\ \A f \in Fetch  : fetches'[f] = None \/ ~fetches'[f].holds
      /\ \A w \in Worker : posts'[w] = None \/ ~posts'[w].holds
  BY <1>1, <1>2 DEF Mount
<1> QED
  BY <1>3 DEF Busy

LEMMA NobodyHolds ==
  ASSUME ~Busy'
  PROVE  OneHandler'
BY DEF Busy, OneHandler, HeldByFetch, HeldByPost

LEMMA ShowHolds ==
  ASSUME ConsoleInv, OneHandler, NEW f \in Fetch, Show(f)
  PROVE  /\ OneHandler'
         /\ HeldByFetch(f) => ~Busy'
         /\ ~Busy' \/ (posts' = posts /\ fetches' = [fetches EXCEPT ![f] = None])
<1> DEFINE d    == fetches[f].detail
           left == [fetches EXCEPT ![f] = None]
<1>1. left \in [Fetch -> DetailRequest \cup {None}]
  BY DEF ConsoleInv, DashTypeOK
<1>2. CASE Mount(d, left)
  BY <1>1, <1>2, MountLetsGo, NobodyHolds
<1>3. CASE Mounted(d) /\ Update(d, left)
  <2>1. /\ posts' = posts /\ fetches' = left /\ UNCHANGED vars
        /\ shown'.ticket = shown.ticket
    BY <1>3 DEF Show, Update, Mounted
  <2>2. \A g \in Fetch : HeldByFetch(g)' => HeldByFetch(g) /\ g # f
    BY <2>1 DEF HeldByFetch, ConsoleInv, DashTypeOK
  <2>3. \A w \in Worker : HeldByPost(w)' <=> HeldByPost(w)
    BY <2>1 DEF HeldByPost
  <2>4. OneHandler'
    BY <2>1, <2>2, <2>3 DEF OneHandler, T, vars
  <2>5. HeldByFetch(f) => ~Busy'
    BY <2>1, <2>2, <2>3 DEF OneHandler, Busy, HeldByFetch, HeldByPost
  <2> QED
    BY <2>1, <2>4, <2>5
<1> QED
  BY <1>2, <1>3 DEF Show

LEMMA ReadHolds ==
  ASSUME ConsoleInv, OneHandler, NEW f \in Fetch, Read(f)
  PROVE  /\ OneHandler'
         /\ \A g \in Fetch \ {f} : fetches'[g] = fetches[g]
         /\ HeldByFetch(f) => ~Busy' \/ HeldByFetch(f)'
         /\ fetches'[f].step = fetches[f].step + 1
<1>1. /\ fetches \in [Fetch -> DetailRequest \cup {None}]
      /\ fetches[f] \in DetailRequest
      /\ UNCHANGED <<vars, shown, posts>>
  BY DEF Read, ConsoleInv, DashTypeOK
<1>2. PICK d : fetches' = [fetches EXCEPT ![f].step = @ + 1, ![f].detail = d]
  BY DEF Read
<1>3. /\ fetches'[f].holds = fetches[f].holds /\ fetches'[f].step = fetches[f].step + 1
      /\ \A g \in Fetch \ {f} : fetches'[g] = fetches[g]
  BY <1>1, <1>2 DEF DetailRequest
<1>4. /\ \A g \in Fetch  : HeldByFetch(g)' => HeldByFetch(g)
      /\ \A w \in Worker : HeldByPost(w)' <=> HeldByPost(w)
  BY <1>1, <1>3 DEF Read, HeldByFetch, HeldByPost
<1>5. OneHandler'
  BY <1>1, <1>4 DEF OneHandler, T, vars
<1>6. HeldByFetch(f) => ~Busy' \/ HeldByFetch(f)'
  BY <1>3, <1>4 DEF OneHandler, Busy, HeldByFetch, HeldByPost
<1> QED
  BY <1>3, <1>5, <1>6

\* A decision that is served stays a decision about the same ticket.
LEMMA DecisionGoesOn ==
  ASSUME TypeOK, NEW w \in Worker, Serve(w), pc[w] # "insert"
  PROVE  pc'[w] # "insert" /\ (pc'[w] \notin Free => T(w)' = T(w))
<1>1. pc \in [Worker -> Step] /\ job \in [Worker -> Job]
  BY DEF TypeOK
<1>2. ASSUME NEW l \in Step \ {"insert"}, Goto(w, l)
      PROVE  pc'[w] # "insert" /\ (pc'[w] \notin Free => T(w)' = T(w))
  BY <1>1, <1>2 DEF Goto, Carry, T
<1>3. ASSUME NEW from, NEW to, NEW actor, NEW set, NEW x,
             NEW next \in Step \ {"insert"}, Apply(w, from, to, actor, set, x, next)
      PROVE  pc'[w] # "insert" /\ (pc'[w] \notin Free => T(w)' = T(w))
  BY <1>2, <1>3 DEF Apply, Step, Free
<1> USE DEF Step, Free, ClassifySteps, DraftSteps, ApproveSteps, RejectSteps
<1>4. CASE CreateTicket(w)
  BY <1>4 DEF CreateTicket, At
<1>5. CASE Classify(w)
  <2>1. ASSUME NEW v \in Verdict,
               Carry(w, "saveClassification", [job[w] EXCEPT !.verdict = v])
        PROVE  pc'[w] # "insert" /\ T(w)' = T(w)
    BY <1>1, <2>1 DEF Carry, T, Job
  <2> QED
    BY <1>2, <1>5, <2>1 DEF Classify
<1>6. CASE ReadExisting(w) \/ RecordClassification(w) \/ SendAlert(w) \/ RecordDraft(w)
             \/ FinalizeApproved(w) \/ FinalizeRejected(w)
  BY <1>2, <1>6 DEF ReadExisting, RecordClassification, SendAlert, RecordDraft,
                    FinalizeApproved, FinalizeRejected
<1>7. CASE DraftReply(w)
  BY <1>1, <1>7 DEF DraftReply, Goto, Carry, T, Job
<1>8. CASE ClaimNew(w) \/ ParkOnError(w) \/ ParkForReview(w) \/ AutoRoute(w)
             \/ StartDraft(w) \/ ParkReply(w) \/ Resolve(w) \/ Redraft(w)
  BY <1>3, <1>8 DEF ClaimNew, ParkOnError, ParkForReview, AutoRoute, StartDraft,
                    ParkReply, Resolve, Redraft
<1> QED
  BY <1>4, <1>5, <1>6, <1>7, <1>8 DEF Serve

\* The steps that a handler may still need: those of its decision, its
\* answer, the reads of the detail, and showing it.
HandlerLeft(n) ==
  \/ \E f \in Fetch  : HeldByFetch(f) /\ n = Len(ReadOrder) + 2 - fetches[f].step
  \/ \E w \in Worker : HeldByPost(w)  /\ n = Len(ReadOrder) + 2 + StepsLeft(pc[w])

\* The steps that it waits for.
HandlerStep ==
  \/ \E f \in Fetch  : HeldByFetch(f) /\ (Read(f) \/ Show(f))
  \/ \E w \in Worker : /\ HeldByPost(w)
                       /\ \/ Serve(w) /\ UNCHANGED consoleVars
                          \/ \E f \in Fetch : Answered(w, f)

\* A step keeps to what is left, and one that the handler waits for takes
\* from it.
WindsDown ==
  \A n \in Nat : HandlerLeft(n) =>
    ~Busy' \/ \E m \in Nat : HandlerLeft(m)' /\ m <= n /\ (HandlerStep => m < n)

\* The same, said of the one request that holds the buttons.
FetchWinds(f) ==
  HeldByFetch(f)' /\ fetches'[f].step >= fetches[f].step

PostWinds(w) ==
  \/ HeldByPost(w)' /\ StepsLeft(pc'[w]) <= StepsLeft(pc[w])
  \/ \E f \in Fetch : HeldByFetch(f)' /\ fetches'[f].step = 1

Winds ==
  \/ ~Busy'
  \/ /\ \A f \in Fetch  : HeldByFetch(f) => FetchWinds(f)
     /\ \A w \in Worker : HeldByPost(w)  => PostWinds(w)

LEMMA StepsLeftType ==
  ASSUME NEW l
  PROVE  StepsLeft(l) \in 0 .. 9
BY DEF StepsLeft

\* A step that leaves the requests of the handler alone.
LEMMA StillWinds ==
  ASSUME ConsoleInv, posts' = posts, pc' = pc,
         \A f \in Fetch : HeldByFetch(f) => fetches'[f] = fetches[f]
  PROVE  Winds
<1>1. ASSUME NEW f \in Fetch, HeldByFetch(f) PROVE FetchWinds(f)
  <2>1. fetches[f] \in DetailRequest
    BY <1>1 DEF HeldByFetch, ConsoleInv, DashTypeOK
  <2> QED
    BY <1>1, <2>1 DEF HeldByFetch, FetchWinds, DetailRequest
<1>2. ASSUME NEW w \in Worker, HeldByPost(w) PROVE PostWinds(w)
  BY <1>2, StepsLeftType DEF HeldByPost, PostWinds
<1> QED
  BY <1>1, <1>2 DEF Winds

LEMMA ShowWinds ==
  ASSUME ConsoleInv, OneHandler, NEW f \in Fetch, Show(f)
  PROVE  OneHandler' /\ Winds
<1>1. CASE ~Busy'
  BY <1>1, NobodyHolds DEF Winds
<1>2. CASE Busy'
  <2>1. /\ OneHandler' /\ ~HeldByFetch(f) /\ pc' = pc
        /\ posts' = posts /\ fetches' = [fetches EXCEPT ![f] = None]
    BY <1>2, ShowHolds DEF Show, vars
  <2>2. \A g \in Fetch : HeldByFetch(g) => fetches'[g] = fetches[g]
    BY <2>1 DEF ConsoleInv, DashTypeOK
  <2> QED
    BY <2>1, <2>2, StillWinds
<1> QED
  BY <1>1, <1>2

LEMMA ReadWinds ==
  ASSUME ConsoleInv, OneHandler, NEW f \in Fetch, Read(f)
  PROVE  OneHandler' /\ Winds
<1>1. fetches[f] \in DetailRequest /\ posts' = posts /\ pc' = pc
  BY DEF Read, ConsoleInv, DashTypeOK, vars
<1>2. CASE HeldByFetch(f)
  <2>1. ~Busy' \/ FetchWinds(f)
    BY <1>1, <1>2, ReadHolds DEF FetchWinds, DetailRequest
  <2>2. /\ \A g \in Fetch  : HeldByFetch(g) => g = f
        /\ \A w \in Worker : ~HeldByPost(w)
    BY <1>2 DEF OneHandler
  <2> QED
    BY <2>1, <2>2, ReadHolds DEF Winds
<1>3. CASE ~HeldByFetch(f)
  BY <1>1, <1>3, ReadHolds, StillWinds
<1> QED
  BY <1>2, <1>3

\* The answer of a decision hands the buttons on to the fetch that follows.
LEMMA AnsweredWinds ==
  ASSUME ConsoleInv, OneHandler, NEW w \in Worker, NEW f \in Fetch, Answered(w, f)
  PROVE  OneHandler' /\ Winds
<1>1. /\ fetches \in [Fetch -> DetailRequest \cup {None}]
      /\ posts \in [Worker -> Post \cup {None}] /\ posts[w] \in Post
      /\ UNCHANGED <<vars, shown>>
  BY DEF Answered, ConsoleInv, DashTypeOK
<1>2. \A v \in Worker : IF v = w THEN ~HeldByPost(v)' ELSE posts'[v] = posts[v]
  BY <1>1 DEF Answered, HeldByPost
<1>3. CASE fetches' = fetches
  <2>1. OneHandler'
    BY <1>1, <1>2, <1>3 DEF OneHandler, HeldByFetch, HeldByPost, T, vars
  <2>2. CASE HeldByPost(w)
    BY <1>2, <1>3, <2>2 DEF OneHandler, Winds, Busy, HeldByFetch, HeldByPost
  <2>3. CASE ~HeldByPost(w)
    <3>1. \A v \in Worker : HeldByPost(v) => PostWinds(v)
      BY <1>1, <1>2, <2>3, StepsLeftType DEF HeldByPost, PostWinds, vars
    <3>2. \A g \in Fetch : HeldByFetch(g) => FetchWinds(g)
      BY <1>1, <1>3 DEF HeldByFetch, FetchWinds, DetailRequest
    <3> QED
      BY <2>1, <3>1, <3>2 DEF Winds
  <2> QED
    BY <2>1, <2>2, <2>3
<1>4. CASE Ask(f, posts[w].refetch, posts[w].holds)
  <2>1. /\ fetches[f] = None
        /\ fetches'[f].step = 1 /\ fetches'[f].holds = posts[w].holds
        /\ \A g \in Fetch \ {f} : fetches'[g] = fetches[g]
    BY <1>1, <1>4 DEF Ask
  <2>2. /\ \A g \in Fetch : HeldByFetch(g)' => HeldByFetch(g) \/ (g = f /\ HeldByPost(w))
        /\ \A v \in Worker : HeldByPost(v)' => HeldByPost(v) /\ v # w
    BY <1>1, <1>2, <2>1 DEF Answered, HeldByFetch, HeldByPost, Post
  <2>3. OneHandler'
    BY <1>1, <2>2 DEF OneHandler, T, vars
  <2>4. CASE HeldByPost(w)
    <3>1. /\ \A v \in Worker : HeldByPost(v) => v = w
          /\ \A g \in Fetch : ~HeldByFetch(g)
      BY <2>4 DEF OneHandler
    <3>2. HeldByFetch(f)' \/ ~Busy'
      BY <2>2, <3>1 DEF Busy, HeldByFetch, HeldByPost
    <3> QED
      BY <2>1, <2>3, <3>1, <3>2 DEF Winds, PostWinds
  <2>5. CASE ~HeldByPost(w)
    <3>1. \A v \in Worker : HeldByPost(v) => PostWinds(v)
      BY <1>1, <1>2, <2>5, StepsLeftType DEF HeldByPost, PostWinds, vars
    <3>2. \A g \in Fetch : HeldByFetch(g) => FetchWinds(g)
      BY <1>1, <2>1 DEF HeldByFetch, FetchWinds, DetailRequest
    <3> QED
      BY <2>3, <3>1, <3>2 DEF Winds
  <2> QED
    BY <2>4, <2>5
<1> QED
  BY <1>3, <1>4 DEF Answered

LEMMA SelectWinds ==
  ASSUME ConsoleInv, OneHandler, NEW t \in Ticket, NEW f \in Fetch, Select(t, f)
  PROVE  OneHandler' /\ Winds
<1>1. /\ fetches \in [Fetch -> DetailRequest \cup {None}] /\ fetches[f] = None
      /\ UNCHANGED <<vars, shown, posts>>
  BY DEF Select, Ask, ConsoleInv, DashTypeOK
<1>2. fetches'[f].holds = FALSE /\ \A g \in Fetch \ {f} : fetches'[g] = fetches[g]
  BY <1>1 DEF Select, Ask
<1>3. /\ \A g \in Fetch  : HeldByFetch(g)' <=> HeldByFetch(g)
      /\ \A w \in Worker : HeldByPost(w)' <=> HeldByPost(w)
  BY <1>1, <1>2 DEF HeldByFetch, HeldByPost
<1>4. OneHandler'
  BY <1>1, <1>3 DEF OneHandler, T, vars
<1>5. Winds
  BY <1>1, <1>2, StillWinds DEF HeldByFetch, vars
<1> QED
  BY <1>4, <1>5

LEMMA ClickWinds ==
  ASSUME TypeOK, ConsoleInv, OneHandler, NEW w \in Worker,
         Confirm(w) \/ Approve(w) \/ Reject(w)
  PROVE  OneHandler' /\ Winds
<1>1. /\ ~Busy /\ Click(w) /\ shown' = shown /\ fetches' = fetches
      /\ posts \in [Worker -> Post \cup {None}]
  BY DEF Confirm, Approve, Reject, Click, ConsoleInv, DashTypeOK
<1>2. \A v \in Worker \ {w} : posts'[v] = posts[v]
  BY <1>1 DEF Click
<1>3. /\ \A f \in Fetch : ~HeldByFetch(f) /\ ~HeldByFetch(f)'
      /\ \A v \in Worker : ~HeldByPost(v) /\ (HeldByPost(v)' => v = w)
  BY <1>1, <1>2 DEF Busy, HeldByFetch, HeldByPost
<1>4. pc'[w] \notin Free => pc'[w] # "insert" /\ T(w)' = shown.ticket
  <2>1. pc \in [Worker -> Step] /\ job \in [Worker -> Job]
    BY DEF TypeOK
  <2>2. ASSUME NEW l \in Step, NEW j, Carry(w, l, j), j.ticket = shown.ticket,
               l # "insert"
        PROVE  pc'[w] # "insert" /\ (pc'[w] \notin Free => T(w)' = shown.ticket)
    BY <2>1, <2>2 DEF Carry, T
  <2>3. Goto(w, "failed") => pc'[w] \in Free
    BY <2>1 DEF Goto, Carry, Free
  <2>4. ASSUME NEW x, NEW next \in {"finalizeApproved", "finalizeRejected"},
               BeginDecision(w, shown.ticket, x, next)
        PROVE  pc'[w] \notin Free => pc'[w] # "insert" /\ T(w)' = shown.ticket
    <3>1. [NoJob EXCEPT !.ticket = shown.ticket, !.text = x,
                        !.reply = LatestReplyID(shown.ticket)].ticket = shown.ticket
      BY DEF NoJob
    <3>2. next \in Step /\ next # "insert"
      BY DEF Step, ApproveSteps, RejectSteps
    <3> QED
      BY <2>2, <2>3, <2>4, <3>1, <3>2 DEF BeginDecision
  <2>5. CASE Confirm(w)
    <3>1. [NoJob EXCEPT !.ticket = shown.ticket].ticket = shown.ticket
      BY DEF NoJob
    <3> QED
      BY <2>2, <2>3, <2>5, <3>1 DEF Confirm, ReviewClassification, Step
  <2>6. CASE Approve(w) \/ Reject(w)
    BY <2>3, <2>4, <2>6 DEF Approve, ApproveReply, Reject, RejectReply
  <2> QED
    BY <2>5, <2>6
<1>5. OneHandler'
  BY <1>1, <1>3, <1>4 DEF OneHandler
<1> QED
  BY <1>3, <1>5 DEF Winds

\* Faults of the console, and what the reviewer types.
LEMMA FieldsWind ==
  ASSUME ConsoleInv, OneHandler,
         \/ \E x \in Text \cup {Blank} : EditText(x)
         \/ \E d \in Decision \cap Labels : EditSelects(d)
  PROVE  OneHandler' /\ Winds
<1>1. UNCHANGED <<vars, shown, fetches, posts>>
  BY DEF EditText, EditSelects
<1> QED
  BY <1>1, StillWinds DEF OneHandler, HeldByFetch, HeldByPost, T, vars

LEMMA FailureWinds ==
  ASSUME ConsoleInv, OneHandler,
         (\E f \in Fetch : FetchFails(f)) \/ (\E w \in Worker : PostFails(w))
  PROVE  OneHandler' /\ Winds
<1>1. /\ fetches \in [Fetch -> DetailRequest \cup {None}]
      /\ posts \in [Worker -> Post \cup {None}]
      /\ UNCHANGED <<vars, shown>>
  BY DEF FetchFails, PostFails, ConsoleInv, DashTypeOK
<1>2. ASSUME NEW f \in Fetch, FetchFails(f) PROVE OneHandler' /\ Winds
  <2>1. \A g \in Fetch : IF g = f THEN ~HeldByFetch(g)' ELSE fetches'[g] = fetches[g]
    BY <1>1, <1>2 DEF FetchFails, HeldByFetch
  <2>2. \A w \in Worker : HeldByPost(w)' <=> HeldByPost(w)
    BY <1>2 DEF FetchFails, HeldByPost
  <2>3. OneHandler'
    BY <1>1, <2>1, <2>2 DEF OneHandler, HeldByFetch, T, vars
  <2>4. CASE HeldByFetch(f)
    BY <2>1, <2>2, <2>3, <2>4 DEF OneHandler, Winds, Busy, HeldByFetch, HeldByPost
  <2>5. CASE ~HeldByFetch(f)
    BY <1>1, <1>2, <2>1, <2>3, <2>5, StillWinds DEF FetchFails, vars
  <2> QED
    BY <2>4, <2>5
<1>3. ASSUME NEW w \in Worker, PostFails(w) PROVE OneHandler' /\ Winds
  <2>1. \A v \in Worker : IF v = w THEN ~HeldByPost(v)' ELSE posts'[v] = posts[v]
    BY <1>1, <1>3 DEF PostFails, HeldByPost
  <2>2. \A f \in Fetch : fetches'[f] = fetches[f]
    BY <1>3 DEF PostFails
  <2>3. OneHandler'
    BY <1>1, <2>1, <2>2 DEF OneHandler, HeldByFetch, HeldByPost, T, vars
  <2>4. CASE HeldByPost(w)
    BY <2>1, <2>2, <2>3, <2>4 DEF OneHandler, Winds, Busy, HeldByFetch, HeldByPost
  <2>5. CASE ~HeldByPost(w)
    <3>1. \A v \in Worker : HeldByPost(v) => PostWinds(v)
      BY <1>1, <2>1, <2>5, StepsLeftType DEF HeldByPost, PostWinds, vars
    <3>2. \A g \in Fetch : HeldByFetch(g) => FetchWinds(g)
      BY <1>1, <2>2 DEF HeldByFetch, FetchWinds, DetailRequest
    <3> QED
      BY <2>3, <3>1, <3>2 DEF Winds
  <2> QED
    BY <2>4, <2>5
<1> QED
  BY <1>2, <1>3

\* What the server does serves the handler or leaves it alone: nobody else's
\* request is put to a worker that has not answered the console.
LEMMA ServerWinds ==
  ASSUME TypeOK, ConsoleInv, OneHandler, UNCHANGED consoleVars,
         \/ \E w \in Worker : Serve(w) \/ (posts[w] = None /\ Request(w))
         \/ Fault
  PROVE  OneHandler' /\ Winds
<1>1. pc \in [Worker -> Step] /\ job \in [Worker -> Job]
  BY DEF TypeOK
<1>2. /\ \A f \in Fetch  : HeldByFetch(f)' <=> HeldByFetch(f)
      /\ \A w \in Worker : HeldByPost(w)' <=> HeldByPost(w)
      /\ shown' = shown
  BY DEF consoleVars, HeldByFetch, HeldByPost
<1>3. ASSUME NEW v \in Worker, HeldByPost(v)
      PROVE  /\ StepsLeft(pc'[v]) <= StepsLeft(pc[v])
             /\ pc'[v] \notin Free =>
                  pc[v] \notin Free /\ pc'[v] # "insert" /\ T(v)' = T(v)
  <2>1. /\ posts[v] # None
        /\ pc[v] \notin Free => pc[v] # "insert"
        /\ StepsLeft(pc[v]) \in 0 .. 9
    BY <1>3, StepsLeftType DEF HeldByPost, OneHandler
  <2>2. CASE Serve(v)
    <3>1. StepsLeft(pc'[v]) < StepsLeft(pc[v]) /\ StepsLeft(pc'[v]) \in 0 .. 9
      BY <2>2, ServeShortens, StepsLeftType DEF Shortens
    <3>2. pc[v] \notin Free
      BY <2>1, <3>1, StepsInOrder DEF Free
    <3>3. pc'[v] # "insert" /\ (pc'[v] \notin Free => T(v)' = T(v))
      BY <2>1, <2>2, <3>2, DecisionGoesOn
    <3> QED
      BY <2>1, <3>1, <3>2, <3>3
  <2>3. CASE Crash \/ SkipAlert(v) \/ Interrupt(v)
    <3>1. pc'[v] \in Free
      BY <1>1, <2>3 DEF Crash, SkipAlert, Interrupt, Goto, Carry, Free
    <3> QED
      BY <2>1, <3>1, StepsInOrder DEF Free
  <2>4. ASSUME NEW w \in Worker \ {v}, Request(w) \/ Serve(w) \/ SkipAlert(w) \/ Interrupt(w)
        PROVE  pc'[v] = pc[v] /\ job'[v] = job[v]
    BY <2>4, OneAtATime
  <2>5. CASE pc'[v] = pc[v] /\ job'[v] = job[v]
    BY <2>1, <2>5 DEF T
  <2>6. \/ Serve(v) \/ Crash \/ SkipAlert(v) \/ Interrupt(v)
        \/ \E w \in Worker \ {v} : Request(w) \/ Serve(w) \/ SkipAlert(w) \/ Interrupt(w)
    BY <2>1 DEF Fault
  <2> QED
    BY <2>2, <2>3, <2>4, <2>5, <2>6
<1>4. OneHandler'
  BY <1>2, <1>3 DEF OneHandler
<1>5. ASSUME NEW f \in Fetch, HeldByFetch(f) PROVE FetchWinds(f)
  <2>1. fetches[f] \in DetailRequest /\ fetches' = fetches
    BY <1>5 DEF HeldByFetch, ConsoleInv, DashTypeOK, consoleVars
  <2> QED
    BY <1>2, <1>5, <2>1 DEF FetchWinds, DetailRequest
<1>6. ASSUME NEW w \in Worker, HeldByPost(w) PROVE PostWinds(w)
  BY <1>2, <1>3, <1>6 DEF PostWinds
<1> QED
  BY <1>4, <1>5, <1>6 DEF Winds

LEMMA DashWinds ==
  ASSUME TypeOK, ConsoleInv, OneHandler, DashNext
  PROVE  OneHandler' /\ Winds
<1>1. CASE ConsoleStep
  BY <1>1, ShowWinds, ReadWinds, AnsweredWinds DEF ConsoleStep
<1>2. CASE Reload
  BY <1>2, NobodyHolds DEF Reload, Busy, Winds
<1>3. CASE ReviewerStep
  BY <1>2, <1>3, SelectWinds, FieldsWind, ClickWinds DEF ReviewerStep
<1>4. CASE ServerStep \/ OthersStep \/ (Fault /\ UNCHANGED consoleVars)
  BY <1>4, ServerWinds DEF ServerStep, OthersStep, Request
<1>5. CASE ConsoleFault
  BY <1>4, <1>5, FailureWinds DEF ConsoleFault
<1> QED
  BY <1>1, <1>3, <1>4, <1>5 DEF DashNext, AloneNext

\* The buttons of a component are held by one handler at a time, and the
\* decision that it sent is about the ticket that is shown.
THEOREM OneHandlerAtATime == DashSpec => []OneHandler
<1>1. DashInit => TypeOK /\ ConsoleInv /\ OneHandler
  BY TypeInit, DashInitInv DEF DashInit, OneHandler, HeldByFetch, HeldByPost
<1>2. ASSUME TypeOK, ConsoleInv, OneHandler, UNCHANGED dvars PROVE OneHandler'
  BY <1>2 DEF OneHandler, HeldByFetch, HeldByPost, T, dvars, vars, consoleVars
<1>3. TypeOK /\ ConsoleInv /\ OneHandler /\ [DashNext]_dvars => OneHandler'
  BY <1>2, DashWinds
<1> QED
  BY <1>1, <1>3, DashStepInv, PTL DEF DashSpec

\* The one request that holds the buttons, and what it has left.
LEMMA HandlerHasLeft ==
  ASSUME ConsoleInv
  PROVE  /\ \A f \in Fetch : HeldByFetch(f) =>
              Len(ReadOrder) + 2 - fetches[f].step \in 1 .. 4
         /\ \A w \in Worker : HeldByPost(w) =>
              Len(ReadOrder) + 2 + StepsLeft(pc[w]) \in 5 .. 14
<1>1. ASSUME NEW f \in Fetch, HeldByFetch(f) PROVE fetches[f].step \in 1 .. 4
  BY <1>1, ReadOrderLen DEF HeldByFetch, ConsoleInv, DashTypeOK, DetailRequest
<1> QED
  BY <1>1, StepsLeftType, ReadOrderLen

\* A step that the handler waits for brings it on.
LEMMA HandlerStepWinds ==
  ASSUME TypeOK, ConsoleInv, OneHandler, HandlerStep
  PROVE  \/ ~Busy'
         \/ \E f \in Fetch : /\ HeldByFetch(f) /\ HeldByFetch(f)'
                             /\ fetches'[f].step > fetches[f].step
         \/ \E w \in Worker : /\ HeldByPost(w) /\ HeldByPost(w)'
                              /\ StepsLeft(pc'[w]) < StepsLeft(pc[w])
         \/ \E w \in Worker, f \in Fetch : /\ HeldByPost(w) /\ HeldByFetch(f)'
                                           /\ fetches'[f].step = 1
<1>1. ASSUME NEW f \in Fetch, HeldByFetch(f), Show(f) PROVE ~Busy'
  BY <1>1, ShowHolds
<1>2. ASSUME NEW f \in Fetch, HeldByFetch(f), Read(f)
      PROVE  ~Busy' \/ (HeldByFetch(f)' /\ fetches'[f].step > fetches[f].step)
  <2>1. fetches[f] \in DetailRequest
    BY <1>2 DEF HeldByFetch, ConsoleInv, DashTypeOK
  <2> QED
    BY <1>2, <2>1, ReadHolds, ReadOrderLen DEF DetailRequest
<1>3. ASSUME NEW w \in Worker, HeldByPost(w), Serve(w), UNCHANGED consoleVars
      PROVE  HeldByPost(w)' /\ StepsLeft(pc'[w]) < StepsLeft(pc[w])
  BY <1>3, ServeShortens DEF Shortens, HeldByPost, consoleVars
<1>4. ASSUME NEW w \in Worker, NEW f \in Fetch, HeldByPost(w), Answered(w, f)
      PROVE  ~Busy' \/ \E g \in Fetch : HeldByFetch(g)' /\ fetches'[g].step = 1
  <2>1. posts'[w] = None
    BY <1>4 DEF Answered, ConsoleInv, DashTypeOK
  <2> QED
    BY <1>4, <2>1, AnsweredWinds DEF Winds, PostWinds, HeldByPost
<1> QED
  BY <1>1, <1>2, <1>3, <1>4 DEF HandlerStep

\* A handler that holds the buttons has at most fourteen steps left: those of
\* its decision, the answer, the reads of the detail and showing it.  Nothing
\* that other reviewers, other fetches or faults do gives it more, and each
\* step that it waits for is one less; the buttons do not come back only if
\* such a step is never taken.
THEOREM ButtonsWindDown ==
  DashSpec => /\ [](Busy => \E n \in 1 .. 14 : HandlerLeft(n))
              /\ [][WindsDown]_dvars
<1>1. ASSUME ConsoleInv, Busy PROVE \E n \in 1 .. 14 : HandlerLeft(n)
  BY <1>1, HandlerHasLeft DEF Busy, HandlerLeft, HeldByFetch, HeldByPost
<1>2. TypeOK /\ ConsoleInv /\ OneHandler /\ ConsoleInv' /\ [DashNext]_dvars
        => [WindsDown]_dvars
  <2> SUFFICES ASSUME TypeOK, ConsoleInv, OneHandler, ConsoleInv', DashNext,
                      NEW n \in Nat, HandlerLeft(n), Busy'
               PROVE  \E m \in Nat : HandlerLeft(m)' /\ m <= n /\ (HandlerStep => m < n)
    BY DEF WindsDown
  <2>1. Winds
    BY DashWinds
  <2>2. /\ \A f \in Fetch  : HeldByFetch(f)  => fetches[f].step \in 1 .. 4
        /\ \A f \in Fetch  : HeldByFetch(f)' => fetches'[f].step \in 1 .. 4
        /\ \A w \in Worker : StepsLeft(pc[w]) \in 0 .. 9 /\ StepsLeft(pc'[w]) \in 0 .. 9
    BY StepsLeftType, ReadOrderLen
    DEF HeldByFetch, ConsoleInv, DashTypeOK, DetailRequest
  <2>3. ASSUME NEW m \in Nat,
               \/ \E f \in Fetch  : HeldByFetch(f)' /\ m = 5 - fetches'[f].step
               \/ \E w \in Worker : HeldByPost(w)'  /\ m = 5 + StepsLeft(pc'[w]),
               m <= n, HandlerStep => m < n
        PROVE  \E k \in Nat : HandlerLeft(k)' /\ k <= n /\ (HandlerStep => k < n)
    BY <2>2, <2>3, ReadOrderLen DEF HandlerLeft
  <2>4. /\ \A f \in Fetch  : HeldByFetch(f) => n = 5 - fetches[f].step
        /\ \A w \in Worker : HeldByPost(w)  => n = 5 + StepsLeft(pc[w])
    BY <2>2, ReadOrderLen DEF HandlerLeft, OneHandler
  <2>5. ASSUME NEW f \in Fetch, HeldByFetch(f)', 5 - fetches'[f].step <= n,
               HandlerStep => 5 - fetches'[f].step < n
        PROVE  \E k \in Nat : HandlerLeft(k)' /\ k <= n /\ (HandlerStep => k < n)
    <3>1. 5 - fetches'[f].step \in Nat
      BY <2>2, <2>5
    <3> QED
      BY <2>3, <2>5, <3>1
  <2>6. ASSUME NEW w \in Worker, HeldByPost(w)', 5 + StepsLeft(pc'[w]) <= n,
               HandlerStep => 5 + StepsLeft(pc'[w]) < n
        PROVE  \E k \in Nat : HandlerLeft(k)' /\ k <= n /\ (HandlerStep => k < n)
    <3>1. 5 + StepsLeft(pc'[w]) \in Nat
      BY <2>2
    <3> QED
      BY <2>3, <2>6, <3>1
  <2>7. CASE HandlerStep
    <3>1. CASE \E f \in Fetch : /\ HeldByFetch(f) /\ HeldByFetch(f)'
                                /\ fetches'[f].step > fetches[f].step
      BY <2>2, <2>4, <2>5, <3>1
    <3>2. CASE \E w \in Worker : /\ HeldByPost(w) /\ HeldByPost(w)'
                                 /\ StepsLeft(pc'[w]) < StepsLeft(pc[w])
      BY <2>2, <2>4, <2>6, <3>2
    <3>3. CASE \E w \in Worker, f \in Fetch : /\ HeldByPost(w) /\ HeldByFetch(f)'
                                              /\ fetches'[f].step = 1
      BY <2>2, <2>4, <2>5, <3>3
    <3> QED
      BY <2>7, <3>1, <3>2, <3>3, HandlerStepWinds
  <2>8. CASE ~HandlerStep
    <3>1. ASSUME NEW f \in Fetch, HeldByFetch(f), FetchWinds(f)
          PROVE  \E k \in Nat : HandlerLeft(k)' /\ k <= n /\ (HandlerStep => k < n)
      BY <2>2, <2>4, <2>5, <2>8, <3>1 DEF FetchWinds
    <3>2. ASSUME NEW w \in Worker, HeldByPost(w), PostWinds(w)
          PROVE  \E k \in Nat : HandlerLeft(k)' /\ k <= n /\ (HandlerStep => k < n)
      <4>1. CASE HeldByPost(w)' /\ StepsLeft(pc'[w]) <= StepsLeft(pc[w])
        BY <2>2, <2>4, <2>6, <2>8, <3>2, <4>1
      <4>2. CASE \E f \in Fetch : HeldByFetch(f)' /\ fetches'[f].step = 1
        BY <2>2, <2>4, <2>5, <2>8, <3>2, <4>2
      <4> QED
        BY <3>2, <4>1, <4>2 DEF PostWinds
    <3> QED
      BY <2>1, <3>1, <3>2 DEF HandlerLeft, Winds
  <2> QED
    BY <2>7, <2>8
<1>3. DashInit => TypeOK /\ ConsoleInv /\ OneHandler
  BY TypeInit, DashInitInv DEF DashInit, OneHandler, HeldByFetch, HeldByPost
<1>4. ConsoleInv => (Busy => \E n \in 1 .. 14 : HandlerLeft(n))
  BY <1>1
<1> QED
  BY <1>2, <1>3, <1>4, DashStepInv, OneHandlerAtATime, PTL DEF DashSpec

=============================================================================
