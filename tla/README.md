# Autocierge in TLA+

Autocierge is an agent for support email. An email becomes a ticket; a language
model classifies it; a state machine routes it, drafts a reply and stops at two
human checkpoints; every change of state leaves an audit row. These modules
model that system as it is written in `src/`, check it with TLC on small
instances, and prove its main invariants with TLAPS for every value of the
constants.

## 1. The system

```
 mailbox --(IMAP poll)--> IMAP poller --+                    +--> Qwen client --> model endpoint
                                        |                    |        |
 clients --(HTTP)-------> HTTP API -----+--> Orchestrator ---+      tools (read only)
                             |                    |          +--> alerting
 reviewers --(dashboard)-----+                    v
                                              Store (PostgreSQL)
```

Every HTTP request and the poller are goroutines of one process. They share no
memory that changes; they meet in the database only, and the one lock there is
on a ticket is the compare-and-set of `store.Apply`. The work of a request is
done inside the request, under its context: there is no queue and no background
worker.

| Component | State | Operations | What is hard | What makes it correct |
|---|---|---|---|---|
| Orchestrator `internal/orchestrator` | locals of each goroutine | `Ingest`, `ReviewClassification`, `ApproveReply`, `RejectReply` (`runClassify`, `runDraft`, `draftAndPark`) | several goroutines at one ticket; each operation is up to nine store calls, and may be cut short between any two | one driver per ticket, the lifecycle, human gates, no ticket dropped |
| Store `internal/store` | tables tickets, emails, classifications, replies, audit_log, customers | `CreateTicketWithEmail`, `Apply`, `SaveClassification`, `SaveReplyDraft`, `LatestReplyID`, `FinalizeReply`, reads | lookup-then-insert, check-then-set, tables written by separate statements | one ticket per email, audit rows replay, tables agree |
| Domain `internal/domain` | none | taxonomies, `DepartmentForType` | values a model or a human makes up | only values of the taxonomies are stored |
| HTTP API `internal/httpapi` | none | submit, review, reply approval, reads for the dashboard, cookies | requests in any order, on any ticket, with any fields | the guards of the orchestrator hold against all of them |
| Qwen client `internal/qwen` | the conversation of one call | `Classify`, `DraftReply`, `doChatRaw`, `parseClassification` | retries inside tool rounds inside a re-prompt, cancellation | bounded cost, the tool protocol, valid results, it returns |
| Tools and MCP `internal/tools`, `internal/mcp` | none (customers and tickets, read) | look-up of a customer and of similar tickets, in the process or over MCP | arguments decoded three times, a tool that fails far away or in the middle of a turn, rows that lack a label | every call is answered; over MCP as in the process |
| IMAP poller `internal/ingest/imap` | the Seen flags of the mailbox, the batch in hand | `Run`, `pollOnce`, `handleMessage` | at-least-once delivery, bad messages, a crash between flag and insert | no message lost, none handled twice, none blocks another |
| Email parsing `internal/ingest` | the walk over the parts of one message | `ParseRFC822`, `extractBody` | parts in any order, damaged or unreadable anywhere; two adapters that must agree on a key | the best body there is, no message refused for a part, one key per email |
| Alerting `internal/alert` | the position in the loop of `Multi.Alert` | `Alert` (log, Slack, SMTP, fan-out) | best effort, but synchronous, and one call has no deadline | every alerter called once per critical ticket, after it was parked |
| Dashboard `src/frontend`, `httpapi/dashboard.go`, `store/dashboard.go` | selected ticket, its detail, the fields of the form, the queue | refresh, select, edit, decide | answers that arrive out of order or not at all, a detail read in pieces, fields older than the detail | what is shown belongs together, edits survive, the buttons come back |
| Evaluation harness `internal/eval`, `cmd/eval` | the cache file, which outlives a run | record, replay, report, calibration sweep | a recording that fails half-way, a cache of another gold set, boundary cases of a threshold | the cache is all or nothing, the threshold found is the lowest that suffices, the report adds up |
| Start-up and configuration `cmd/server`, `internal/config` | none | wiring, shutdown | what a restart does not take up | see "findings" |
| Fake classifier `internal/classify` | none | keyword table | none | a valid verdict |

## 2. Modules

| Module | Models | Notes |
|---|---|---|
| `Domain` | `domain.go`, the values reviewers may post | constants only |
| `Store` | the tables and each statement that changes them | one operator per statement or transaction |
| `Orchestrator` | the four operations, one action per store call or model call | EXTENDS `Store` |
| `TicketLifecycle` | the abstract specification: states, arrows, who may take them, one history row each | implemented by `Orchestrator` |
| `OrchestratorProperties` | the properties of the two, `TurnsSpec`, the refinement | |
| `MCOrchestrator` | instances for TLC | |
| `ImapPoller` | mailbox and poller beside the other goroutines | EXTENDS `OrchestratorProperties`; its steps are steps of `Orchestrator` |
| `MCImapPoller` | instances for TLC | |
| `Dashboard` | a reviewer's console, and the requests for details that it makes | EXTENDS `OrchestratorProperties`; its decisions are requests of `Orchestrator` |
| `MCDashboard` | instances for TLC | |
| `QwenClient` | one call of `Classify` or `DraftReply` | stands behind the actions `Classify` and `DraftReply` of `Orchestrator` |
| `MCQwenClient` | instances for TLC | |
| `AuditClock` | `Apply` in two steps, with the clock its rows are stamped with, and `AuditLog` | EXTENDS `OrchestratorProperties` |
| `MCAuditClock` | instances for TLC | EXTENDS `MCOrchestrator` too |
| `Alerting` | the alerters inside the goroutines that call them | EXTENDS `ImapPoller`: poller, orchestrator and alerters composed |
| `MCAlerting` | instances for TLC | |
| `EmailParsing` | the walk of `extractBody` and the key of an email | its `parsed.key` is what `KeyOf` of `ImapPoller` stands for |
| `Toolbox` | one tool call, in the process or over MCP | stands behind `InvokeTool` of `QwenClient` |
| `Evaluation` | the evaluation command, its cache and its sweep | |
| `MCSequential` | one instance for these three, which share nothing | |
| `OrchestratorProofs`, `ReviewProofs` | proofs about `Orchestrator` | |
| `AuditClockProofs` | proofs about `AuditClock` | rests on both |
| `QwenClientProofs`, `ImapPollerProofs`, `AlertingProofs`, `DashboardProofs` | proofs about these | `AlertingProofs` rests on the poller's and the review's |
| `SequentialProofs` | proofs about the parser, the tool call and the evaluation | |

### Store

A variable is a table or a group of columns, a function of the ticket id. Rows
of a ticket are a sequence in insertion order; the queries sort by `created_at`,
and a row's position stands for its id. A `NULL`, a nil pointer of a
`Transition` and an empty JSON field are the one value `Unset`, as the Go code
treats them alike (`COALESCE`, `deref`). `None` is "no row" or "no value", and a
ticket id with no row yet is in state `Absent`. Each operator is one step,
because each is a single statement or a transaction that takes the row
`FOR UPDATE` before it reads it. `CreateTicketWithEmail` is the exception: its
lookup takes no lock, so lookup and insert are two actions (`ReceiveEmail`,
`CreateTicket`) and the `UNIQUE` constraint decides the second. Dedupe keys are
never empty: both adapters fall back to a hash of the message, so the branch of
`CreateTicketWithEmail` without a key is not taken.

### Orchestrator

A worker is a goroutine; `pc` is the next step it takes and `job` its locals.
Each action is a store call with the code up to the next one:

| Code | Actions |
|---|---|
| `Ingest` | `ReceiveEmail`, `CreateTicket`, `ReadExisting` |
| `runClassify` | `ClaimNew`, `Classify`, `ParkOnError`, `RecordClassification`, `ParkForReview`, `SendAlert`, `AutoRoute` |
| `runDraft`, `draftAndPark` | `StartDraft`, `DraftReply`, `RecordDraft`, `ParkReply` |
| `ReviewClassification` | `ReviewClassification` (it goes on with `StartDraft`) |
| `ApproveReply` | `ApproveReply`, `FinalizeApproved`, `Resolve` |
| `RejectReply` | `RejectReply`, `FinalizeRejected`, `Redraft` (it goes on with `DraftReply`) |
| any error return, a cancelled context | `Interrupt`; `SkipAlert` for the one error that is only logged |
| kill and restart | `Crash` |

`GetEmail` and the `GetTicket` calls that only fill in immutable data (subject,
body, sender) have no step of their own: nothing they read changes, and their
failure is an `Interrupt` of the same goroutine at the same point. Confidences
are in hundredths, and `Parks` compares them with `ConfidenceThreshold`. Requests
are unconstrained: any ticket, any state, any decision, valid or not.

### Qwen client

`pc` is the place in `doChatRaw` (`send`, `backoff`) or in the tool loop
(`invoke`); `iter` and `attempt` are the two loop variables. An answer is
abstracted to what `parseClassification` finds in it; a text that is not JSON
is an answer with an urgency outside the taxonomy, which the code treats in the
same way. `messages` keeps the role of each message and the tools it names.
Cancellation may come at any step and is then noticed where the code looks:
in the next request, or in the pause between attempts. A request of a cancelled
context fails before it is sent, or while it is under way, which the client
counts as a failed attempt; `requests` counts those that may have been sent.
`ClientStep` is all that the client and the endpoint do, `InvokeTool` a call of
a tool, which may last (see "Fairness").
The model assumes that an endpoint returns tool calls only when tools were
offered; with no ToolBox attached the client would follow a nil pointer.

### IMAP poller

`flag` is the mailbox, which outlives the process; `batch` is what is left of
the last search, and `current` the message in `handleMessage`. `FetchMessage`
is the fetch, the parse (`KeyOf`, an error being `None`) and the first store
call of `Ingest`; from there the poller's worker takes the steps of
`Orchestrator`. The fetch asks for the body section without `Peek`, which is
`BODY[]` on the wire, and a server sets `\Seen` on that fetch (RFC 3501, section
6.4.5); `MarkSeen` sets a flag that is set already. The server is external to
`src/`.

### Dashboard

`selected` and `shown` are the state of `App`, `selects` and `text` that of the
mounted `TicketDetail`; `typed` is history. Requests for details are `fetches`,
at most `Fetch` at a time, and a decision under way is a post of the worker that
serves it. `ticketDetail` reads the ticket, its latest classification and its
latest reply one after the other without a transaction, so each `Read` is a step
of its own, and `Show` renders whatever answer has come. The component has the
ticket's id as its key: another ticket mounts a new one (`Mount` fills every
field, and no handler of it is running), the same ticket keeps it (`Update`
fills the textarea if the draft has another text, as the effect does, and leaves
the drop-downs alone). `Busy` is `busy`: a handler of this component has not
returned. The handler of a click remembers the ticket selected at that time, and
fetches it when the decision has been answered.

Left out: the queue (it is polled all the time; any ticket that exists may be
selected), the refresh of the queue inside `afterAction` (it handles its own
errors), the audit timeline (fetched together with the detail), and the email
(it never changes).

### AuditClock

`Orchestrator` takes `Apply` as one step, as its row lock allows. Its audit row
is stamped with `now()`, though, which is the moment the transaction began, and
that comes before the lock. Here `BeginTx` is the begin and `EndTx` all the rest,
with the `Serve` step of `Orchestrator` inside, so the states and the rows are
the same and `stamps` is added. Time is counted in committed rows of the ticket;
a finer clock cannot be told apart in its log. A review makes no store call
before its transaction, so its stamp is any moment up to now. `AuditLog` sorts
by the stamps, by giving each row its rank, and puts the later of two equal ones
first, the order that would show a difference.

### Alerting

`Multi.Alert` is a loop in the goroutine that parked the ticket; `called` is its
position and `tried` a history. `ServePrompt` is all the work that ends by
itself, and `SendMail` the one call that need not: `smtp.SendMail` takes no
context and sets no deadline. Whether an alerter returns an error makes no
difference to the loop.

### Email parsing

A message is what `net/mail` and `go-message` find in its bytes: whether the
header can be read, a sequence of parts, and how the walk ends. `TakePart` is
one round of the loop. Decoding a header and reducing HTML to text are functions
that the model takes as constants, and the hash is taken to have no collisions.
`Submits` is the guard of the HTTP adapter, which refuses a submission without a
sender; the poller has no such guard, and the key is compared only for what both
take.

### Toolbox

`Dial` is the choice that main.go makes at start-up. `SendCall`, `ServeCall` and
`ReceiveResult` are the two ends of a call over MCP, `LoseCall` its failure, and
`BoxInvoke` the in-process tools that both ways end in. The arguments are told
apart by what the three decodings, and the two encodings between them, do with
them: `Encoded` puts the keys in order, which tells when a field is written twice
in different case, and turns no arguments into `null`. `SameOverMcp` names these
two cases and says that there is no other.

### Evaluation

A behaviour is any number of runs of the command, one after the other, each of
which may be killed anywhere (`End`). `cache` is the file; `os.WriteFile` is a
`Truncate` and a `Write`. Calibration takes a step for each row of the sweep and
for each row that is looked at. The sweep of the code adds 0.05 to a float, up to
0.95 and a slack of 1e-9, and rounds to hundredths. In the model a hundredth is
`Unit`, each addition may be off by one to either side, the bound has `Slack`,
and `Round2` rounds; `FloatAssumption` says that all errors together are less
than the slack and the slack less than half a hundredth, as is so for ten
additions of doubles. Without the slack the row of 0.95 may be missing.

## 3. What TLC checks

| Run | Instance | Properties |
|---|---|---|
| `race` | 1 ticket, 3 workers, 3 verdicts, 2 decisions, ≤ 2 drafts | `TypeOK`, `ExclusiveDriver`, `AuditReplays`, `HumanGates`, `GateIsKept`, `ReviewShowsTheVerdict`, `OneDraftPerRound`, `AlertsAreForCritical` |
| `turns` | 1 ticket, 2 workers, 3 verdicts, 4 decisions, 2 texts, decisions that do not overlap, transactions in two steps | `ResolvedReplyIsApproved`, `LogReplays`, `PartialLabelsAreHuman`; `LifecycleSpec`: `Orchestrator` implements `TicketLifecycle` |
| `calls` | 3 attempts, 4 rounds, 2 tools, ≤ 2 calls in an answer | `QTypeOK`, `ToolProtocol`, `LatestCallRecorded`, `RequestsBounded`, `OneReprompt`, `ResultInTaxonomy`, `ReturnsOrHangs` |
| `mailbox` | 4 messages: two emails, a bad message between them, a copy of the first; another submitter | `PollerTypeOK`, `WorksOnCurrent`, `OneTicketPerEmail`, `FaultCostsOneMail` |
| `calm` | 3 messages: a bad one, two copies of an email; another submitter and reviewer, three alerters, no faults | `EachAlerterOnce`, `TicketsAreCarried`, `NeverDropped`, `CriticalIsAlerted`, `MailReachesHumanOrHangs` |
| `console` | 1 ticket, 1 worker, 2 fetches, other reviewers, all faults | `DashTypeOK`, `ShownIsConsistent`, `TextareaFollowsDraft`, `EditsAreKept`, `ButtonsComeBack` |
| `sequential` | messages of ≤ 3 parts, tables of ≤ 3 tickets, 3 gold emails | `BodyIsBest`, `SameKeyOverHttp`, `SameOverMcp`, `SimilarAreNewest`, `RecommendedIsLowest`, `ReportAddsUp`, `RecordingIsAllOrNothing` |

Five more runs end in a violation; see "Findings".

**Bounds.** `MaxReplies` bounds the drafts of a ticket: no rejection is
requested at that many. Two drafts are a first round and a second, which is
where a stale reply id or a lost draft shows; more rounds repeat the second. The
audit log is bounded with it. Two workers give every race of a pair; the third
in `race` lets one overtake two that are in each other's way. One ticket is
enough where a property is about a ticket, since no statement touches two; the
uniqueness of emails has two tickets and two keys. There are at least as many
ticket ids as keys, so an insert never lacks an id. The threshold is 0.75, and
the three verdicts are a critical one at 0.90, one at the threshold and one at
0.74, all that the gate tells apart; the three
decisions keep everything, override everything, and misspell a field. `race`
leaves out the one that overrides, as none of its properties reads the labels
after a review; `turns` adds one that gives a type and nothing else, after which
a ticket has some labels and lacks others. `mailbox` stops where a ticket is parked (one verdict, no
decision): what it asks is about the mailbox and the insert. `calls` has the
three attempts of the code and four of its five rounds, so that two tools and
two calls in a turn can be had; the fifth repeats the fourth. In `console` the
worker is the server, whose steps come between the three reads of a detail; one
ticket suffices for the properties of a mounted component, and two fetches let
answers overtake each other. Its verdict is what the
drop-downs start with, and the reviewer may raise the urgency. In `sequential` a
message has up to three parts of nine kinds (two texts, a blank one, two HTML
texts of which one reduces to nothing, an attachment, an unreadable part, an
unknown character set, another type): one good part may then stand before,
between or behind bad ones. A look-up shows two tickets of tables of up to
three, so the limit bites and the condition on the type with it. Predictions
have the confidences 0.49, 0.93 and 0.95: below all thresholds, between two, and
on the last one, whose row depends on the slack of the sweep. A hundredth is 100
units there and the slack 10, and
two kinds of caches come from other gold sets, with an email missing or one that
is not known.
Tickets, workers, keys, texts and tools are symmetric: no action or checked
property picks one out. Runs with a liveness property use no symmetry; nor do
those of the mailbox, where messages are ordered by sequence number.

**Fairness.** `FairSpec` is weakly fair to `Serve(w)`, the next step of a
goroutine that serves a request. Goroutines are scheduled fairly,
and no call lasts for ever: the HTTP client of the model has a timeout, attempts
and rounds are limited, and the database calls end with the context. The
exception is a tool that is called over MCP: `CallTool` (toolbox.go:81) has no
timeout, and the context of the poller (main.go:27, 61) never ends. `QSpec` is
therefore weakly fair to `ClientStep`, the steps of the client and the endpoint,
and to a tool call only when its context is done, and neither to `Cancel`;
`ReturnsOrHangs` says that a call returns or is in one tool call for ever. The
specifications in which `Classify` is one step assume that it returns. Nothing is assumed of clients, reviewers and
faults: no request has to come and no fault has to stay away. `CalmAlertSpec` has
no fault at all (nor have `CalmSpec` and `CalmMailSpec`, its layers, which the
proofs use and which assume no fairness), and the two are kept apart on purpose: with faults
`NeverDropped` fails (run `dropped`). It is also fair to the poller's loop, since
the ticker fires and mailbox calls end, and to the alerters that end by
themselves: the log, and Slack with its ten seconds. Nothing is assumed of the
SMTP server, so `MailReachesHumanOrHangs` allows for a poller that stays in
`smtp.SendMail`; without that allowance the property fails (run `hang`). A silent
MCP server would hold the poller in the same way, inside `Classify`; a day
without faults has none, and what `CriticalIsAlerted`, `NeverDropped` and
`MailReachesHumanOrHangs` say rests on that. `DashSpec` is weakly fair to `Serve(w)` and to
`ConsoleStep`, the reads of the server and the handlers of the browser, and not
to the reviewer. `CHECK_DEADLOCK FALSE` is set for the Qwen client and for `sequential`, whose
parts end.

## 4. What is proved

Assumptions on the constants are the ASSUMEs of the modules: verdicts,
decisions and answers are of their record types (`VerdictAssumption`,
`DecisionAssumption`, `AnswerAssumption`), `None` is no key, no text and no
message, the blank text is no text (`KeyAssumption`, `TextAssumption`),
`MaxReplies` is a natural number (`BoundAssumption`), the threshold is between 0
and 100 (`ThresholdAssumption`; config.go checks it), the errors of the sweep are
small (`FloatAssumption`), the client's limits are
positive (`LimitAssumption`), the poller is a worker (`PollerAssumption`,
`MessageAssumption`), and what the drop-downs can hold may be posted
(`ChoiceAssumption`), `None` is no classification, no reply row and no error
(`NullAssumption`, `NilAssumption`), the emails of a gold set have ids of their
own (`GoldAssumption`), classifiers return values of the
taxonomies and confidences between 0 and 100, as the targets are
(`PredictionAssumption`, `TargetAssumption`), a cache holds predictions
(`CacheAssumption`), addresses, subjects and texts decode to such
(`EmailParsing!TextAssumption`), no hash is the empty key
(`EmailParsing!KeyAssumption`), and no answer of a tool is `NoAnswer`
(`NoAnswerAssumption`). Sets of tickets, workers, keys and texts may be of any
size, infinite ones included.

| Theorem | Statement | Argument |
|---|---|---|
| `TypeCorrect` | `Spec => []TypeOK` | inductive as it stands: `JobOK` says what a worker has in hand at each step |
| `ImplementsLifecycle` | `Spec => LifecycleSpec` | `StepRefines`: an `Apply` is a `Move` of the abstract machine, everything else a stutter or a `Create` |
| `AuditCorrect` | `Spec => []AuditReplays` | shown of the abstract machine's steps (`LifecycleKeepsAudit`), carried over by `StepRefines` |
| `HumansHoldTheGates` | `Spec => []HumanGates` | the same invariant, `AuditInv` |
| `DriverIsExclusive` | `Spec => []ExclusiveDriver` | inductive with `TypeOK`: a claim needs a state in which nobody drives the ticket (`QuietHasNoDriver`), a driver's step keeps or moves that state, everyone else's leaves it alone |
| `DriverIsNeverRefused` | `CalmSpec => DriverNeverConflicts` | `CalmSpec` is `Orchestrator` without faults; by `ExclusiveDriver` the guard of a driver's `Apply` holds |
| `NobodyIsStranded` | `CalmSpec => TicketsAreCarried` | every step of a worker leaves the ticket it has in hand at a checkpoint, resolved, or still in its hands (`Hands`); a ticket in NEW may be left to another only when that one has claimed it, which `ExclusiveDriver` and the guard of the claim settle |
| `RequestsEnd` | `Spec =>` each step of a request shortens it | a variant, `StepsLeft`, of at most nine, which nobody else's step touches (`StepsInOrder`, `ServeShortens`); it holds with all faults |
| `EmailIsUnique` | `Spec => []OneTicketPerEmail` | strengthened to `EmailInv`, which adds that a ticket has an email exactly when it has a row: else a fresh id might hold a key |
| `ReviewersSeeTheVerdict`, `GateStands`, `PartialLabelsAreTheReviewers`, `AlertsAreDeserved` | `Spec => []` of `ReviewShowsTheVerdict`, `GateIsKept`, `PartialLabelsAreHuman`, `AlertsAreForCritical` | one invariant, `VerdictInv`: what the tables say of a ticket by its state (`TicketOK`), what a worker that classifies or alerts knows of them (`Knows`), and that no two alert about one ticket. The properties speak of parked tickets only; the row they rest on is written two steps earlier, hence `Knows`, and nobody else writes meanwhile, by `ExclusiveDriver` |
| `AlertsAreInHand` | `CalmSpec => []CriticalIsInHand` | no step loses a warning (`Warns`): the worker that writes a critical verdict goes on to park, its `Apply` is not refused, by `ExclusiveDriver`, so it goes on to the alert, and nobody else moves it (`OneAtATime`) |
| `DraftsMatchRounds` | `Spec => []OneDraftPerRound` | `DraftInv`: in DRAFTING the row is missing until the driver has passed `RecordDraft`, and the driver knows which |
| `ResolvedIsApproved` | `TurnsSpec => []ResolvedReplyIsApproved` | `TurnInv`: as long as the one decision about a ticket is under way it still waits for approval, and behind `FinalizeApproved` its latest reply is approved with the text in hand |
| `SplitKeepsPromises` | `LogTurnsSpec => []ResolvedReplyIsApproved`, `[]PartialLabelsAreHuman` and `LifecycleSpec` | the theorems about `TurnsSpec` and `Spec`, carried over: the begin of a transaction leaves the tables alone and its end is the `Apply` of `Orchestrator` (`SplitKeepsTurns`) |
| `LogCanBeReplayed` | `LogTurnsSpec => []LogReplays` | `ClockInv`: row i of a ticket is stamped i - 1. A transaction that is open about a ticket and will find it in the state it expects began when the ticket had the rows it has now, since nobody else can move the ticket and leave it in that state (`TurnInv`, `ExclusiveDriver`). Stamps then increase, each row's rank is its position (`SortedAsWritten`), and `AuditReplays` is what is left |
| `QTypeCorrect` | `QSpec => []QTypeOK` | inductive with `PauseOK`: no pause after the last attempt |
| `RequestsAreBounded` | `QSpec => []RequestsBounded` | strengthened to a count by round and attempt (`BoundInv`) |
| `ResultIsValid` | `QSpec => []ResultInTaxonomy` | `ParsedType`: what `ParseClassification` returns of a valid answer |
| `ToolProtocolHolds` | `QSpec => []ToolProtocol` | strengthened to the middle of a turn: the calls answered so far, then the pending ones (`ProtocolInv`) |
| `RepromptsOnce` | `QSpec => []OneReprompt` | `StepSays`: the four ways in which a step adds to the conversation; the flag tells whether there is a re-prompt in it, and there are as many turns of the model as rounds that were answered (`TurnsInv`) |
| `RecordsTheLatestCall` | `QSpec => []LatestCallRecorded` | by the same four ways: what is recorded is the largest index of a use, or 0 without one |
| `CallsWindDown` | `QSpec =>` each step but `Cancel` uses up a budget | a variant, `StepsLeft`: what is left of the round, and for each further round its attempts, twice because of the pauses, and its calls |
| `BatchIsUnseen` | `MailSpec => []PollerTypeOK` | strengthened by the flag of the message in hand, which `MarkSeen` sets once more |
| `FaultsCostOneMail` | `MailSpec => FaultCostsOneMail` | a message becomes lost by a step that drops it: its own fetch, or the end of its `Ingest`. The rest of the batch is unseen (`BatchIsUnseen`) and stays so, since a step sets the flag of one message (`SeenInTurn`, `RestIsUnseen`); a mail that has its ticket keeps it, by `EmailsStay` |
| `WorksOnItsMessage` | `MailSpec => []WorksOnCurrent` | inductive with `TypeOK`, which the lemma `PollerIsAClient` (`MailSpec => Spec`) lends, and `EmailsStay`: an email row never changes |
| `NoMailIsLost` | `CalmMailSpec => []SeenIsIngested` | `KeptInv`: also a message in hand whose `Ingest` has failed has a ticket, since without faults the one error left is that another goroutine was faster. With faults the property fails (run `lost_mail`) |
| `ConsoleTypeCorrect` | `DashSpec => []DashTypeOK` | inductive together with `TypeOK` and `NothingUnasked`: nothing is shown, fetched or sent before a ticket is selected, so a handler has a ticket to fetch |
| `ConsoleIsAClient` | `DashSpec => Spec` | by the types, what a click sends is a `Request`; every theorem about `Spec` holds behind the console |
| `TextareaIsFilled` | `DashSpec => []TextareaFollowsDraft` | inductive: `Mount` fills, `Update` fills when the text differs |
| `EditsSurvive` | `DashSpec => EditsAreKept` | only `Show` changes what is shown of a ticket, and `Update` keeps the text of an equal draft |
| `ReviewersSeeTheWhole` | `DashSpec => []ShownIsConsistent` | `FetchesFit`: from the first read on, the tables bear out what it found. The first read finds this by `VerdictInv` and `RepliedInv`; it stays so by `RowsStay`: a ticket does not go back to CLASSIFYING, its classification is final from then on, and reply rows never go |
| `OneHandlerAtATime` | `DashSpec => []OneHandler` | what holds the buttons is one post or one fetch, never two: a click needs that there is none, an answer hands on, and `Mount` and `Reload` let go. What it sent is about the ticket mounted, since a worker keeps its ticket (`DecisionGoesOn`) and another ticket would be a new component |
| `ButtonsWindDown` | `DashSpec =>` a handler has at most 14 steps left, and none is added | `Winds`, one lemma per action: the post has the steps of its request (`StepsLeft`, which others cannot add to) and an answer left, the fetch its reads and showing it |
| `AlertersAreCalledOnce` | `CalmAlertSpec => []EachAlerterOnce` | `CallsInv`: a worker at its alert has called a prefix of the alerters about its ticket, and nobody has called any about a ticket whose alert is still to come. That the worker is the first and only one is `VerdictInv`, which holds here because the alerters are hidden from `Spec` (`AlertingIsAClient`). The same lets `CriticalIsInHand`, the last part of `EachAlerterOnce`, hold |
| `NothingIsDropped` | `CalmAlertSpec => []SeenIsIngested /\ TicketsAreCarried` | `AlertingIsAClient`: the calm composition is a calm poller and a calm orchestrator |
| `BestPartWins`, `KeysAgree` | `ParseSpec => []` of `BodyIsBest`, `SameKeyOverHttp` | `ParseInv`: after each part the text that is kept is the first of those seen (`FirstStaysFirst`) |
| `SameAnswerOverMcp` | `ToolSpec => []SameOverMcp` | what is on the wire is what was asked, encoded, then what the box answered; the mark of an error tells the two kinds of answer apart (`AnswersTravel`) |
| `SimilarAreTheNewest` | `ToolSpec => []SimilarAreNewest` | what the scan has kept of the first n rows, for each n |
| `TablesAddUp` | `EvalSpec => []ReportAddsUp` | every email is counted once in the row of its own class and, when it was predicted, once in the column of the predicted one; the sums over the classes are the sums of those counts |
| `LowestIsRecommended` | `EvalSpec => []RecommendedIsLowest` | the rows so far are those of the sweep, the error of its variable is at most one for each row (`SweptSoFar`), and none that was looked at sufficed |
| `CacheIsKept` | `EvalSpec => RecordingIsAllOrNothing` | the predictions of a recording are of gold emails (`RecordsGold`) |

**Only model-checked.** Every safety invariant and action property of a passing
run is stated by a theorem; what is left to TLC is liveness: `NeverDropped`,
`CriticalIsAlerted`, `MailReachesHumanOrHangs`, `ReturnsOrHangs` and
`ButtonsComeBack`. The prover has no support for fairness and ENABLED. What it can reach
of each of them is proved instead: without faults a ticket that no human sees is
in the hands of a goroutine that is not refused (`NobodyIsStranded`), and the request
of a goroutine ends within nine of its steps (`RequestsEnd`); a critical ticket
that was not alerted about is with the worker that will (`AlertsAreInHand`); no
message that was seen is without a ticket (`NoMailIsLost`); a call of the
model runs out of steps (`CallsWindDown`); and so does the handler that holds
the buttons (`ButtonsWindDown`). What fairness adds is that the steps
are taken. `RequestsEnd`, `CallsWindDown`, `OneHandlerAtATime`,
`ButtonsWindDown` and, under no faults, `SeenIsIngested` are properties of no passing
run: they rest on the proofs alone.

**Induction over data.** The induction theorems of the library take an operator
as a parameter, which no installed prover can instantiate. Where a recursive
function has to be reasoned about (the rows a look-up shows, the sums of a
table), the proof takes the least index at which the claim fails, in a set of
its own, and no module with a proof declares a RECURSIVE operator.

## 5. Findings

| Run | Property | The code |
|---|---|---|
| `human_approved` | `ResolvedReplyIsApproved` | A decision writes the reply before `Apply` looks at the ticket, and with a reply id it read before that. Two overlapping decisions leave a resolved ticket whose latest reply is rejected, a draft, or another text than the audit row. README.md:7: "Every reply is human-approved before it would be sent". |
| `lost_mail` | `SeenIsIngested` | The fetch sets `\Seen`, before `Ingest`. A failure before the insert loses the message, where poller.go:107 says a crash is safe. |
| `dropped` | `NeverDropped` | A goroutine cut short leaves its ticket in `CLASSIFYING`, `ROUTED` or `DRAFTING` for ever. README.md:7: "it never silently drops a ticket". A client that disconnects suffices, and the write timeout of the server (main.go:70) is shorter than the longest classification. |
| `history` | `LogReplays` | `AuditLog` sorts by `created_at`, the moment a transaction began, and `Apply` takes the row lock after that. An approval whose transaction begins before a rejection's, and gets the lock after the new draft was parked, is listed before both: the history ends in `AWAITING_REPLY_APPROVAL` and the ticket is resolved. store.go:3: "a complete, replayable history". It takes two decisions that overlap; in turns the sorted history replays (run `turns`). |
| `hang` | `MailReachesHuman` | The alerters are called in the goroutine that parked the ticket, and `smtp.SendMail` has no deadline (email.go:46). An SMTP server that accepts and stays silent stops the poller. multi.go:12: "alerting must never block the ticket pipeline". |

`human_approved` needs one console and no fault: the reviewer approves, loads
the page again, or opens another ticket and comes back, and rejects the reply
that still waits. The rejection overwrites the approved row after the ticket is resolved, and is then answered with a
conflict. With two reviewers the same happens without that, and more: an
approval that was overtaken by a rejection resolves the ticket over a newer
draft. The guard in the browser is `busy`, which the mounted component alone
knows.

Smaller observations without a run:

- `FinalizeReply` overwrites a reply row (store.go:233), where README.md:71 calls
  the table append-only.
- The re-prompt takes one of the five rounds: a first invalid answer in the
  fifth is given up with the re-prompt appended and never sent, where
  client.go:243 says "re-prompts once".
- The drop-downs are filled when a ticket is opened and not by a later fetch
  (TicketDetail.tsx:19): opened before it was classified, a ticket offers the
  defaults at Checkpoint 1 next to a classification that says otherwise.
- A detail is shown when it arrives, whatever is selected by then (App.tsx:23):
  an answer that was overtaken shows one ticket while another is marked. What a
  click decides about is the ticket that is shown.
- After a classifier error nothing is stored, so a review with empty fields
  routes to no department, where orchestrator.go:149 speaks of "the model's
  stored values".
- The record of tool calls is keyed by the tool's name (client.go:277): a second
  call overwrites the first, where README.md:79 says that invocations are
  recorded.
- `FindSimilarTickets` scans the urgency into a string (customers.go:71). A
  review that sets only the type, after a classifier error, leaves it `NULL`,
  and every look-up that reaches the ticket fails.
- Empty arguments are an error of the in-process tools and fine over MCP, which
  sends `null` in their place. Arguments with one field twice, in different case,
  may be read differently: in the process the last one in the text counts, over
  MCP the last one in the order of the keys (`SameOverMcp` excepts both).
- A call of a tool over MCP has no timeout (toolbox.go:81) and the poller's
  context does not end (main.go:27), so a silent MCP server holds `Classify`,
  and with it the poller, for ever (`ReturnsOrHangs` excepts it).
- The HTTP adapter refuses an email without a sender (server.go:73), the poller
  does not.
- A plain part of white space only is taken for a text and hides an HTML part;
  the comment at email.go:145 speaks of raw HTML, where the code returns text.
- `Calibrate` counts confident critical predictions as routed by the agent,
  where the orchestrator parks every critical ticket.
- `CONFIDENCE_THRESHOLD=NaN` passes the range check of config.go, and then
  nothing is parked for want of confidence; the models leave it out.
- `os.WriteFile` truncates the only copy of the predictions before it writes, and
  a run that is killed in between loses the recording that was there.
  `RecordingIsAllOrNothing` excepts this one step, and says that a torn file is
  not replayed and that no other failure touches the cache.
- Nothing sets the state `FAILED`, which README.md:65 lists.

## 6. Not modelled

- Prompts, JSON and HTML text, Slack and SMTP wire formats, the layout and the
  ratios of the report: data and layout. What they can lead to (an invalid
  answer, a message that cannot be parsed, an alert that fails) is in the models.
- What the libraries for MIME, addresses and headers do with bytes: the parts
  they find are the input of `EmailParsing`.
- The seed of the demo customers, an upsert at start-up that nothing follows,
  and reading the environment.
- The order of the queue (`ListTickets`) and its polling: any ticket that exists
  may be selected.
- The keyword table of the fake classifier: `Classify` allows any verdict.
- The concurrency of the database below its statements. `Apply` is one step
  because of `FOR UPDATE`; `AuditClock` has what that hides, the moment at which
  a transaction began.
- Wall-clock time: a timeout is a fault that may come at any step.
- Reviewer names, cookies and the separation of visitors: read-side filters.

## 7. Plan

The components with logic of their own are modelled, and what the prover can
reach of the safety properties is proved. What could follow:

1. The order of the queue, and what a poll of it may miss.
2. Reading the configuration, as a function from environments to settings or an
   error.
