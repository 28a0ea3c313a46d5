----------------------------- MODULE Evaluation -----------------------------
(***************************************************************************)
(* The evaluation command (cmd/eval, internal/eval).  A run either has the *)
(* classifier predict every email of the gold set and saves the            *)
(* predictions in the cache file, or reads them from that file; it then    *)
(* reports how good they are and, by a sweep over thresholds, which        *)
(* CONFIDENCE_THRESHOLD to configure.  The cache outlives the run.         *)
(*                                                                         *)
(* Confidences, thresholds and the target are in hundredths.  The variable *)
(* of the sweep is a float that grows by additions, each of which may be   *)
(* off by an error; it is in units of the largest error.                   *)
(***************************************************************************)
EXTENDS Domain, Integers, Sequences, FiniteSets

CONSTANTS
  Gold,       \* the gold set: a sequence of [id, urgency, type]
  Prediction, \* what the classifier may predict: [urgency, type, confidence]
  Stale,      \* caches that may be there from other gold sets
  Target,     \* targets that may be asked for
  Unit,       \* the units in a hundredth
  Slack,      \* the 1e-9 of the bound of the sweep, in units
  Absent, Torn \* no cache file; one whose writing was cut short

\* The ids of eval/gold.jsonl are distinct; main refuses an empty gold set.
ASSUME GoldAssumption ==
  /\ Gold \in Seq([id : STRING, urgency : Urgency, type : TicketType]) /\ Gold # << >>
  /\ \A i, j \in DOMAIN Gold : Gold[i].id = Gold[j].id => i = j

ASSUME TargetAssumption == Target \subseteq 0 .. 100

\* What the classifiers return is in the taxonomies.
ASSUME PredictionAssumption ==
  \A p \in Prediction :
    p.urgency \in Urgency /\ p.type \in TicketType /\ p.confidence \in 0 .. 100

\* The files that cannot be read are no caches.
ASSUME CacheAssumption ==
  /\ \A f \in Stale : \A x \in DOMAIN f : f[x] \in Prediction
  /\ Absent # Torn /\ {Absent, Torn} \cap Stale = {}

\* The errors of ten additions are within the slack, which is less than half
\* a hundredth.
ASSUME FloatAssumption == /\ Unit \in Nat /\ Slack \in Nat
                          /\ 10 <= Slack /\ 2 * Slack < Unit

Id == {Gold[i].id : i \in DOMAIN Gold}

Lowest == 50

Highest == 95

Increment == 5

\* round2: the float is truncated after half a hundredth is added.
Round2(f) == (f + Unit \div 2) \div Unit

VARIABLES
  cache,  \* the cache file
  target, \* the target of this run
  step,   \* what the run is doing
  preds,  \* its predictions, a function on some ids
  thr,    \* the variable of the sweep
  rows,   \* the rows of the sweep
  pick,   \* the row that is looked at for the recommendation
  recommended, targetMet

runVars == <<target, step, preds, thr, rows, pick, recommended, targetMet>>

xvars == <<cache, runVars>>

EvalInit ==
  /\ cache \in Stale \cup {Absent}
  /\ target = 0 /\ step = "over" /\ preds = << >>
  /\ thr = Lowest * Unit /\ rows = << >> /\ pick = 1
  /\ recommended = Highest /\ targetMet = FALSE

Calibrating ==
  /\ thr' = Lowest * Unit /\ rows' = << >> /\ pick' = 1
  /\ recommended' = Highest /\ targetMet' = FALSE

-----------------------------------------------------------------------------
(***************************************************************************)
(* The command                                                             *)
(***************************************************************************)

\* go run ./cmd/eval: replay the cache, which fails when it cannot be read.
Replay ==
  /\ step = "over"
  /\ target' \in Target
  /\ Calibrating
  /\ \/ cache \notin {Absent, Torn} /\ preds' = cache /\ step' = "sweep"
     \/ cache \in {Absent, Torn} /\ preds' = << >> /\ step' = "over"
  /\ UNCHANGED cache

\* With --live or --fake: classify.
Record ==
  /\ step = "over"
  /\ target' \in Target
  /\ Calibrating
  /\ preds' = << >> /\ step' = "record"
  /\ UNCHANGED cache

Extend(f, id, p) == [x \in DOMAIN f \cup {id} |-> IF x = id THEN p ELSE f[x]]

Unpredicted == {i \in DOMAIN Gold : Gold[i].id \notin DOMAIN preds}

\* Mutant: every prediction is saved as it comes.
PredictAndSave ==
  /\ step = "record"
  /\ \E i \in Unpredicted, p \in Prediction :
       /\ \A j \in Unpredicted : i <= j
       /\ preds' = Extend(preds, Gold[i].id, p)
  /\ cache' = preds'
  /\ UNCHANGED <<target, step, thr, rows, pick, recommended, targetMet>>

\* record: the next email of the gold set is classified ...
Predict ==
  /\ step = "record"
  /\ \E i \in Unpredicted, p \in Prediction :
       /\ \A j \in Unpredicted : i <= j
       /\ preds' = Extend(preds, Gold[i].id, p)
  /\ UNCHANGED <<cache, target, step, thr, rows, pick, recommended, targetMet>>

\* ... until all are.  os.WriteFile first truncates the file.
Truncate ==
  /\ step = "record" /\ Unpredicted = {}
  /\ cache' = Torn /\ step' = "write"
  /\ UNCHANGED <<target, preds, thr, rows, pick, recommended, targetMet>>

Write ==
  /\ step = "write"
  /\ cache' = preds /\ step' = "sweep"
  /\ UNCHANGED <<target, preds, thr, rows, pick, recommended, targetMet>>

\* The run ends: it has reported, something failed, or it was killed.
End ==
  /\ step # "over"
  /\ step' = "over"
  /\ UNCHANGED <<cache, target, preds, thr, rows, pick, recommended, targetMet>>

-----------------------------------------------------------------------------
(***************************************************************************)
(* Calibrate                                                               *)
(***************************************************************************)

Correct(i) == /\ preds[Gold[i].id].urgency = Gold[i].urgency
              /\ preds[Gold[i].id].type = Gold[i].type

Predicted == {i \in DOMAIN Gold : Gold[i].id \in DOMAIN preds}

\* Emails a threshold lets through: those with no prediction are not counted.
Routed(t) == {i \in Predicted : preds[Gold[i].id].confidence >= t}

Row(t) == [threshold |-> t, routed |-> Cardinality(Routed(t)),
           correct |-> Cardinality({i \in Routed(t) : Correct(i)})]

\* Mutant: the bound has no slack.
SweepToBound == thr <= Highest * Unit

SweepGoesOn == thr <= Highest * Unit + Slack

SweepRow ==
  /\ step = "sweep" /\ SweepGoesOn
  /\ rows' = Append(rows, Row(Round2(thr)))
  /\ \E err \in {-1, 0, 1} : thr' = thr + Increment * Unit + err
  /\ UNCHANGED <<cache, target, step, preds, pick, recommended, targetMet>>

\* The first loop is over, and its variable out of scope.
SweepEnds ==
  /\ step = "sweep" /\ ~SweepGoesOn
  /\ step' = "pick" /\ thr' = Lowest * Unit
  /\ UNCHANGED <<cache, target, preds, rows, pick, recommended, targetMet>>

Meets(row) == row.routed > 0 /\ 100 * row.correct >= target * row.routed

\* The second loop: the first row that qualifies ends it.
PickRow ==
  /\ step = "pick"
  /\ \/ /\ pick <= Len(rows) /\ ~Meets(rows[pick])
        /\ pick' = pick + 1
        /\ UNCHANGED <<step, recommended, targetMet>>
     \/ /\ pick <= Len(rows) /\ Meets(rows[pick])
        /\ recommended' = rows[pick].threshold /\ targetMet' = TRUE
        /\ step' = "report"
        /\ UNCHANGED pick
     \/ /\ pick > Len(rows)
        /\ step' = "report"
        /\ UNCHANGED <<pick, recommended, targetMet>>
  /\ UNCHANGED <<cache, target, preds, thr, rows>>

EvalNext ==
  \/ Replay \/ Record \/ Predict \/ Truncate \/ Write \/ End
  \/ SweepRow \/ SweepEnds \/ PickRow

EvalSpec == EvalInit /\ [][EvalNext]_xvars

-----------------------------------------------------------------------------
(***************************************************************************)
(* The report: one Dimension for the urgency and one for the type.         *)
(***************************************************************************)

\* UrgencyLabels and TypeLabels, in the order of the tables.
ClassLabels == [urgency |-> <<"low", "normal", "high", "critical">>,
                type    |-> <<"billing", "technical", "account",
                              "feature_request", "general">>]

GoldOf(d, i) == Gold[i][d]

\* The prediction of an email without one is the empty string.
PredOf(d, i) == IF i \in Predicted THEN preds[Gold[i].id][d] ELSE ""

\* Mutant: an email without a prediction is passed over.
MissSkipped(d, c) == Cardinality({i \in Predicted : GoldOf(d, i) = c /\ PredOf(d, i) # c})

TruePositives(d, c)  == Cardinality({i \in DOMAIN Gold : GoldOf(d, i) = c /\ PredOf(d, i) = c})
FalsePositives(d, c) == Cardinality({i \in DOMAIN Gold : GoldOf(d, i) # c /\ PredOf(d, i) = c})
FalseNegatives(d, c) == Cardinality({i \in DOMAIN Gold : GoldOf(d, i) = c /\ PredOf(d, i) # c})

Support(d, c) == TruePositives(d, c) + FalseNegatives(d, c)

-----------------------------------------------------------------------------
(***************************************************************************)
(* Properties                                                              *)
(***************************************************************************)

\* "Sweeps thresholds from 0.50 to 0.95 (step 0.05)": ten, in hundredths.
Sweeps == 1 .. 10

Threshold(k) == Lowest + Increment * (k - 1)

\* The emails that threshold t routes, and routes correctly.
Passing(t) ==
  {i \in DOMAIN Gold : Gold[i].id \in DOMAIN preds /\ preds[Gold[i].id].confidence >= t}

Good(t) == {i \in Passing(t) : Correct(i)}

Suffices(t) ==
  /\ Passing(t) # {}
  /\ 100 * Cardinality(Good(t)) >= target * Cardinality(Passing(t))

\* What Calibrate promises: it recommends the lowest of the ten thresholds
\* that routes an email and reaches the target, "routes the most" of those,
\* and is the highest threshold, with TargetMet = false, when there is none;
\* whatever the errors of the additions, no threshold is missed or blurred.
RecommendedIsLowest ==
  step = "report" =>
    /\ targetMet = (\E k \in Sweeps : Suffices(Threshold(k)))
    /\ targetMet =>
         \E k \in Sweeps : /\ recommended = Threshold(k) /\ Suffices(Threshold(k))
                           /\ \A j \in 1 .. k - 1 : ~Suffices(Threshold(j))
                           /\ \A j \in Sweeps : Suffices(Threshold(j)) =>
                                Passing(Threshold(j)) \subseteq Passing(recommended)
    /\ ~targetMet => recommended = Highest

\* The file of predictions is replaced by one prediction for every email of
\* the gold set: a recording that fails leaves the one before it.  The one
\* exception is a write that is cut short, and such a file is never replayed.
RecordingIsAllOrNothing ==
  [][ /\ cache' # cache => cache' = Torn \/ DOMAIN cache' = Id
      /\ cache = Torn /\ step = "over" => step' # "sweep" ]_xvars

\* The columns of the tables, one number per class, and their sums.
Hits(d)        == [n \in 1 .. Len(ClassLabels[d]) |-> TruePositives(d, ClassLabels[d][n])]
FalseAlarms(d) == [n \in 1 .. Len(ClassLabels[d]) |-> FalsePositives(d, ClassLabels[d][n])]
Misses(d)      == [n \in 1 .. Len(ClassLabels[d]) |-> FalseNegatives(d, ClassLabels[d][n])]

Total(column) ==
  LET sum[n \in 0 .. Len(column)] == IF n = 0 THEN 0 ELSE sum[n - 1] + column[n]
  IN  sum[Len(column)]

\* The tables of the report agree with each other: every email is a hit or a
\* miss of its own class, and every miss is an email without a prediction or
\* a false alarm of another class.
ReportAddsUp ==
  step = "report" =>
    \A d \in DOMAIN ClassLabels :
      /\ Total(Hits(d)) + Total(Misses(d)) = Len(Gold)
      /\ Total(Misses(d)) =
           Total(FalseAlarms(d)) + Cardinality(DOMAIN Gold \ Predicted)

=============================================================================
