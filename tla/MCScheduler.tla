---------------------------- MODULE MCScheduler ----------------------------
(***************************************************************************)
(* Two small instances of Scheduler, side by side: two overlapping ticks   *)
(* and Run-now over jobs that fail in every way, one process of them       *)
(* killed; and the one trigger the docs ask for, beside the edit form.  A  *)
(* behaviour belongs to one of them; the other rests in an initial state,  *)
(* and only the second is owed fairness.                                   *)
(***************************************************************************)
EXTENDS Scheduler

CONSTANTS k1, k2, op,      \* two ticks, an operator
          a, b, c          \* jobs

VARIABLES part,
          clock, only, fired, queued, trigger, won, ofaults, omanual, oedits

EachInstant == [type |-> "interval", delta |-> [unit |-> "fixed", n |-> 1], anchor |-> NoTime]
OddInstants == [type |-> "cron", cron |-> [every |-> 2, phase |-> 1]]
FarOff == [type |-> "once", at |-> 9]
ThreeCadences == {EachInstant, OddInstants, FarOff}
Week == <<7>>

\* The cadence of each job, and whether a fault or Run-now may happen beside it: what does
\* not happen is used up from the start.
On(cadence) == {j \in Jobs : job[j].cadence = cadence}
RaceInit ==
    /\ Start /\ edits = 0
    /\ \/ On(OddInstants) = {a} /\ On(EachInstant) = {} /\ faults = 0 /\ manual = 1
       \/ On(OddInstants) = {b} /\ On(EachInstant) = {} /\ faults \in {0, 1} /\ manual = 1 - faults
       \/ On(OddInstants) = {} /\ On(EachInstant) \in {{a}, {b, c}} /\ faults = 1 /\ manual = 1
RaceRests == Start /\ On(FarOff) = Jobs /\ edits = 0 /\ faults = 1 /\ manual = 1

\* One tick and an edit, over a job that may not overlap.
One == INSTANCE Scheduler WITH
    Jobs <- {"j"}, Ticks <- {"t"}, Operators <- {"o"}, MaxTime <- 2, MaxFaults <- 0,
    ErrorsAt <- {}, MaxManual <- 0, MaxEdits <- 1, StaleAfter <- 2, Cadences <- {EachInstant},
    AllowOverlap <- {}, SkipMissed <- {}, Unresolvable <- {}, Unevaluable <- {},
    now <- clock, job <- only, run <- fired, task <- queued, proc <- trigger,
    claimed <- won, faults <- ofaults, manual <- omanual, edits <- oedits

oneVars == <<clock, only, fired, queued, trigger, won, ofaults, omanual, oedits>>

AllInit ==
    /\ part \in {"race", "one"}
    /\ IF part = "race" THEN RaceInit ELSE RaceRests
    /\ One!Init

AllNext ==
    /\ UNCHANGED part
    /\ \/ part = "race" /\ Next /\ UNCHANGED oneVars
       \/ part = "one" /\ One!Next /\ UNCHANGED vars

AllVars == <<part, vars, oneVars>>
OneTurn(A) == part = "one" /\ A /\ UNCHANGED <<part, vars>>

\* One!Fairness, of the part that is owed it.
OneFairness ==
    /\ WF_AllVars(OneTurn(One!TickStart("t"))) /\ WF_AllVars(OneTurn(One!TickStep("t")))
    /\ WF_AllVars(OneTurn(One!OperatorStep("o")))
    /\ \A t \in One!RunIds : WF_AllVars(OneTurn(t <= Len(queued) /\ One!TaskEnds(t)))

AllSpec == AllInit /\ [][AllNext]_AllVars /\ OneFairness

\* Scheduler, with one trigger: last_status is never an older run's outcome.
NewestOutcome == One!OutcomeOfNewest
\* Scheduler, with one trigger: every due job is dealt with.
DueProcessed == One!DueIsProcessed
\* Scheduler, with one trigger: every run that was enqueued settles, and its failure is mailed.
EveryRunSettles == One!RunsSettle
=============================================================================
