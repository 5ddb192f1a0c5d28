---------------------------- MODULE ScheduleMath ----------------------------
(***************************************************************************)
(* apps/scheduler/schedules.py: when a schedule fires next, and how many   *)
(* fires a late tick has missed.  Instants are natural numbers.  A fixed   *)
(* interval is a number of instants; a calendar interval is a number of    *)
(* months, on a calendar whose months have MonthLen[1], MonthLen[2], ...   *)
(* instants, over and over.                                                *)
(***************************************************************************)
EXTENDS Integers, Sequences

CONSTANTS
    MonthLen,   \* lengths of the months of a year
    MaxMonths,  \* bound: how many months the calendar is laid out for
    MaxSteps    \* bound: how often a calendar walk steps (10,000 in the code)

ASSUME CalendarAssumption ==
    /\ MonthLen \in Seq(Nat \ {0}) /\ MonthLen # <<>>
    /\ MaxMonths \in Nat \ {0} /\ MaxSteps \in Nat

NoTime == -1       \* NULL
BadConfig == -2    \* ScheduleConfigError

----------------------------------------------------------------------------
(* The calendar behind relativedelta.                                      *)

LenOfMonth(m) == MonthLen[1 + ((m - 1) % Len(MonthLen))]

MonthStart[m \in 1..(MaxMonths + 1)] ==
    IF m = 1 THEN 0 ELSE MonthStart[m - 1] + LenOfMonth(m - 1)

MonthOf(t) == CHOOSE m \in 1..MaxMonths : MonthStart[m] <= t /\ t < MonthStart[m + 1]

\* The same day k months on; a month too short for it gives its last day.
AddMonths(t, k) ==
    LET day == t - MonthStart[MonthOf(t)]
        m   == MonthOf(t) + k
    IN  MonthStart[m] + (IF day < LenOfMonth(m) THEN day ELSE LenOfMonth(m) - 1)

----------------------------------------------------------------------------
(* Intervals: a delta is [unit, n].                                        *)

\* Variant: whole periods are rounded to the nearest fire, not past it.
FixedStepEarly(anchor, period, after) ==
    IF after - anchor < 0 THEN anchor
    ELSE anchor + ((after - anchor) \div period) * period

\* The jump of _step_interval for a timedelta.
FixedStep(anchor, period, after) ==
    IF after - anchor < 0 THEN anchor
    ELSE anchor + (((after - anchor) \div period) + 1) * period

\* nxt = nxt + delta, i times.
Walk(anchor, months) ==
    LET w[i \in 0..MaxSteps] == IF i = 0 THEN anchor ELSE AddMonths(w[i - 1], months)
    IN  w

\* The loop of _step_interval for a relativedelta.
CalendarStep(anchor, months, after) ==
    LET w    == Walk(anchor, months)
        past == {i \in 0..MaxSteps : w[i] > after}
    IN  w[CHOOSE i \in past : \A j \in past : i <= j]

StepInterval(anchor, delta, after) ==
    IF delta.unit = "fixed" THEN FixedStep(anchor, delta.n, after)
    ELSE CalendarStep(anchor, delta.n, after)

----------------------------------------------------------------------------
(* Cron, as croniter is used: the next matching instant.                   *)

CronNext(c, after) == after + 1 + ((c.phase - (after + 1)) % c.every)

----------------------------------------------------------------------------
(* next_run.                                                               *)

NextRun(s, after) ==
    CASE s.type = "once"     -> IF s.at > after THEN s.at ELSE NoTime
      [] s.type = "interval" ->
           StepInterval(IF s.anchor = NoTime THEN after ELSE s.anchor, s.delta, after)
      [] s.type = "cron"     -> CronNext(s.cron, after)
      [] OTHER               -> BadConfig

\* Variant: the due time itself is counted as missed.
MissedPeriodsDue(s, for, now) ==
    IF now <= for THEN 0
    ELSE CASE s.type = "interval" -> ((now - for) \div s.delta.n) + 1
           [] OTHER -> 1

\* missed_periods.
MissedPeriods(s, for, now) ==
    IF now <= for THEN 0
    ELSE CASE s.type = "interval" /\ s.delta.unit = "fixed" -> (now - for) \div s.delta.n
           [] s.type = "interval" /\ s.delta.unit = "calendar" ->
                LET w == Walk(for, s.delta.n)
                IN  (CHOOSE i \in 1..MaxSteps :
                       w[i] > now /\ \A j \in 1..(i - 1) : w[j] <= now) - 1
           [] s.type = "cron" ->
                LET w[i \in 0..MaxSteps] == IF i = 0 THEN for ELSE CronNext(s.cron, w[i - 1])
                IN  (CHOOSE i \in 1..MaxSteps :
                       w[i] > now /\ \A j \in 1..(i - 1) : w[j] <= now) - 1
           [] OTHER -> 0
=============================================================================
