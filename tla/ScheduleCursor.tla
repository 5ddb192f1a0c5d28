--------------------------- MODULE ScheduleCursor ---------------------------
(***************************************************************************)
(* The life of one schedule's cursor, next_run_at, as ticks that come at   *)
(* any time move it: the part of _process_job_body that is arithmetic.     *)
(***************************************************************************)
EXTENDS ScheduleMath, FiniteSets

CONSTANTS Schedules, MaxTime

ASSUME MaxTimeAssumption == MaxTime \in Nat

VARIABLES sched, now, next, missed, prev

vars == <<sched, now, next, missed, prev>>

\* A schedule is seeded when it is saved, at any time.
Init ==
    /\ sched \in Schedules /\ now \in 0..MaxTime
    /\ next = NextRun(sched, now)
    /\ missed = 0 /\ prev = NoTime

\* A tick at t, late by any amount, that finds the schedule due.
Tick(t) ==
    /\ next # NoTime /\ next <= t /\ now <= t
    /\ now' = t
    /\ next' = NextRun(sched, t)
    /\ missed' = MissedPeriods(sched, next, t)
    /\ prev' = next
    /\ UNCHANGED sched

Next == \E t \in 0..MaxTime : Tick(t)

Spec == Init /\ [][Next]_vars

----------------------------------------------------------------------------
(* Reference definitions: the instants a schedule names.                   *)

Instants == 0..(2 * MaxTime)

\* Every instant the schedule names: anchor + k*delta for k >= 0, the cron's
\* matches, the one date.
Grid ==
    CASE sched.type = "once" -> {sched.at}
      [] sched.type = "cron" ->
           {t \in Instants : t % sched.cron.every = sched.cron.phase % sched.cron.every}
      [] sched.type = "interval" /\ sched.delta.unit = "fixed" ->
           {t \in Instants : t >= sched.anchor /\ (t - sched.anchor) % sched.delta.n = 0}
      [] OTHER ->
           {AddMonths(sched.anchor, k * sched.delta.n) : k \in 0..MaxSteps}

Anchored == sched.type # "interval" \/ sched.anchor # NoTime

----------------------------------------------------------------------------
(* Properties.                                                             *)

\* Every variable keeps its type.
TypeOK ==
    /\ sched \in Schedules /\ now \in 0..MaxTime
    /\ next \in Nat \cup {NoTime} /\ missed \in Nat /\ prev \in Nat \cup {NoTime}

\* next_run: "the next fire time strictly after ``after``".  A tick never leaves
\* the cursor where the same tick would find the schedule due again.
StrictlyAfter == next # NoTime => next > now

\* _step_interval: "Smallest ``anchor + k*delta`` > ``after``".  The cursor is an
\* instant the schedule names, and no named instant lies between now and it; a
\* schedule retires only when no named instant is left.
OnTheGrid ==
    Anchored =>
        IF next = NoTime THEN \A t \in Grid : t <= now
        ELSE next \in Grid /\ \A t \in Grid : t > now => next <= t

\* missed_periods: the fires a late tick jumped over are exactly the instants
\* the schedule names after the due one, up to the tick.
MissedAreTheJumped ==
    Anchored /\ prev # NoTime =>
        missed = IF sched.type = "once" THEN 0
                 ELSE Cardinality({t \in Grid : prev < t /\ t <= now})

\* Both together: a tick leaves the cursor on the very next named instant and counts
\* every one it jumped.
CursorExact == OnTheGrid /\ MissedAreTheJumped

=============================================================================
