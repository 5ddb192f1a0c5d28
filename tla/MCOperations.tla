---------------------------- MODULE MCOperations ----------------------------
(***************************************************************************)
(* Small instances of ScheduleCursor and Monitoring, side by side: a       *)
(* behaviour belongs to one of them; the other rests in an initial state.  *)
(***************************************************************************)
EXTENDS ScheduleCursor

CONSTANTS Keys, DayLen, Retention, StaleAfter, Target, Minimum, Recent, LastMinute,
          EditMinutes, MaxEdits                  \* of Monitoring

VARIABLES part,
    clock, rows, beats, daily, windows, epoch, tick, edits, synced

FixedSchedules ==
    {[type |-> "interval", delta |-> [unit |-> "fixed", n |-> n], anchor |-> from] :
        n \in 1..4, from \in {NoTime} \cup 0..6}
OnceSchedules == {[type |-> "once", at |-> at] : at \in 0..9}
CronSchedules == {[type |-> "cron", cron |-> [every |-> e, phase |-> f]] :
                    e \in 1..4, f \in 0..2}

\* Calendar intervals anchored on days that every month of ShortYear has.
EarlyDays ==
    {[type |-> "interval", delta |-> [unit |-> "calendar", n |-> n], anchor |-> from] :
        n \in {1, 2}, from \in {NoTime, 0, 1, 2}}
AllSchedules == FixedSchedules \cup OnceSchedules \cup CronSchedules \cup EarlyDays
ShortYear == <<5, 3, 5, 4>>

\* One monitor over two days of two minutes, one day of retention, two edits by hand.
Mon == INSTANCE Monitoring

\* Whole days are kept, one at least.
ASSUME MonitoringAssumption ==
    /\ DayLen \in Nat \ {0} /\ Retention \in Nat \ {0} /\ LastMinute \in Nat
    /\ EditMinutes \subseteq Nat

monVars == <<clock, rows, beats, daily, windows, epoch, tick, edits, synced>>

RestCursor == Init /\ sched = [type |-> "once", at |-> 9] /\ now = 0

AllInit ==
    /\ part \in {"cursor", "monitoring"}
    /\ IF part = "cursor" THEN Init ELSE RestCursor
    /\ Mon!Init

AllNext ==
    /\ UNCHANGED part
    /\ \/ part = "cursor" /\ Next /\ UNCHANGED monVars
       \/ part = "monitoring" /\ Mon!Next /\ UNCHANGED vars

AllSpec == AllInit /\ [][AllNext]_<<part, vars, monVars>>

\* Monitoring: folding beats into a daily summary changes no past day's figure.
PruneKeepsUptime == Mon!PruneKeepsUptime
\* Monitoring: no page shows green for a monitor whose newest check failed, and the
\* stored percentage of a day is the one the timeline computes.
PagesHonest == part = "monitoring" => Mon!PagesHonest
=============================================================================
