--------------------------- MODULE CalendarMonth ----------------------------
(***************************************************************************)
(* CalendarDisplay.get_context: one month of a list as a grid of days.     *)
(* Rows arrive in the order the database returns them; each is put on      *)
(* every day it touches, a day shows MaxPerDay of them and counts the      *)
(* others.  Days are numbered through; a month is a run of days.           *)
(***************************************************************************)
EXTENDS Integers, Sequences, FiniteSets

CONSTANTS
    Lengths,     \* the lengths of consecutive months; day 1 is a Monday
    Spans,       \* the rows there can be: [pk, start, end], end 0 when it is NULL
    MaxPerDay    \* max_per_day

VARIABLES
    cal,      \* the display: the month, the selected day, whether it has an end field
    rows,     \* the queryset
    todo,     \* filtered rows not yet placed
    shown,    \* events_by_day
    over,     \* overflow_by_day
    listed    \* selected_day_events

vars == <<cal, rows, todo, shown, over, listed>>

Horizon == LET upto[m \in 0 .. Len(Lengths)] == IF m = 0 THEN 0 ELSE upto[m - 1] + Lengths[m]
           IN upto
Days == 1 .. Horizon[Len(Lengths)]

\* The month's first and last day.
month_start == Horizon[cal.month - 1] + 1
month_end == Horizon[cal.month]

\* The rows the database is asked for: with an end field those that overlap the month (a
\* row whose end is NULL compares with nothing), else those that start in it.
filtered ==
    IF cal.ends THEN {e \in rows : e.end # 0 /\ e.start <= month_end /\ e.end >= month_start}
    ELSE {e \in rows : e.start \in month_start .. month_end}

\* A day of another month is no selection.
selected_day == IF cal.day \in month_start .. month_end THEN cal.day ELSE 0

last_day(e) == IF cal.ends THEN e.end ELSE e.start
Touches(e, d) == d \in e.start .. last_day(e)

\* The loop body: the row on each of its days within the month.
Place(e) ==
    /\ e \in todo
    /\ todo' = todo \ {e}
    /\ LET on == {d \in month_start .. month_end : Touches(e, d)}
           room == {d \in on : Cardinality(shown[d]) < MaxPerDay} IN
       /\ shown' = [d \in Days |-> IF d \in room THEN shown[d] \cup {e} ELSE shown[d]]
       /\ over' = [d \in Days |-> IF d \in on \ room THEN over[d] + 1 ELSE over[d]]
       /\ listed' = IF selected_day \in on THEN listed \cup {e} ELSE listed
    /\ UNCHANGED <<cal, rows>>

\* The grid: blanks before the first weekday, the days, blanks to the end of the last week.
first_weekday == (month_start - 1) % 7
weeks ==
    LET cells == first_weekday + month_end - month_start + 1
        full == ((cells + 6) \div 7) * 7 IN
    [i \in 1 .. full |-> IF i > first_weekday /\ i <= cells THEN month_start + i - first_weekday - 1 ELSE 0]

\* event_count in the heading.
event_count ==
    Cardinality({p \in Days \X rows : p[2] \in shown[p[1]]})
    + LET sum[d \in {0} \cup Days] == IF d = 0 THEN 0 ELSE sum[d - 1] + over[d]
      IN sum[Horizon[Len(Lengths)]]

Init ==
    /\ cal \in [month : 1 .. Len(Lengths), day : {0} \cup Days, ends : BOOLEAN]
    /\ rows \in SUBSET Spans
    /\ todo = filtered
    /\ shown = [d \in Days |-> {}] /\ over = [d \in Days |-> 0] /\ listed = {}

Next == \E e \in todo : Place(e)

Spec == Init /\ [][Next]_vars

\* "Counts stay exact": when every row is placed, a day shows at most MaxPerDay rows and
\* counts the rest, so that both together are the rows touching it that the month loads; the
\* selected day lists all of its rows, capped or not; the heading adds the days up; the grid
\* holds each day of the month once, under its weekday.
CountsExact ==
    LET loaded == IF cal.ends THEN {e \in rows : e.end # 0} ELSE rows
        on(d) == {e \in loaded : Touches(e, d)} IN
    /\ todo = {} =>
         /\ \A d \in month_start .. month_end :
              /\ Cardinality(shown[d]) + over[d] = Cardinality(on(d))
              /\ Cardinality(shown[d]) <= MaxPerDay /\ (over[d] > 0 => Cardinality(shown[d]) = MaxPerDay)
         /\ selected_day # 0 => listed = on(selected_day)
         /\ event_count = Cardinality({p \in (month_start .. month_end) \X loaded : Touches(p[2], p[1])})
    /\ \A d \in month_start .. month_end :
         \E i \in DOMAIN weeks : weeks[i] = d /\ (i - 1) % 7 = (d - 1) % 7
    /\ Len(weeks) % 7 = 0 /\ Len(weeks) < month_end - month_start + 1 + 13
=============================================================================
