----------------------------- MODULE Monitoring -----------------------------
(***************************************************************************)
(* The heartbeat app: monitors checked every minute, their raw beats, the  *)
(* daily summaries that pruning folds old beats into, maintenance windows, *)
(* the monitoring epoch, and the uptime every page computes from them.     *)
(* Time is in minutes (HEARTBEAT_EXPECTED_INTERVAL is one), a day has      *)
(* DayLen of them.  Percentages are pairs <<ok, denominator>>.             *)
(***************************************************************************)
EXTENDS Integers, FiniteSets, FiniteSetsExt

CONSTANTS
    Keys,         \* monitor keys
    DayLen,       \* minutes in a day
    Retention,    \* HEARTBEAT_RETENTION_DAYS
    StaleAfter,   \* minutes without a beat after which a monitor is down (5)
    Target, Minimum,  \* the service levels, in percent
    Recent,       \* how many beats the current status looks at (5)
    LastMinute,   \* bound: the clock
    EditMinutes,  \* the minutes a window or an epoch entered by hand may name
    MaxEdits      \* bound: windows, epochs and rows edited by hand

None == -1        \* no epoch

VARIABLES
    clock,       \* the minute
    rows,        \* key -> [enabled, public, exposed]: the registered monitor's row
    beats,       \* key -> minute -> "none", "ok" or "fail"
    daily,       \* key -> day -> NoRow or a summary
    windows,     \* set of [key, start, end, sla]
    epoch,       \* key -> started_at, or None
    tick,        \* key -> the check in flight: minute it reads as, or None
    edits,       \* edits so far
    synced       \* history: <<key, day>> summaries computed from today's windows and epoch

monVars == <<clock, rows, beats, daily, windows, epoch, tick, edits, synced>>

Minutes == 0 .. LastMinute
Days == 0 .. (LastMinute \div DayLen)
NoRow == [live |-> FALSE, ok |-> 0, fail |-> 0, maint |-> 0, expected |-> 0, uptime |-> <<0, 0>>]

Init ==
    /\ clock = 0
    /\ rows = [k \in Keys |-> [enabled |-> TRUE, public |-> TRUE, exposed |-> TRUE]]
    /\ beats = [k \in Keys |-> [m \in Minutes |-> "none"]]
    /\ daily = [k \in Keys |-> [d \in Days |-> NoRow]]
    /\ windows = {} /\ epoch = [k \in Keys |-> None] /\ tick = [k \in Keys |-> None]
    /\ edits = 0 /\ synced = {}

(***************************************************************************)
(* Windows, epochs and expected checks.                                    *)
(***************************************************************************)
WindowsOf(k) == {w \in windows : w.key = k}
Recorded(k) == {m \in Minutes : beats[k][m] # "none"}
Day(m) == m \div DayLen

is_in_maintenance(k, m) == \E w \in WindowsOf(k) : w.start <= m /\ m < w.end

\* The merged ranges, as the set of minutes they cover.
get_excluded_ranges(k, from, to) ==
    {m \in from .. (to - 1) : \E w \in WindowsOf(k) : w.sla /\ w.start <= m /\ m < w.end}

get_excluded_seconds(k, from, to) == Cardinality(get_excluded_ranges(k, from, to))

get_epoch(k) ==
    IF epoch[k] # None THEN epoch[k]
    ELSE IF Recorded(k) = {} THEN None ELSE Min(Recorded(k))

day_bounds(d) == <<d * DayLen, (d + 1) * DayLen>>

expected_intervals_for_day(k, d) ==
    LET bounds == day_bounds(d)
        start  == IF epoch[k] # None THEN Max({bounds[1], epoch[k]}) ELSE bounds[1]
        end    == Min({bounds[2], clock})
    IN  IF end <= start THEN 0 ELSE (end - start) - get_excluded_seconds(k, start, end)

Percent(ok, denominator) == IF denominator = 0 THEN <<0, 0>> ELSE <<ok, denominator>>

Count(k, ms, status) == Cardinality({m \in ms : beats[k][m] = status})

(***************************************************************************)
(* One check: the minute is read before the probe, the beat written after. *)
(***************************************************************************)
\* Rows that are not enabled have no monitor; an orphaned surface is skipped.
get_monitors == {k \in Keys : rows[k].enabled}

run_all_monitors(k) ==
    /\ k \in get_monitors /\ rows[k].exposed
    /\ tick[k] = None
    /\ tick' = [tick EXCEPT ![k] = clock]
    /\ UNCHANGED <<clock, rows, beats, daily, windows, epoch, edits, synced>>

ensure_epoch(k, bs) ==
    epoch' = [epoch EXCEPT ![k] =
                IF @ # None THEN @ ELSE Min({m \in Minutes : bs[m] # "none"})]

\* The probe answers, fails or raises; a beat of that minute is overwritten.
run_monitor_check(k, status) ==
    /\ tick[k] # None
    /\ tick' = [tick EXCEPT ![k] = None]
    /\ beats' = [beats EXCEPT ![k][tick[k]] = status]
    /\ ensure_epoch(k, beats'[k])
    /\ synced' = IF epoch[k] = None THEN {} ELSE synced
    /\ UNCHANGED <<clock, rows, daily, windows, edits>>

\* The process dies during the probe.
TickLost(k) ==
    /\ tick[k] # None
    /\ tick' = [tick EXCEPT ![k] = None]
    /\ UNCHANGED <<clock, rows, beats, daily, windows, epoch, edits, synced>>

(***************************************************************************)
(* Pruning.                                                                *)
(***************************************************************************)
Old(k) == {m \in Recorded(k) : m < clock - Retention * DayLen}

\* Variant: the last batch replaces the row.
FoldedLast(k, d, batch) ==
    LET ok       == Count(k, batch, "ok")
        fail     == Count(k, batch, "fail")
        expected == expected_intervals_for_day(k, d)
    IN  [live |-> TRUE, ok |-> ok, fail |-> fail, maint |-> 0, expected |-> expected,
         uptime |-> Percent(ok, Max({ok + fail, expected}))]

\* The summary of day d after folding the batch in.
Folded(k, d, batch) ==
    LET bounds   == day_bounds(d)
        excluded == batch \cap get_excluded_ranges(k, bounds[1], bounds[2])
        counted  == batch \ excluded
        old      == daily[k][d]
        ok       == old.ok + Count(k, counted, "ok")
        fail     == old.fail + Count(k, counted, "fail")
        expected == expected_intervals_for_day(k, d)
    IN  [live |-> TRUE, ok |-> ok, fail |-> fail,
         maint |-> old.maint + Cardinality(excluded), expected |-> expected,
         uptime |-> Percent(ok, Max({ok + fail, expected}))]

write_daily_summaries ==
    daily' = [k \in Keys |-> [d \in Days |->
                LET batch == {m \in Old(k) : Day(m) = d}
                IN  IF batch = {} THEN daily[k][d] ELSE Folded(k, d, batch)]]

prune_old_heartbeats ==
    /\ \E k \in Keys : Old(k) # {}
    /\ write_daily_summaries
    /\ beats' = [k \in Keys |-> [m \in Minutes |-> IF m \in Old(k) THEN "none" ELSE beats[k][m]]]
    /\ synced' = synced \cup UNION {{<<k, Day(m)>> : m \in Old(k)} : k \in Keys}
    /\ UNCHANGED <<clock, rows, windows, epoch, tick, edits>>

\* heartbeat --repair-summaries: rows with fewer than one in twenty expected beats go.
repair_summaries ==
    /\ edits < MaxEdits /\ edits' = edits + 1
    /\ daily' = [k \in Keys |-> [d \in Days |->
                   IF daily[k][d].expected > 0
                      /\ 20 * (daily[k][d].ok + daily[k][d].fail) < daily[k][d].expected
                   THEN NoRow ELSE daily[k][d]]]
    /\ daily' # daily
    /\ UNCHANGED <<clock, rows, beats, windows, epoch, tick, synced>>

\* heartbeat --reprorate: expected and uptime of every row from the present windows.
reprorate ==
    /\ edits < MaxEdits /\ edits' = edits + 1
    /\ daily' = [k \in Keys |-> [d \in Days |->
                   LET r == daily[k][d]
                       e == expected_intervals_for_day(k, d)
                   IN  IF ~r.live THEN r
                       ELSE [r EXCEPT !.expected = e,
                                      !.uptime = Percent(r.ok, Max({r.ok + r.fail, e}))]]]
    /\ daily' # daily
    /\ synced' = Keys \X Days
    /\ UNCHANGED <<clock, rows, beats, windows, epoch, tick>>

(***************************************************************************)
(* Edits by hand.                                                          *)
(***************************************************************************)
Edit == edits < MaxEdits /\ edits' = edits + 1 /\ UNCHANGED <<clock, beats, daily, tick>>

SetWindows(ws) ==
    /\ windows' = ws /\ ws # windows /\ synced' = {}
    /\ UNCHANGED <<rows, epoch>>

open_window(k, start, end, sla) ==
    /\ start < end
    /\ SetWindows(windows \cup {[key |-> k, start |-> start, end |-> end, sla |-> sla]})

open_window_for(k, minutes) == open_window(k, clock, clock + minutes, TRUE)

close_windows(k, deleteFuture) ==
    LET active == {w \in WindowsOf(k) : w.start <= clock /\ clock < w.end}
        future == IF deleteFuture THEN {w \in WindowsOf(k) : w.start > clock} ELSE {}
    IN  SetWindows(((windows \ active) \ future) \cup {[w EXCEPT !.end = clock] : w \in active})

MaintenanceWindowForm(start, end) == start < end

maintenance_create(k, start, end, sla) ==
    MaintenanceWindowForm(start, end) /\ open_window(k, start, end, sla)

maintenance_edit(w, start, end, sla) ==
    /\ w \in windows /\ MaintenanceWindowForm(start, end)
    /\ SetWindows((windows \ {w}) \cup {[w EXCEPT !.start = start, !.end = end, !.sla = sla]})

maintenance_delete(w) == w \in windows /\ SetWindows(windows \ {w})

\* HeartbeatEpoch.reset, from the SLA form or heartbeat --reset-epoch.
reset_epoch(k, at) ==
    /\ epoch' = [epoch EXCEPT ![k] = at]
    /\ epoch' # epoch
    /\ synced' = {}
    /\ UNCHANGED <<rows, windows>>

\* The monitored-endpoint and site-monitor forms; a surface leaves or joins the API.
SetRow(k, r) == rows[k] # r /\ rows' = [rows EXCEPT ![k] = r] /\ UNCHANGED <<windows, epoch, synced>>

MonitoredEndpointCRUDView(k, on, shown) ==
    SetRow(k, [rows[k] EXCEPT !.enabled = on, !.public = shown])

get_exposed_surfaces(k, yes) == SetRow(k, [rows[k] EXCEPT !.exposed = yes])

Tick == clock < LastMinute /\ clock' = clock + 1
        /\ UNCHANGED <<rows, beats, daily, windows, epoch, tick, edits, synced>>

Edits ==
    /\ Edit
    /\ \E k \in Keys :
          \/ \E s, e \in EditMinutes, sla \in BOOLEAN : maintenance_create(k, s, e, sla)
          \/ open_window_for(k, 1)
          \/ \E future \in BOOLEAN : close_windows(k, future)
          \/ \E w \in windows, s, e \in EditMinutes, sla \in BOOLEAN : maintenance_edit(w, s, e, sla)
          \/ \E w \in windows : maintenance_delete(w)
          \/ \E at \in EditMinutes : reset_epoch(k, at)
          \/ \E on, shown \in BOOLEAN : MonitoredEndpointCRUDView(k, on, shown)
          \/ \E yes \in BOOLEAN : get_exposed_surfaces(k, yes)

Next ==
    \/ Tick
    \/ \E k \in Keys : run_all_monitors(k) \/ TickLost(k)
    \/ \E k \in Keys, status \in {"ok", "fail"} : run_monitor_check(k, status)
    \/ prune_old_heartbeats \/ repair_summaries \/ reprorate
    \/ Edits

Spec == Init /\ [][Next]_monVars

(***************************************************************************)
(* What the pages compute.                                                 *)
(***************************************************************************)
NewestBeat(k) == Max(Recorded(k))
RecentBeats(k) ==
    {m \in Recorded(k) : Cardinality({n \in Recorded(k) : n > m}) < Recent}

get_status_data(k) ==
    IF Recorded(k) = {} THEN "unknown"
    ELSE IF is_in_maintenance(k, clock) THEN "maintenance"
    ELSE IF beats[k][NewestBeat(k)] = "fail" \/ clock - NewestBeat(k) > StaleAfter THEN "down"
    ELSE IF \E m \in RecentBeats(k) : beats[k][m] = "fail" THEN "degraded"
    ELSE "operational"

get_non_maintenance_counts(k, from, to) ==
    LET counted == (Recorded(k) \cap (from .. (to - 1))) \ get_excluded_ranges(k, from, to)
    IN  <<Count(k, counted, "ok"), Cardinality(counted)>>

\* The calendar's and the 90-day timeline's figure for one day.
daily_uptime_map(k, d) ==
    LET bounds   == day_bounds(d)
        raw      == get_non_maintenance_counts(k, bounds[1], bounds[2])
        hasRaw   == \E m \in Recorded(k) : Day(m) = d
        ok       == daily[k][d].ok + (IF hasRaw THEN raw[1] ELSE 0)
        observed == daily[k][d].ok + daily[k][d].fail + (IF hasRaw THEN raw[2] ELSE 0)
    IN  IF ~daily[k][d].live /\ ~hasRaw THEN <<0, 0>>
        ELSE IF d = Day(clock) THEN Percent(ok, observed)
        ELSE Percent(ok, Max({observed, expected_intervals_for_day(k, d)}))

classify_day(k, d) ==
    LET u == daily_uptime_map(k, d)
    IN  IF (get_epoch(k) # None /\ d < Day(get_epoch(k))) \/ u[2] = 0 THEN "nodata"
        ELSE IF 100 * u[1] >= Target * u[2] THEN "up"
        ELSE IF 100 * u[1] >= Minimum * u[2] THEN "degraded" ELSE "down"

build_daily_timeline(k) == [d \in 0 .. Day(clock) |-> classify_day(k, d)]

maintenance_by_date(k, d) ==
    {w \in WindowsOf(k) : Day(w.start) <= d /\ d <= Day(w.end)}

build_calendar_months(k) ==
    [d \in 0 .. Day(clock) |->
        IF maintenance_by_date(k, d) # {} THEN "maintenance" ELSE classify_day(k, d)]

build_minute_timeline(k, m) ==
    IF get_epoch(k) # None /\ m + 1 <= get_epoch(k) THEN "pre-epoch"
    ELSE IF is_in_maintenance(k, m) THEN "maintenance"
    ELSE IF beats[k][m] = "none" THEN "missed" ELSE beats[k][m]

\* A slot [from, to) of the 15-minute timeline, and of the hourly one.
SlotCounts(k, from, to) ==
    LET bucket == Recorded(k) \cap (from .. (to - 1))
    IN  <<Count(k, bucket, "ok"), Count(k, bucket, "fail")>>
SlotInMaintenance(k, from, to) == \E w \in WindowsOf(k) : w.start < to /\ w.end > from

build_24h_timeline(k, from, to) ==
    LET c == SlotCounts(k, from, to)
    IN  IF get_epoch(k) # None /\ to <= get_epoch(k) THEN "pre-epoch"
        ELSE IF SlotInMaintenance(k, from, to) THEN "maintenance"
        ELSE IF c = <<0, 0>> THEN "missed"
        ELSE IF c[2] > 0 THEN (IF c[1] > 0 THEN "partial" ELSE "fail") ELSE "ok"

build_hourly_timeline(k, from, to) ==
    LET c == SlotCounts(k, from, to)
    IN  IF get_epoch(k) # None /\ to <= get_epoch(k) THEN "nodata"
        ELSE IF SlotInMaintenance(k, from, to) THEN "maintenance"
        ELSE IF c = <<0, 0>> THEN "nodata"
        ELSE IF c[2] > 0 THEN (IF c[1] > 0 THEN "degraded" ELSE "down") ELSE "up"

\* The worst state wins the banner.
Overall(states) ==
    IF "down" \in states THEN "down"
    ELSE IF "degraded" \in states THEN "degraded"
    ELSE IF "maintenance" \in states THEN "maintenance"
    ELSE IF "operational" \in states THEN "operational" ELSE "unknown"

PublicMonitors == {k \in get_monitors : rows[k].public /\ rows[k].exposed}

StatusPageView == Overall({get_status_data(k) : k \in PublicMonitors})

status_json == [k \in PublicMonitors |-> get_status_data(k)]

monitor_overview_state(k) == get_status_data(k)

status_overview_context == Overall({monitor_overview_state(k) : k \in get_monitors})

\* Variant: the card looks at the live inventory alone.
CardOfInventory(k, inventory) == IF inventory THEN "on" ELSE "down"

\* A row of the Site card: the live inventory (good, bad or raising) and the recorded state.
build_site_card(k, inventory) ==
    IF inventory /\ monitor_overview_state(k) \notin {"degraded", "down"} THEN "on" ELSE "down"

HeartbeatDashboardView(k) ==
    [status |-> get_status_data(k), overview |-> status_overview_context,
     minutes |-> [m \in 0 .. clock |-> build_minute_timeline(k, m)]]

SLADetailView(k) == [status |-> get_status_data(k), days |-> daily[k]]

MonitorDetailView(k) ==
    [state |-> monitor_overview_state(k), days |-> build_daily_timeline(k),
     calendar |-> build_calendar_months(k)]

(***************************************************************************)
(* Properties.                                                             *)
(***************************************************************************)
PastDays == 0 .. (Day(clock) - 1)
DayFigures ==
    [k \in Keys |-> [d \in PastDays |->
        <<daily_uptime_map(k, d), build_daily_timeline(k)[d], build_calendar_months(k)[d]>>]]

\* However a day's beats are split over prunes, with windows opened, moved or closed and
\* the epoch reset in between, folding beats into a summary changes no past day's figure
\* on the timeline or the calendar.
PruneKeepsUptime ==
    [][(\E k \in Keys, m \in Minutes : beats[k][m] # "none" /\ beats'[k][m] = "none")
        => DayFigures' = DayFigures]_monVars

\* The percentage stored for a fully pruned day (the SLA page's table) is the one the
\* timeline computes for it, whenever the row was written or re-prorated under the
\* present windows and epoch.
SummaryMatchesStatus ==
    \A k \in Keys, d \in PastDays :
        /\ SLADetailView(k).days[d].live
        /\ \A m \in Recorded(k) : Day(m) # d
        /\ <<k, d>> \in synced
        => SLADetailView(k).days[d].uptime = daily_uptime_map(k, d)

\* No page shows green for a monitor whose newest recorded check failed: not the public
\* page, the JSON, the overview, the detail page, the Site card whatever its live
\* inventory says, nor the slot of any timeline that check falls in.
NoGreenWhileFailing ==
    \A k \in get_monitors :
        (Recorded(k) # {} /\ beats[k][NewestBeat(k)] = "fail" /\ ~is_in_maintenance(k, clock)) =>
            LET m == NewestBeat(k) IN
            /\ k \in PublicMonitors => StatusPageView = "down" /\ status_json[k] = "down"
            /\ status_overview_context = "down"
            /\ build_site_card(k, TRUE) = "down"
            /\ HeartbeatDashboardView(k).status = "down"
            /\ HeartbeatDashboardView(k).minutes[m] # "ok"
            /\ MonitorDetailView(k).state = "down"
            /\ build_24h_timeline(k, m - 1, m + 1) # "ok"
            /\ build_hourly_timeline(k, m, m + 2) # "up"

\* Both together.
PagesHonest == SummaryMatchesStatus /\ NoGreenWhileFailing
=============================================================================
