---------------------------- MODULE ActivityLog -----------------------------
(***************************************************************************)
(* The request log (apps/activity) and what is computed from it: the       *)
(* activity dashboard, its drill-downs and tabs, the API activity page and *)
(* the threat panel (apps/api), a user's own figures.                      *)
(*                                                                         *)
(* A worker answers a request, stamps a row with the time and inserts it,  *)
(* in three steps, so rows of two workers may be inserted in another order *)
(* than they were stamped.  prune_activity cuts the log beside them.       *)
(***************************************************************************)
EXTENDS Integers, FiniteSets, FiniteSetsExt

CONSTANTS
    Workers,        \* processes that answer requests
    Users,
    Tokens,         \* API tokens, all of Owner
    Owner,
    Traffic,        \* requests there may be: [path, excluded, ip, cred, ua, method, answer]
    MaxRows,        \* ACTIVITY_MAX_ROWS
    AuthThreshold, BurstThreshold, PathThreshold, MissThreshold,
    Top,            \* how many rows a "top" list or a detector keeps
    Profiles,       \* accounts there may be at first: [user -> [there, joined, theme, palette]]
    Palettes,       \* UserProfile.COLOR_PALETTE_CHOICES without the blank one
    LastPalette,    \* the last of them
    MaxRequests,    \* bound: requests in all
    Horizon         \* bound: ticks of the clock

VARIABLES
    log,       \* RequestLog rows
    nextPk,    \* the sequence of its primary key
    worker,    \* what each worker is doing
    prune,     \* the prune_activity command: its count and its cutoff
    lost,      \* rows it deleted, with the log at its cut
    hour,      \* the clock
    live,      \* tokens with is_active
    retried,   \* tokens presented after they were revoked
    account,   \* per user: there, joined, theme, palette
    locked,    \* addresses django-axes has locked out, within its cool-off
    requests   \* requests so far

vars == <<log, nextPk, worker, prune, lost, hour, live, retried, account, locked, requests>>

Nobody == "nobody"
Idle == [pc |-> "idle"]

-----------------------------------------------------------------------------
(* ActivityMiddleware.                                                     *)

\* _authenticate_api_request: a live token answers for its owner and is remembered on the
\* request; any other is refused with 401, and the request remembers nothing.
authenticate(t) ==
    IF t.cred \in Tokens
    THEN IF t.cred \in live THEN [user |-> Owner, token |-> t.cred, code |-> t.answer]
                            ELSE [user |-> Nobody, token |-> Nobody, code |-> 401]
    ELSE [user |-> t.cred, token |-> Nobody, code |-> t.answer]

\* __call__: excluded prefixes are answered and not recorded.
Answer(w, t) ==
    /\ worker[w].pc = "idle" /\ requests < MaxRequests
    /\ t.cred \in Users => account[t.cred].there
    /\ requests' = requests + 1
    /\ retried' = IF t.cred \in Tokens \ live THEN retried \cup {t.cred} ELSE retried
    /\ worker' = IF t.excluded THEN worker
                 ELSE [worker EXCEPT ![w] = [pc |-> "record", at |-> 0, t |-> t, as |-> authenticate(t)]]
    /\ UNCHANGED <<log, nextPk, prune, lost, hour, live, account, locked>>

\* _record: the timestamp is taken in the worker (auto_now_add), the key by the insert.
Stamp(w) ==
    /\ worker[w].pc = "record"
    /\ worker' = [worker EXCEPT ![w].pc = "insert", ![w].at = hour]
    /\ UNCHANGED <<log, nextPk, prune, lost, hour, live, retried, account, locked, requests>>

\* The insert, or an error of it, which is logged and swallowed.
Insert(w) ==
    /\ worker[w].pc = "insert"
    /\ worker' = [worker EXCEPT ![w] = Idle]
    /\ LET r == worker[w] IN
       \/ /\ log' = log \cup {[pk |-> nextPk, at |-> r.at, path |-> r.t.path, ip |-> r.t.ip,
                               ua |-> r.t.ua, method |-> r.t.method, code |-> r.as.code,
                               user |-> IF r.as.user \in Users /\ account[r.as.user].there
                                        THEN r.as.user ELSE Nobody,
                               token |-> r.as.token]}
          /\ nextPk' = nextPk + 1
       \/ UNCHANGED <<log, nextPk>>
    /\ UNCHANGED <<prune, lost, hour, live, retried, account, locked, requests>>

\* Rows by "-timestamp"; ties in any order the database likes, here by key.
Newer(r, s) == r.at > s.at \/ (r.at = s.at /\ r.pk > s.pk)
Newest(S, n) == {r \in S : Cardinality({s \in S : Newer(s, r)}) < n}

\* prune_activity: count; the key of the oldest row to keep; the delete by key.
PruneCount ==
    /\ prune.pc = "idle" /\ Cardinality(log) > MaxRows
    /\ prune' = [pc |-> "cut", cutoff |-> 0, seen |-> {}]
    /\ UNCHANGED <<log, nextPk, worker, lost, hour, live, retried, account, locked, requests>>
\* Variant: the cutoff is the next key.
PruneCutLate ==
    /\ prune.pc = "cut"
    /\ prune' = [pc |-> "delete", seen |-> log, cutoff |-> nextPk]
    /\ UNCHANGED <<log, nextPk, worker, lost, hour, live, retried, account, locked, requests>>

PruneCut ==
    /\ prune.pc = "cut"
    /\ prune' = [pc |-> "delete", seen |-> log,
                 cutoff |-> (CHOOSE r \in log : Cardinality({s \in log : Newer(s, r)}) = MaxRows - 1).pk]
    /\ UNCHANGED <<log, nextPk, worker, lost, hour, live, retried, account, locked, requests>>
PruneDelete ==
    /\ prune.pc = "delete"
    /\ log' = {r \in log : r.pk >= prune.cutoff}
    /\ lost' = [rows |-> {r \in log : r.pk < prune.cutoff}, seen |-> prune.seen]
    /\ prune' = [prune EXCEPT !.pc = "idle", !.seen = {}]
    /\ UNCHANGED <<nextPk, worker, hour, live, retried, account, locked, requests>>

\* APIToken.revoke; an account deleted, its rows' user set to NULL; the clock.
Revoke(k) ==
    /\ k \in live /\ live' = live \ {k}
    /\ UNCHANGED <<log, nextPk, worker, prune, lost, hour, retried, account, locked, requests>>
DeleteUser(u) ==
    /\ u # Owner /\ account[u].there
    /\ account' = [account EXCEPT ![u].there = FALSE]
    /\ log' = {IF r.user = u THEN [r EXCEPT !.user = Nobody] ELSE r : r \in log}
    /\ UNCHANGED <<nextPk, worker, prune, lost, hour, live, retried, locked, requests>>
Tick ==
    /\ hour < Horizon /\ hour' = hour + 1 /\ locked' = {}
    /\ UNCHANGED <<log, nextPk, worker, prune, lost, live, retried, account, requests>>

\* django-axes: the last failed sign-in of an address locks it out.
LockOut(ip) ==
    /\ locked' = {ip} /\ locked = {}
    /\ UNCHANGED <<log, nextPk, worker, prune, lost, hour, live, retried, account, requests>>

Init ==
    /\ log = {} /\ nextPk = 1
    /\ worker = [w \in Workers |-> Idle]
    /\ prune = [pc |-> "idle", cutoff |-> 0, seen |-> {}]
    /\ lost = [rows |-> {}, seen |-> {}]
    /\ hour = 0 /\ live = Tokens /\ retried = {} /\ locked = {} /\ requests = 0
    /\ account \in Profiles

Next ==
    \/ \E w \in Workers : Stamp(w) \/ Insert(w) \/ (\E t \in Traffic : Answer(w, t))
    \/ PruneCount \/ PruneCut \/ PruneDelete
    \/ \E k \in Tokens : Revoke(k)
    \/ \E u \in Users : DeleteUser(u)
    \/ \E t \in Traffic : LockOut(t.ip)
    \/ Tick

Spec == Init /\ [][Next]_vars

-----------------------------------------------------------------------------
(* The activity pages.                                                     *)

\* The clock tells the windows apart that the code asks for, and no more.
Minute == 0
Hour == 1
Day == 2
Month == 3
Forever == 99

There == {u \in Users : account[u].there}
Since(S, n) == {r \in S : r.at >= hour - n}
Of(S, low, high) == {r \in S : low <= r.code /\ r.code < high}
Hits(S, key(_), v) == Cardinality({r \in S : key(r) = v})
Path(r) == r.path
UserOf(r) == r.user
Values(S, key(_)) == {key(r) : r \in S}

\* ActivityStatDetailView: the rows behind a card.
stat_detail(stat) ==
    CASE stat = "requests" -> log
      [] stat = "4xx" -> Of(log, 400, 500)
      [] stat = "5xx" -> {r \in log : r.code >= 500}
      [] OTHER -> {r \in log : r.code = stat}
stat_users(stat) == IF stat = "users" THEN There ELSE {u \in There : account[u].joined >= hour - Month}

\* status_groups, which the dashboard and the requests page both build; empty groups are left out.
Bands == {<<200, 300>>, <<300, 400>>, <<400, 500>>, <<500, 600>>}
status_groups == {<<b, Cardinality(Of(log, b[1], b[2]))>> : b \in {x \in Bands : Of(log, x[1], x[2]) # {}}}

\* The theme bars: profiles by theme and palette, the blank palette counted as django.
PaletteOf(u) == IF account[u].palette = "" THEN "django" ELSE account[u].palette
crosstab(theme, p) == Cardinality({u \in There : account[u].theme = theme /\ PaletteOf(u) = p})
BarTotal(p) == crosstab("dark", p) + crosstab("light", p)
theme_bars == {p \in Palettes : BarTotal(p) > 0}

\* ActivityDashboardView.get_context_data.  The loop over the palettes reuses the name of the
\* request count, so what reaches the template is the total of the last palette.
dashboard ==
    [total_requests |-> BarTotal(LastPalette),
     count_4xx |-> Cardinality(Of(log, 400, 500)),
     count_5xx |-> Cardinality({r \in log : r.code >= 500}),
     top_users |-> {u \in Users : Hits(log, UserOf, u) > 0},
     user_count |-> Cardinality(There),
     recent_signup_count |-> Cardinality({u \in There : account[u].joined >= hour - Month})]

\* RequestListView: status header, and the tabs' counts.
list_header == [groups |-> status_groups, total |-> Cardinality(log)]
top_paths_tab == {<<p, Hits(log, Path, p)>> : p \in Values(log, Path)}
errors_tab(code) ==
    LET errors == {r \in log : r.code >= 300} IN
    [total |-> Cardinality(errors), counts |-> {<<c, Cardinality({r \in Since(errors, Day) : r.code = c})>> :
                                                c \in {r.code : r \in Since(errors, Day)}},
     rows |-> IF code = 0 THEN errors ELSE {r \in errors : r.code = code}]
by_method_tab == [stats |-> {<<m, Cardinality({r \in Since(log, Day) : r.method = m})>> :
                             m \in {r.method : r \in Since(log, Day)}},
                  total |-> Cardinality(Since(log, Day))]

\* UserActivityView: the tabs over users.
top_users_tab == {<<u, Hits(log, UserOf, u)>> : u \in Values({r \in log : r.user # Nobody}, UserOf)}
activity_tab == {r \in log : r.user # Nobody}
inactive_tab == There \ Values({r \in log : r.user # Nobody}, UserOf)

\* ActivityDashboardWidget and the explorer list's accessory.
activity_widget == [total |-> Cardinality(log), last_24h |-> Cardinality(Since(log, Day))]
explorer_stats == [total |-> Cardinality(log), last_24h |-> Cardinality(Since(log, Day)),
                   errors |-> Cardinality({r \in log : r.code >= 400})]

\* A user's page (usermanager) and the profile's bars over nested periods.
user_activity_stats(u) ==
    LET mine == {r \in log : r.user = u} IN
    [total |-> Cardinality(mine), last_30 |-> Cardinality(Since(mine, Month)), last_7 |-> Cardinality(Since(mine, Day))]
profile_bars(u) == [n \in 1..3 |-> Cardinality(Since({r \in log : r.user = u}, n * Month))]

-----------------------------------------------------------------------------
(* apps/api: the threat panel and the API activity page.                   *)

Api == {r \in log : r.path # "page"}
Ips(S) == {r.ip : r \in S} \ {Nobody}
Signal(severity, label, ip, S) == [severity |-> severity, label |-> label, ip |-> ip, rows |-> S]
\* Detectors keep the strongest Top signals.
Capped(S) == {x \in S : Cardinality({y \in S : Cardinality(y.rows) > Cardinality(x.rows)}) < Top}

detect_auth_failure_burst ==
    LET S(ip) == {r \in Since(Api, Hour) : r.code \in {401, 403} /\ r.ip = ip} IN
    Capped({Signal("high", "auth", ip, S(ip)) : ip \in {i \in Ips(Api) : Cardinality(S(i)) >= AuthThreshold}})
detect_request_burst ==
    LET S(ip) == {r \in Since(Api, Minute) : r.ip = ip} IN
    Capped({Signal("medium", "burst", ip, S(ip)) : ip \in {i \in Ips(Api) : Cardinality(S(i)) >= BurstThreshold}})
detect_path_scanning ==
    LET S(ip) == {r \in Since(Api, Hour) : r.ip = ip}
        Miss(ip) == {r \in S(ip) : r.code = 404}
    IN  Capped({Signal("medium", "scan", ip, Miss(ip)) :
                ip \in {i \in Ips(Api) : /\ Cardinality(Values(S(i), Path)) >= PathThreshold
                                         /\ Cardinality(Miss(i)) >= MissThreshold}})
\* Grouped by address and agent, the rows without an address too.
detect_scanner_user_agents ==
    LET S(ip) == {r \in Since(Api, Day) : r.ua = "scanner" /\ r.ip = ip} IN
    Capped({Signal("medium", "agent", ip, S(ip)) : ip \in {r.ip : r \in {x \in Since(Api, Day) : x.ua = "scanner"}}})
\* Rows recorded with a token that is inactive now.
detect_revoked_token_use ==
    LET S(k, ip) == {r \in Since(Api, Day) : r.token = k /\ r.ip = ip} IN
    Capped({Signal("low", x[1], x[2], S(x[1], x[2])) : x \in
             {y \in (Tokens \ live) \X {r.ip : r \in log} : S(y[1], y[2]) # {}}})

\* Addresses locked out now; the rows are django-axes' own.
detect_axes_lockouts == {Signal("high", "lockout", ip, {}) : ip \in locked}

\* collect_threats, and the widget's shortcut to its high rows.
collect_threats ==
    detect_axes_lockouts \cup detect_auth_failure_burst \cup detect_request_burst \cup detect_path_scanning
    \cup detect_scanner_user_agents \cup detect_revoked_token_use
count_high_severity_threats == Cardinality(detect_axes_lockouts) + Cardinality(detect_auth_failure_burst)
api_widget == IF count_high_severity_threats > 0 THEN "degraded" ELSE "operational"

\* APIAdminActivityView: the table under its filters, the endpoints of the window.
activity_table(since, low, ip, scanner) ==
    {r \in (IF since = Forever THEN Api ELSE Since(Api, since)) :
       /\ low # 0 => low <= r.code /\ r.code < low + 100
       /\ ip # "" => r.ip = ip
       /\ scanner => r.ua = "scanner"}
per_endpoint(since) ==
    LET base == IF since = Forever THEN Api ELSE Since(Api, since) IN
    {[path |-> p, hits |-> Hits(base, Path, p),
      errors |-> Cardinality({r \in base : r.path = p /\ r.code >= 400})] : p \in Values(base, Path)}

-----------------------------------------------------------------------------
(* Properties.                                                             *)

Second(p) == p[2]
SumOf(S) == MapThenSumSet(Second, S)

\* Every figure is the number of rows behind it, whatever was pruned, deleted or inserted
\* meanwhile: cards and drill-downs, bands and header, top lists, tabs, a user's own page; every
\* user is either listed with hits or inactive.
FiguresAgree ==
    /\ dashboard.count_4xx = Cardinality(stat_detail("4xx"))
    /\ dashboard.count_5xx = Cardinality(stat_detail("5xx"))
    /\ dashboard.user_count = Cardinality(stat_users("users"))
    /\ dashboard.recent_signup_count = Cardinality(stat_users("new_signups"))
    /\ dashboard.top_users \cup inactive_tab = There /\ dashboard.top_users \cap inactive_tab = {}
    /\ SumOf(list_header.groups) = list_header.total
    /\ SumOf(top_paths_tab) = Cardinality(stat_detail("requests"))
    /\ SumOf(top_users_tab) = Cardinality(activity_tab)
    /\ SumOf(by_method_tab.stats) = by_method_tab.total
    /\ by_method_tab.total = activity_widget.last_24h
    /\ errors_tab(0).total = list_header.total - Cardinality(Of(log, 200, 300))
    /\ \A x \in errors_tab(0).counts : x[2] <= Cardinality(errors_tab(x[1]).rows)
    /\ explorer_stats.errors = dashboard.count_4xx + dashboard.count_5xx
    /\ \A u \in There : /\ user_activity_stats(u).last_30 = profile_bars(u)[1]
                        /\ profile_bars(u)[3] <= user_activity_stats(u).total
    /\ MapThenSumSet(BarTotal, theme_bars) = Cardinality(There)

\* Every signal is backed by rows the page's table shows under the signal's address, and the
\* widget degrades exactly when the panel has a high row.
SignalsBacked ==
    /\ \A s \in collect_threats :
         /\ s.rows # {} \/ s.label = "lockout"
         /\ s.ip # Nobody => s.rows \subseteq activity_table(Day, 0, s.ip, s.label = "agent")
    /\ count_high_severity_threats = Cardinality({s \in collect_threats : s.severity = "high"})
    /\ api_widget = "degraded" <=> \E s \in collect_threats : s.severity = "high"
    /\ \A n \in {Hour, Day, Forever} : MapThenSumSet(LAMBDA e : e.hits, per_endpoint(n))
                         = Cardinality(activity_table(n, 0, "", FALSE))

\* Where keys and timestamps agree, a prune deletes none of the newest MaxRows rows.
PruneKeepsNewest ==
    (\A r, s \in lost.seen : r.pk < s.pk => r.at <= s.at)
      => lost.rows \cap Newest(lost.seen, MaxRows) = {}

\* threats.py, detect_revoked_token_use: "Requests authenticated with a revoked APIToken -
\* someone retrying after revoke".
RevokedMeansRetried == \A s \in detect_revoked_token_use : s.label \in retried
=============================================================================
