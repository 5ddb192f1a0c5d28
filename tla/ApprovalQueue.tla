--------------------------- MODULE ApprovalQueue ----------------------------
(***************************************************************************)
(* The surfaces of approvals: the console's list with its stat card,       *)
(* status filter and row badge, the decision card, the REST endpoints, the *)
(* MCP tools, the dashboard widget and the status monitor.  Expiry is      *)
(* lazy: an overdue row is stored as pending until a page load, a decision *)
(* or the sweep flips it, and every surface has to allow for that.         *)
(*                                                                         *)
(* A service call is one step here; Approvals takes it apart.              *)
(***************************************************************************)
EXTENDS Integers, FiniteSets

CONSTANTS
    Ids,         \* approval requests there can be
    Users, Staff,
    Filers,      \* the ones who file requests
    Routings,    \* the assignees a filing may name
    Kinds,       \* what an app's approvals.py may declare: [allow, only, ttl]
    LazyLimits,  \* SMALLSTACK_APPROVALS_LAZY_EXPIRE_LIMIT
    Cap,         \* SMALLSTACK_APPROVALS_MAX_PENDING_PER_REQUESTER, 0 for none
    Horizon,     \* bound: minutes
    MaxLeavers   \* bound: accounts closed

VARIABLES
    item,     \* ApprovalRequest by id
    kind,     \* the registry's entry of the one kind, or NoKind
    minute,   \* the clock
    mail,     \* the queued email tasks: none, young ones, some past the grace window
    active,   \* accounts with is_active
    setup     \* settings: emails enabled, lazy limit

vars == <<item, kind, minute, mail, active, setup>>

Statuses == {"pending", "approved", "rejected", "canceled", "expired"}
NoKind == [allow |-> {"nobody"}, only |-> Users, ttl |-> 0]
NoItem == [status |-> "none", from |-> "nobody", to |-> {}, due |-> 0]

There == {i \in Ids : item[i].status # "none"}
IsOverdue(i) == item[i].status = "pending" /\ item[i].due # 0 /\ item[i].due <= minute

-----------------------------------------------------------------------------
(* Reading.                                                                *)

\* Variant: a row whose minute has just come is not overdue yet.
overdue_later ==
    {i \in There : item[i].status = "pending" /\ item[i].due # 0 /\ item[i].due < minute}

\* ApprovalRequestQuerySet: overdue, actionable and for_effective_status.
overdue == {i \in There : IsOverdue(i)}
actionable == {i \in There : item[i].status = "pending"} \ overdue
for_effective_status(S, v) ==
    CASE v = "pending" -> S \cap actionable
      [] v = "expired" -> {i \in S : item[i].status = "expired"} \cup (S \cap overdue)
      [] OTHER -> {i \in S : item[i].status = v}

\* The row-level twin, shown by _status_badge.
effective_status(i) == IF IsOverdue(i) THEN "expired" ELSE item[i].status

\* permissions: active accounts; staff see all, others what they filed or are asked.
is_staff(u) == u \in Staff /\ u \in active
viewable_requests(u) ==
    IF u \notin active THEN {}
    ELSE IF is_staff(u) THEN There
    ELSE {i \in There : item[i].from = u \/ u \in item[i].to}

\* can_decide, for the stored status; the kind's hook narrows.
can_decide(u, i) ==
    /\ u \in active /\ item[i].status = "pending" /\ item[i].from # u
    /\ is_staff(u) \/ u \in item[i].to
    /\ u \in kind.only
can_cancel(u, i) ==
    u \in active /\ item[i].status = "pending" /\ (item[i].from = u \/ is_staff(u))

\* StatsAccessory's first card, apply_filter, the dashboard widget and pending_for.
pending_card(u) == Cardinality(for_effective_status(viewable_requests(u), "pending"))
apply_filter(u, v) == for_effective_status(viewable_requests(u), v)
get_data == Cardinality(actionable)
pending_for(u) == viewable_requests(u) \cap actionable

\* search_visibility: the scoper, which the engine leaves out for staff.
search_visibility(u) == IF u \in Staff /\ u \in active THEN There ELSE viewable_requests(u)

\* approval_card: the buttons.
approval_card(u, i) == [decide |-> can_decide(u, i), cancel |-> can_cancel(u, i)]

\* _register_surfaces: the sidebar of a signed-in user.
register_surfaces(u) == {s \in {"admin", "app"} : s = "admin" <=> u \in Staff}

\* ApprovalsFanoutMonitor: the mails, then the check, which collects every problem.
queued_emails == IF setup.emails THEN mail ELSE "unknown"
check ==
    LET behind == Cardinality(overdue)
        problems == (IF queued_emails = "stale" THEN {"mail"} ELSE {})
                    \cup (IF behind > 4 * (IF setup.lazy > 1 THEN setup.lazy ELSE 1) THEN {"expiry"} ELSE {})
    IN  [up |-> problems = {}, problems |-> problems,
         clear |-> queued_emails = "none",
         waiting |-> Cardinality(actionable)]

-----------------------------------------------------------------------------
(* Writing.                                                                *)

Enqueued == IF setup.emails /\ mail = "none" THEN "young" ELSE mail

\* resolve_assignees: a remote caller names active accounts the kind allows.
resolve_assignees_ok(to) == to = {} \/ (kind # NoKind /\ to \subseteq active /\ to \subseteq kind.allow)

\* request_approval: cap, then the kind where the surface insists, then the expiry.
request_approval(u, to, ttl, require_known) ==
    \E i \in Ids \ There :
      /\ Cap > 0 => Cardinality({j \in actionable : item[j].from = u}) < Cap
      /\ require_known => kind # NoKind
      /\ LET span == IF ttl # 0 THEN ttl ELSE kind.ttl IN
         item' = [item EXCEPT ![i] = [status |-> "pending", from |-> u, to |-> to,
                                      due |-> IF span = 0 THEN 0 ELSE minute + span]]
      /\ mail' = Enqueued
      /\ UNCHANGED <<kind, minute, active, setup>>
PythonFile(u, to, ttl) == u \in active /\ request_approval(u, to, ttl, FALSE)
api_create_request(u, to, ttl) ==
    u \in active /\ resolve_assignees_ok(to) /\ request_approval(u, to, ttl, TRUE)
request_approval_tool(u, to, ttl) == api_create_request(u, to, ttl)

\* A terminal status, with the mail of the outcome.
Close(i, status) ==
    /\ mail' = Enqueued
    /\ item' = [item EXCEPT ![i].status = status]
    /\ UNCHANGED <<kind, minute, active, setup>>

\* decide: an overdue row is expired instead, whoever asked; then eligibility.
decide(u, i, verdict) ==
    \/ IsOverdue(i) /\ Close(i, "expired")
    \/ ~IsOverdue(i) /\ can_decide(u, i) /\ Close(i, verdict)

\* The web form takes any request by its number, REST and MCP the ones the caller sees.
decide_request(u, i, verdict) == u \in active /\ i \in There /\ decide(u, i, verdict)
api_decide_request(u, i, verdict) == i \in viewable_requests(u) /\ decide(u, i, verdict)
decide_approval_tool(u, i, verdict) == api_decide_request(u, i, verdict)

\* cancel: an overdue row may still be withdrawn.
cancel_request(u, i) == u \in active /\ can_cancel(u, i) /\ Close(i, "canceled")

\* mark_expired: the first of the overdue rows by expiry, at most limit of them.
mark_expired(S, limit) ==
    /\ S # {}
    /\ \E T \in SUBSET S :
         /\ Cardinality(T) = IF limit < Cardinality(S) THEN limit ELSE Cardinality(S)
         /\ \A i \in T, j \in S \ T : item[i].due <= item[j].due
         /\ item' = [i \in Ids |-> IF i \in T THEN [item[i] EXCEPT !.status = "expired"] ELSE item[i]]
         /\ mail' = IF T = {} THEN mail ELSE Enqueued
    /\ UNCHANGED <<kind, minute, active, setup>>

\* The list page and the REST and MCP lists (get_list_queryset), once per request.
get_list_queryset(u) == mark_expired(viewable_requests(u) \cap overdue, setup.lazy)
sweep_expired_approvals == mark_expired(overdue, Cardinality(Ids))

\* A redeploy changes what approvals.py declares; rows outlive it.
Redeploy(k) == kind' = k /\ kind # k /\ UNCHANGED <<item, minute, mail, active, setup>>

\* Time passes: young mails become stale; the worker sends them; an account is closed.
Tick ==
    /\ minute < Horizon
    /\ minute' = minute + 1
    /\ mail' = IF mail = "young" THEN "stale" ELSE mail
    /\ UNCHANGED <<item, kind, active, setup>>
SendMail ==
    /\ mail # "none" /\ mail' = "none"
    /\ UNCHANGED <<item, kind, minute, active, setup>>
Deactivate(u) ==
    /\ u \in active /\ Cardinality(Users \ active) < MaxLeavers
    /\ active' = active \ {u}
    /\ UNCHANGED <<item, kind, minute, mail, setup>>

Init ==
    /\ item = [i \in Ids |-> NoItem]
    /\ kind \in Kinds \cup {NoKind}
    /\ minute = 0 /\ mail = "none"
    /\ active = Users
    /\ setup \in [emails : BOOLEAN, lazy : LazyLimits]

Next ==
    \/ \E u \in Filers, to \in Routings, ttl \in {0, 1} :
         PythonFile(u, to, ttl) \/ api_create_request(u, to, ttl) \/ request_approval_tool(u, to, ttl)
    \/ \E u \in Users, i \in Ids, v \in {"approved", "rejected"} :
         decide_request(u, i, v) \/ api_decide_request(u, i, v) \/ decide_approval_tool(u, i, v)
    \/ \E u \in Users, i \in Ids : cancel_request(u, i)
    \/ \E u \in Users : get_list_queryset(u) \/ Deactivate(u)
    \/ sweep_expired_approvals \/ Tick \/ SendMail
    \/ \E k \in Kinds \cup {NoKind} : Redeploy(k)

Spec == Init /\ [][Next]_vars

-----------------------------------------------------------------------------
(* Properties.                                                             *)

\* models.py, for_effective_status: "the stat card, the ?status= filter (HTML + REST + MCP)
\* and the row badge cannot disagree".  For every reader each filter lists the visible rows
\* whose badge says so and the card counts the pending ones, before and after any sweep;
\* for staff so do the widget and the monitor, and search scopes like the list.  A monitor
\* that calls the mail queue clear has seen it empty.
NumbersAgree ==
    /\ \A u \in Users :
         /\ \A v \in Statuses : apply_filter(u, v) = {i \in viewable_requests(u) : effective_status(i) = v}
         /\ pending_card(u) = Cardinality(pending_for(u))
         /\ is_staff(u) => pending_card(u) = get_data /\ check.waiting = get_data
         /\ search_visibility(u) = viewable_requests(u)
    /\ check.clear => mail = "none"
    /\ mail = "stale" /\ setup.emails => ~check.up

\* Who may write may read: a row whose card offers a button is in the reader's list and
\* reachable over REST and MCP, and a row that was expired was due.
OfferedIsReachable ==
    /\ \A u \in Users, i \in There :
         approval_card(u, i).decide \/ approval_card(u, i).cancel => i \in viewable_requests(u)
    /\ \A u \in Users : Cardinality(register_surfaces(u)) = 1
    /\ \A i \in There : item[i].status = "expired" => item[i].due # 0 /\ item[i].due <= minute
=============================================================================
