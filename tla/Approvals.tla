----------------------------- MODULE Approvals -----------------------------
(***************************************************************************)
(* apps/approvals with the part of apps/notifications it drives: filing a  *)
(* request, deciding, cancelling and expiring it, the effects that follow  *)
(* a transition (kind callback, re-save, audit, bell rows, mail), and the  *)
(* bell rows themselves.  Web, REST and MCP requests and the scheduled     *)
(* sweep run concurrently; nothing wraps a request in a transaction, so    *)
(* each SQL statement is one action.                                       *)
(***************************************************************************)
EXTENDS Naturals, FiniteSets

CONSTANTS
    MaxRows,       \* bound: how many approval requests may be filed
    MaxFaults,     \* bound: how many processes may be killed
    MaxLeavers,    \* bound: how many accounts may be deactivated
    Cap,           \* SMALLSTACK_APPROVALS_MAX_PENDING_PER_REQUESTER; 0 is none
    SelfApprove,   \* SMALLSTACK_APPROVALS_ALLOW_SELF_APPROVE
    StaffOverride, \* SMALLSTACK_APPROVALS_STAFF_OVERRIDE
    Users, Staff,  \* accounts, and those with is_staff
    Hooked,        \* accounts the kind's can_decide hook lets through
    Requesters,    \* who files
    Routings,      \* the assignee lists a filer may give
    Expiries,      \* whether a filed request has expires_at
    Nobody,        \* decided_by NULL, or the actor of an expiry
    Requests,      \* processes that serve a web, REST or MCP request
    Sweeper        \* the process that runs the scheduled sweep

ASSUME BoundsAssumption ==
    MaxRows \in Nat /\ MaxFaults \in Nat /\ MaxLeavers \in Nat /\ Cap \in Nat
ASSUME SettingsAssumption == SelfApprove \in BOOLEAN /\ StaffOverride \in BOOLEAN
ASSUME UsersAssumption ==
    /\ IsFiniteSet(Users) /\ Nobody \notin Users
    /\ Staff \subseteq Users /\ Hooked \subseteq Users /\ Requesters \subseteq Users
    /\ Routings \subseteq SUBSET Users /\ Expiries \subseteq BOOLEAN
ASSUME ProcsAssumption == Sweeper \notin Requests

VARIABLES
    req,     \* ApprovalRequest
    proc,    \* program counter and locals of each process
    rung,    \* Notification rows, as <<request, recipient, kind>>
    unread,  \* those with read_at NULL
    active,  \* accounts with is_active
    fx,      \* effects so far, per request: callback runs, audit rows, mails
    faults

vars == <<req, proc, rung, unread, active, fx, faults>>

Ids == 1..MaxRows
NoId == 0
Procs == Requests \cup {Sweeper}
Decisions == {"APPROVED", "REJECTED"}
TerminalStatuses == Decisions \cup {"CANCELED", "EXPIRED"}
Statuses == {"none", "PENDING"} \cup TerminalStatuses
Bells == Ids \X Users \X {"needed", "decided"}

\* `routed' is the assignee list the filer asked for; `assignees' what the
\* table holds.  `overdue' tells whether expires_at has passed.
Rows == [status : Statuses, by : Users \cup {Nobody}, requester : Users,
         routed : SUBSET Users, assignees : SUBSET Users,
         expires : BOOLEAN, overdue : BOOLEAN, err : BOOLEAN]
Locals == [pc : {"idle", "insert", "assign", "log", "ring", "mailreq", "claim", "sweep",
                 "callback", "save", "audit", "resolve", "announce", "mail"},
           i : Ids \cup {NoId}, who : Users \cup {Nobody}, to : Statuses,
           routed : SUBSET Users, expires : BOOLEAN, todo : SUBSET Ids]
Effects == [calls : Nat, audits : Nat, mails : Nat]

Idle == [pc |-> "idle", i |-> NoId, who |-> Nobody, to |-> "none",
         routed |-> {}, expires |-> FALSE, todo |-> {}]

Used(i) == req[i].status # "none"
IsPending(i) == req[i].status = "PENDING"
Terminal(i) == req[i].status \in TerminalStatuses
IsOverdue(i) == IsPending(i) /\ req[i].overdue
Free == {i \in Ids : ~Used(i)}
Fresh == CHOOSE i \in Free : \A j \in Free : i <= j

Init ==
    /\ \E u \in Users :
         req = [i \in Ids |-> [status |-> "none", by |-> Nobody, requester |-> u,
                               routed |-> {}, assignees |-> {},
                               expires |-> FALSE, overdue |-> FALSE, err |-> FALSE]]
    /\ proc = [p \in Procs |-> Idle]
    /\ rung = {} /\ unread = {}
    /\ active = Users
    /\ fx = [i \in Ids |-> [calls |-> 0, audits |-> 0, mails |-> 0]]
    /\ faults = 0

Goto(p, pc) == proc' = [proc EXCEPT ![p].pc = pc]

----------------------------------------------------------------------------
(* Who may do what: permissions.py.                                        *)

\* Variant: the requester is not excluded.
CanDecideSelf(u, i) ==
    /\ u \in active /\ IsPending(i)
    /\ IF req[i].assignees # {}
       THEN u \in req[i].assignees \/ (u \in Staff /\ StaffOverride)
       ELSE u \in Staff
    /\ u \in Hooked

CanDecide(u, i) ==
    /\ u \in active /\ IsPending(i)
    /\ u = req[i].requester => SelfApprove
    /\ IF req[i].assignees # {}
       THEN u \in req[i].assignees \/ (u \in Staff /\ StaffOverride)
       ELSE u \in Staff
    /\ u \in Hooked

CanCancel(u, i) ==
    u \in active /\ IsPending(i) /\ (u = req[i].requester \/ u \in Staff)

\* emails.approver_users.
Approvers(i) ==
    LET named == req[i].assignees \cap active
    IN  (IF named # {} THEN named ELSE Staff \cap active) \ {req[i].requester}

\* notify: one unread row for each active recipient but the actor.
NotifyAll(i, users, kind, actor) ==
    LET new == {<<i, u, kind>> : u \in (users \cap active) \ {actor}}
    IN  rung' = rung \cup new /\ unread' = unread \cup new

----------------------------------------------------------------------------
(* request_approval.                                                       *)

Outstanding(u) ==
    {i \in Ids : IsPending(i) /\ ~req[i].overdue /\ req[i].requester = u}

\* _check_pending_cap.
StartFile(p, u, A, exp) ==
    /\ proc[p] = Idle /\ Free # {}
    /\ Cap # 0 => Cardinality(Outstanding(u)) < Cap
    /\ proc' = [proc EXCEPT ![p] = [Idle EXCEPT !.pc = "insert", !.who = u,
                                               !.routed = A, !.expires = exp]]
    /\ UNCHANGED <<req, rung, unread, active, fx, faults>>

\* req.save(): the row is visible, without its assignees.
Insert(p) ==
    /\ proc[p].pc = "insert" /\ Free # {}
    /\ req' = [req EXCEPT ![Fresh] =
                 [status |-> "PENDING", by |-> Nobody, requester |-> proc[p].who,
                  routed |-> proc[p].routed, assignees |-> {},
                  expires |-> proc[p].expires, overdue |-> FALSE, err |-> FALSE]]
    /\ proc' = [proc EXCEPT ![p].i = Fresh,
                            ![p].pc = IF proc[p].routed = {} THEN "log" ELSE "assign"]
    /\ UNCHANGED <<rung, unread, active, fx, faults>>

Assign(p) ==
    /\ proc[p].pc = "assign"
    /\ req' = [req EXCEPT ![proc[p].i].assignees = proc[p].routed]
    /\ Goto(p, "log")
    /\ UNCHANGED <<rung, unread, active, fx, faults>>

\* log_write; outside a transaction on_commit then sends the signal at once.
LogFiled(p) ==
    /\ proc[p].pc = "log"
    /\ fx' = [fx EXCEPT ![proc[p].i].audits = @ + 1]
    /\ Goto(p, "ring")
    /\ UNCHANGED <<req, rung, unread, active, faults>>

\* notify_on_request.
Ring(p) ==
    /\ proc[p].pc = "ring"
    /\ NotifyAll(proc[p].i, Approvers(proc[p].i), "needed", proc[p].who)
    /\ Goto(p, "mailreq")
    /\ UNCHANGED <<req, active, fx, faults>>

MailRequested(p) ==
    /\ proc[p].pc = "mailreq"
    /\ fx' = [fx EXCEPT ![proc[p].i].mails = @ + 1]
    /\ proc' = [proc EXCEPT ![p] = Idle]
    /\ UNCHANGED <<req, rung, unread, active, faults>>

----------------------------------------------------------------------------
(* decide, cancel, mark_expired.                                           *)

\* decide on a request that is overdue: expire it instead.
StartDecideLate(p, i) ==
    /\ proc[p] = Idle /\ IsOverdue(i)
    /\ proc' = [proc EXCEPT ![p] = [Idle EXCEPT !.pc = "claim", !.i = i, !.to = "EXPIRED"]]
    /\ UNCHANGED <<req, rung, unread, active, fx, faults>>

\* decide up to the claim.
StartDecide(p, u, i, verdict) ==
    /\ proc[p] = Idle /\ IsPending(i) /\ ~IsOverdue(i) /\ CanDecide(u, i)
    /\ proc' = [proc EXCEPT ![p] = [Idle EXCEPT !.pc = "claim", !.i = i,
                                               !.who = u, !.to = verdict]]
    /\ UNCHANGED <<req, rung, unread, active, fx, faults>>

\* cancel up to the claim: it does not ask whether the request is overdue.
StartCancel(p, u, i) ==
    /\ proc[p] = Idle /\ CanCancel(u, i)
    /\ proc' = [proc EXCEPT ![p] = [Idle EXCEPT !.pc = "claim", !.i = i,
                                               !.who = u, !.to = "CANCELED"]]
    /\ UNCHANGED <<req, rung, unread, active, fx, faults>>

\* Variant: the claim is a plain save.
ClaimBlind(p) ==
    /\ proc[p].pc = "claim"
    /\ req' = [req EXCEPT ![proc[p].i].status = proc[p].to, ![proc[p].i].by = proc[p].who]
    /\ Goto(p, "callback")
    /\ UNCHANGED <<rung, unread, active, fx, faults>>

\* Variant: the number of updated rows is not looked at.
ClaimUnchecked(p) ==
    /\ proc[p].pc = "claim"
    /\ req' = IF IsPending(proc[p].i)
              THEN [req EXCEPT ![proc[p].i].status = proc[p].to,
                               ![proc[p].i].by = proc[p].who]
              ELSE req
    /\ Goto(p, "callback")
    /\ UNCHANGED <<rung, unread, active, fx, faults>>

\* _claim: one conditional UPDATE; the loser gets NotPending.
Claim(p) ==
    /\ proc[p].pc = "claim"
    /\ IF IsPending(proc[p].i)
       THEN /\ req' = [req EXCEPT ![proc[p].i].status = proc[p].to,
                                  ![proc[p].i].by = proc[p].who]
            /\ Goto(p, "callback")
       ELSE /\ proc' = [proc EXCEPT ![p] = Idle]
            /\ UNCHANGED req
    /\ UNCHANGED <<rung, unread, active, fx, faults>>

\* Variant: the sweep only looks at requests that name assignees.
OverdueRouted == {i \in Ids : IsOverdue(i) /\ req[i].assignees # {}}

Overdue == {i \in Ids : IsOverdue(i)}

\* mark_expired lists the overdue requests once: all of them in the sweep, the
\* visible ones up to lazy_expire_limit on a page load.
StartExpiry(p, S) ==
    /\ proc[p] = Idle /\ S # {} /\ S \subseteq Overdue
    /\ proc' = [proc EXCEPT ![p] = [Idle EXCEPT !.pc = "sweep", !.todo = S]]
    /\ UNCHANGED <<req, rung, unread, active, fx, faults>>

Rest(p) == IF proc[p].todo = {} THEN Idle
           ELSE [Idle EXCEPT !.pc = "sweep", !.todo = proc[p].todo]

\* Variant: a plain queryset update, without _finish.
ExpireNextSilent(p) ==
    /\ proc[p].pc = "sweep"
    /\ req' = [i \in Ids |-> IF i \in proc[p].todo /\ IsPending(i)
                             THEN [req[i] EXCEPT !.status = "EXPIRED"] ELSE req[i]]
    /\ proc' = [proc EXCEPT ![p] = Idle]
    /\ UNCHANGED <<rung, unread, active, fx, faults>>

\* The loop body up to _finish.
ExpireNext(p) ==
    /\ proc[p].pc = "sweep"
    /\ \E i \in proc[p].todo :
         IF IsPending(i)
         THEN /\ req' = [req EXCEPT ![i].status = "EXPIRED"]
              /\ proc' = [proc EXCEPT ![p] = [Idle EXCEPT !.pc = "callback", !.i = i,
                                               !.to = "EXPIRED", !.todo = proc[p].todo \ {i}]]
         ELSE /\ proc' = [proc EXCEPT ![p] = IF proc[p].todo = {i} THEN Idle
                                             ELSE [proc[p] EXCEPT !.todo = @ \ {i}]]
              /\ UNCHANGED req
    /\ UNCHANGED <<rung, unread, active, fx, faults>>

----------------------------------------------------------------------------
(* _finish: what the winner of a transition does.                          *)

\* The kind's on_decision; what it raises is stored and the decision stands.
RunCallback(p) ==
    /\ proc[p].pc = "callback"
    /\ fx' = [fx EXCEPT ![proc[p].i].calls = @ + 1]
    /\ \E err \in BOOLEAN : req' = [req EXCEPT ![proc[p].i].err = err]
    /\ Goto(p, "save")
    /\ UNCHANGED <<rung, unread, active, faults>>

\* req.save(update_fields=...) from the process's own copy.
Resave(p) ==
    /\ proc[p].pc = "save"
    /\ req' = [req EXCEPT ![proc[p].i].status = proc[p].to, ![proc[p].i].by = proc[p].who]
    /\ Goto(p, "audit")
    /\ UNCHANGED <<rung, unread, active, fx, faults>>

Audit(p) ==
    /\ proc[p].pc = "audit"
    /\ fx' = [fx EXCEPT ![proc[p].i].audits = @ + 1]
    /\ Goto(p, "resolve")
    /\ UNCHANGED <<req, rung, unread, active, faults>>

\* notify_on_decision, first half: resolve() retires the "needed" rows.
ResolveBell(p) ==
    /\ proc[p].pc = "resolve"
    /\ unread' = {b \in unread : ~(b[1] = proc[p].i /\ b[3] = "needed")}
    /\ Goto(p, "announce")
    /\ UNCHANGED <<req, rung, active, fx, faults>>

\* Second half: tell the requester and the other approvers.
Announce(p) ==
    LET i == proc[p].i IN
    /\ proc[p].pc = "announce"
    /\ NotifyAll(i, Approvers(i) \cup {req[i].requester}, "decided", proc[p].who)
    /\ Goto(p, "mail")
    /\ UNCHANGED <<req, active, fx, faults>>

MailDecided(p) ==
    /\ proc[p].pc = "mail"
    /\ fx' = [fx EXCEPT ![proc[p].i].mails = @ + 1]
    /\ proc' = [proc EXCEPT ![p] = Rest(p)]
    /\ UNCHANGED <<req, rung, unread, active, faults>>

----------------------------------------------------------------------------
(* The environment.                                                        *)

PassExpiry(i) ==
    /\ IsPending(i) /\ req[i].expires /\ ~req[i].overdue
    /\ req' = [req EXCEPT ![i].overdue = TRUE]
    /\ UNCHANGED <<proc, rung, unread, active, fx, faults>>

\* mark_read: the recipient's own rows, all or some.
MarkRead(u) ==
    /\ \E S \in SUBSET {b \in unread : b[2] = u} : S # {} /\ unread' = unread \ S
    /\ UNCHANGED <<req, proc, rung, active, fx, faults>>

\* Offboarding.
Deactivate(u) ==
    /\ u \in active /\ Cardinality(Users \ active) < MaxLeavers
    /\ active' = active \ {u}
    /\ UNCHANGED <<req, proc, rung, unread, fx, faults>>

\* The process is killed wherever it is.
Die(p) ==
    /\ proc[p] # Idle /\ faults < MaxFaults
    /\ faults' = faults + 1
    /\ proc' = [proc EXCEPT ![p] = Idle]
    /\ UNCHANGED <<req, rung, unread, active, fx>>

----------------------------------------------------------------------------
ProcStep(p) ==
    \/ Insert(p) \/ Assign(p) \/ LogFiled(p) \/ Ring(p) \/ MailRequested(p)
    \/ Claim(p) \/ ExpireNext(p)
    \/ RunCallback(p) \/ Resave(p) \/ Audit(p) \/ ResolveBell(p) \/ Announce(p)
    \/ MailDecided(p)

Arrive(p) ==
    \/ \E u \in Requesters, A \in Routings, exp \in Expiries : StartFile(p, u, A, exp)
    \/ \E i \in Ids : StartDecideLate(p, i)
    \/ \E u \in Users, i \in Ids, v \in Decisions : StartDecide(p, u, i, v)
    \/ \E u \in Users, i \in Ids : StartCancel(p, u, i)
    \/ \E S \in SUBSET Ids : StartExpiry(p, S)

Next ==
    \/ \E p \in Requests : Arrive(p)
    \/ StartExpiry(Sweeper, Overdue)
    \/ \E p \in Procs : ProcStep(p) \/ Die(p)
    \/ \E i \in Ids : PassExpiry(i)
    \/ \E u \in Users : MarkRead(u) \/ Deactivate(u)

Spec == Init /\ [][Next]_vars

\* A request that started runs to its end, and the scheduled sweep keeps coming.
Fairness ==
    /\ \A p \in Procs : WF_vars(ProcStep(p))
    /\ WF_vars(StartExpiry(Sweeper, Overdue))

FairSpec == Spec /\ Fairness

----------------------------------------------------------------------------
(* Properties.                                                             *)

\* Every variable keeps its type.
TypeOK ==
    /\ req \in [Ids -> Rows]
    /\ proc \in [Procs -> Locals]
    /\ rung \in SUBSET Bells /\ unread \in SUBSET rung
    /\ active \in SUBSET Users
    /\ fx \in [Ids -> Effects]
    /\ faults \in Nat

\* services.py: "exactly one of two simultaneous decisions wins".  Once a
\* request has an outcome, neither a slower decision, a cancel or a sweep nor
\* the winner's own re-save changes the outcome or who decided.
OneDecisionWins ==
    [][\A i \in Ids : Terminal(i) =>
         req'[i].status = req[i].status /\ req'[i].by = req[i].by]_vars

\* The effects belong to the one winner: the kind callback runs at most once,
\* after the transition, and there are at most two audit rows and two mails
\* (one for the filing, one for the outcome).
EffectsAtMostOnce ==
    \A i \in Ids :
        /\ fx[i].calls <= 1
        /\ fx[i].calls = 1 => Terminal(i)
        /\ fx[i].audits <= 2 /\ fx[i].mails <= 2

\* May u decide request i, whatever its status?
Eligible(u, i) ==
    /\ u = req[i].requester => SelfApprove
    /\ u \in req[i].routed \/ u \in Staff
    /\ u \in Hooked

\* permissions.py: nobody approves or rejects a request of their own unless the
\* setting allows it, and a decision is an assignee's or, where staff may decide,
\* a staff member's.
DeciderEligible ==
    \A i \in Ids : req[i].status \in Decisions => Eligible(req[i].by, i)

\* An overdue request does not stay pending.
OverdueExpires == \A i \in Ids : IsOverdue(i) ~> Terminal(i)

\* docs/skills/approvals.md: "Every transition is race-safe, audited, and fires
\* the same fan-out".  Every outcome is followed by the callback and the audit row,
\* unless the process that reached it dies before it has written them.
OutcomeAnnounced ==
    \A i \in Ids : Terminal(i) ~> ((fx[i].calls = 1 /\ fx[i].audits = 2) \/ faults > 0)

----------------------------------------------------------------------------
(* The inductive strengthening of the safety properties.                   *)

Filing == {"assign", "log", "ring", "mailreq"}
Finishing == {"callback", "save", "audit", "resolve", "announce", "mail"}
LogToCome == {"assign", "log"}
AuditToCome == {"callback", "save", "audit"}

\* What a process remembers about its request still holds, and the effects it
\* has yet to produce are still missing.
LocalSane(p) ==
    LET i == proc[p].i IN
    /\ proc[p].pc \in Filing \cup Finishing \cup {"claim"} => i \in Ids /\ Used(i)
    /\ proc[p].pc = "insert" => proc[p].who \in Users
    /\ proc[p].pc = "assign" => proc[p].routed = req[i].routed
    /\ proc[p].pc = "claim" =>
          /\ proc[p].to \in TerminalStatuses
          /\ proc[p].to \in Decisions => Eligible(proc[p].who, i)
    /\ proc[p].pc \in Finishing =>
          /\ Terminal(i) /\ proc[p].to = req[i].status /\ proc[p].who = req[i].by
          /\ fx[i].mails <= 1
    /\ proc[p].pc = "callback" => fx[i].calls = 0
    /\ proc[p].pc \in AuditToCome => fx[i].audits <= 1
    /\ proc[p].pc \in LogToCome => fx[i].audits <= 1 /\ (~Terminal(i) => fx[i].audits = 0)
    /\ proc[p].pc \in Filing => fx[i].mails <= 1 /\ (~Terminal(i) => fx[i].mails = 0)

\* A request has one filer and one winner; beside each other, neither has
\* produced an effect it still owes.
PairSane(p, q) ==
    proc[p].i = proc[q].i =>
        /\ ~(proc[p].pc \in Finishing /\ proc[q].pc \in Finishing)
        /\ ~(proc[p].pc \in Filing /\ proc[q].pc \in Filing)
        /\ proc[p].pc \in LogToCome /\ proc[q].pc \in AuditToCome => fx[proc[p].i].audits = 0
        /\ proc[p].pc \in Filing /\ proc[q].pc \in Finishing => fx[proc[p].i].mails = 0

RowSane(i) ==
    /\ ~Used(i) => fx[i].audits = 0 /\ fx[i].mails = 0
    /\ ~Terminal(i) => /\ req[i].by = Nobody /\ fx[i].calls = 0
                       /\ fx[i].audits <= 1 /\ fx[i].mails <= 1
    /\ req[i].assignees \subseteq req[i].routed

IInv ==
    /\ TypeOK /\ EffectsAtMostOnce /\ DeciderEligible
    /\ \A p \in Procs : LocalSane(p)
    /\ \A p, q \in Procs : p # q => PairSane(p, q)
    /\ \A i \in Ids : RowSane(i)

=============================================================================
