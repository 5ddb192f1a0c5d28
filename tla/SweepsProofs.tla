---------------------------- MODULE SweepsProofs ----------------------------
(***************************************************************************)
(* Proofs about the two recurring sweeps of MCSweeps.  Approvals, for any  *)
(* number of requests, accounts and processes: one decision wins, its      *)
(* effects happen at most once, and the decider was eligible.              *)
(* SchedulerSync, for any jobs, deploys and edits: what was done by hand   *)
(* survives, and no sync retires most of the jobs.                         *)
(***************************************************************************)
EXTENDS MCSweeps, FiniteSetTheorems, WellFoundedInduction, TLAPS

\* Ids are positive.
LEMMA IdsAreNat == Ids \subseteq Nat /\ NoId \notin Ids
BY BoundsAssumption DEF Ids, NoId

\* A process at rest.
LEMMA IdleIsLocals == Idle \in Locals
BY DEF Idle, Locals, Statuses, TerminalStatuses, Decisions

\* The next free request is one of them.
LEMMA FreshIsFree == Free # {} => Fresh \in Ids /\ ~Used(Fresh)
<1> SUFFICES ASSUME Free # {} PROVE Fresh \in Free
  BY DEF Free
<1> DEFINE R == {ss \in Nat \X Nat : ss[1] < ss[2]}
<1>1. Free \subseteq Nat
  BY IdsAreNat DEF Free
<1>2. IsWellFoundedOn(R, Nat)
  BY NatLessThanWellFounded DEF OpToRel
<1>3. PICK i \in Free : \A j \in Free : <<j, i>> \notin R
  <2> HIDE DEF R
  <2> QED BY <1>1, <1>2, WFMin
<1>4. \A j \in Free : i <= j
  <2> TAKE j \in Free
  <2>1. i \in Nat /\ j \in Nat
    BY <1>1
  <2>2. ~(j < i)
    BY <1>3, <2>1
  <2> QED BY <2>1, <2>2
<1> QED
  BY <1>4 DEF Fresh

----------------------------------------------------------------------------
(* Types.                                                                  *)

\* Initially every variable has its type.
LEMMA TypeInit == Init => TypeOK
BY IdleIsLocals, UsersAssumption, BoundsAssumption
   DEF Init, TypeOK, Rows, Effects, Statuses

\* notify adds rows for accounts.
LEMMA NotifyTypes ==
    ASSUME TypeOK, NEW i \in Ids, NEW U, NEW k \in {"needed", "decided"}, NEW u,
           NotifyAll(i, U, k, u)
    PROVE  rung' \in SUBSET Bells /\ unread' \in SUBSET rung'
BY DEF NotifyAll, TypeOK, Bells

----------------------------------------------------------------------------
(* One process moves, and writes one request.                              *)

\* Process p goes to l, request k becomes r and its effects become e.
Moves(p, k, r, e, l) ==
    /\ req' = [req EXCEPT ![k] = r]
    /\ fx' = [fx EXCEPT ![k] = e]
    /\ proc' = [proc EXCEPT ![p] = l]

\* What no process writes here keeps its type.
RestTyped ==
    /\ rung' \in SUBSET Bells /\ unread' \in SUBSET rung'
    /\ active' \in SUBSET Users /\ faults' \in Nat

\* The effects and the decider of one request.
OutcomeSane(i) ==
    /\ RowSane(i)
    /\ fx[i].calls <= 1 /\ (fx[i].calls = 1 => Terminal(i))
    /\ fx[i].audits <= 2 /\ fx[i].mails <= 2
    /\ req[i].status \in Decisions => Eligible(req[i].by, i)

\* Everything else stays as it was.
LEMMA MovesFrame ==
    ASSUME TypeOK, NEW p \in Procs, NEW k \in Ids, NEW r \in Rows, NEW e \in Effects,
           NEW l \in Locals, Moves(p, k, r, e, l), RestTyped
    PROVE  /\ TypeOK'
           /\ req'[k] = r /\ fx'[k] = e /\ proc'[p] = l
           /\ \A j \in Ids : j # k => req'[j] = req[j] /\ fx'[j] = fx[j]
           /\ \A q \in Procs : q # p => proc'[q] = proc[q]
BY DEF Moves, RestTyped, TypeOK

\* So only the request written and the processes that work on it need a look.
LEMMA MovesKeepInv ==
    ASSUME IInv, NEW p \in Procs, NEW k \in Ids, NEW r \in Rows, NEW e \in Effects,
           NEW l \in Locals, Moves(p, k, r, e, l), RestTyped,
           l.i = k \/ l.pc \notin Filing \cup Finishing,
           OutcomeSane(k)', LocalSane(p)',
           \A q \in Procs \ {p} : proc[q].i = k =>
               LocalSane(q)' /\ PairSane(p, q)' /\ PairSane(q, p)',
           \A q1, q2 \in Procs \ {p} :
               q1 # q2 /\ proc[q1].i = k /\ proc[q2].i = k => PairSane(q1, q2)'
    PROVE  IInv'
<1>1. /\ TypeOK' /\ proc'[p] = l
      /\ \A j \in Ids : j # k => req'[j] = req[j] /\ fx'[j] = fx[j]
      /\ \A q \in Procs : q # p => proc'[q] = proc[q]
  BY MovesFrame DEF IInv
<1>2. \A j \in Ids : OutcomeSane(j)'
  <2> SUFFICES ASSUME NEW j \in Ids, j # k PROVE OutcomeSane(j)'
    OBVIOUS
  <2> QED
    BY <1>1 DEF IInv, OutcomeSane, RowSane, EffectsAtMostOnce, DeciderEligible, Eligible, Terminal, Used
<1>3. \A q \in Procs : LocalSane(q)'
  <2> SUFFICES ASSUME NEW q \in Procs, q # p, proc[q].i # k PROVE LocalSane(q)'
    OBVIOUS
  <2>1. LocalSane(q) /\ proc'[q] = proc[q]
    BY <1>1 DEF IInv
  <2> QED
    BY <1>1, <2>1 DEF LocalSane, Eligible, Terminal, Used, Filing, Finishing, LogToCome, AuditToCome
<1>4. ASSUME NEW q1 \in Procs, NEW q2 \in Procs, q1 # q2 PROVE PairSane(q1, q2)'
  <2>1. LocalSane(q1) /\ LocalSane(q2) /\ PairSane(q1, q2)
    BY <1>4 DEF IInv
  <2>2. CASE q1 # p /\ q2 # p /\ proc[q1].i # k
    BY <1>1, <2>1, <2>2 DEF PairSane, LocalSane, Filing, Finishing, LogToCome, AuditToCome
  <2>3. CASE q1 # p /\ q2 # p /\ proc[q1].i = k
    <3>1. CASE proc[q2].i = k
      BY <1>4, <2>3, <3>1
    <3>2. CASE proc[q2].i # k
      BY <1>1, <2>3, <3>2 DEF PairSane
    <3> QED BY <3>1, <3>2
  <2>4. CASE q1 = p
    <3>1. CASE proc[q2].i = k
      BY <1>4, <2>4, <3>1
    <3>2. CASE proc[q2].i # k
      BY <1>1, <1>4, <2>4, <3>2 DEF PairSane, Filing, Finishing, LogToCome, AuditToCome
    <3> QED BY <3>1, <3>2
  <2>5. CASE q2 = p
    <3>1. CASE proc[q1].i = k
      BY <1>4, <2>5, <3>1
    <3>2. CASE proc[q1].i # k
      BY <1>1, <1>4, <2>5, <3>2 DEF PairSane, Filing, Finishing, LogToCome, AuditToCome
    <3> QED BY <3>1, <3>2
  <2> QED BY <2>2, <2>3, <2>4, <2>5
<1>5. EffectsAtMostOnce' /\ DeciderEligible' /\ \A j \in Ids : RowSane(j)'
  BY <1>2 DEF OutcomeSane, EffectsAtMostOnce, DeciderEligible
<1> QED
  BY <1>1, <1>3, <1>4, <1>5 DEF IInv

\* A process between two requests, or about to claim one, owes nothing.
LEMMA QuietKeepsInv ==
    ASSUME IInv, NEW p \in Procs, NEW l \in Locals,
           UNCHANGED <<req, fx>>, proc' = [proc EXCEPT ![p] = l], RestTyped,
           \/ l.pc \in {"idle", "sweep"}
           \/ l.pc = "insert" /\ l.who \in Users
           \/ /\ l.pc = "claim" /\ l.i \in Ids /\ Used(l.i) /\ l.to \in TerminalStatuses
              /\ l.to \in Decisions => Eligible(l.who, l.i)
    PROVE  IInv'
<1>1. TypeOK' /\ proc'[p] = l /\ \A q \in Procs : q # p => proc'[q] = proc[q]
  BY DEF IInv, TypeOK, RestTyped
<1>2. LocalSane(p)'
  BY <1>1 DEF LocalSane, Eligible, Terminal, Used, Filing, Finishing, LogToCome, AuditToCome
<1>3. \A q \in Procs : LocalSane(q)'
  BY <1>1, <1>2 DEF IInv, LocalSane, Eligible, Terminal, Used
<1>4. \A q1, q2 \in Procs : q1 # q2 => PairSane(q1, q2)'
  <2> SUFFICES ASSUME NEW q1 \in Procs, NEW q2 \in Procs, q1 # q2 PROVE PairSane(q1, q2)'
    OBVIOUS
  <2>1. CASE q1 = p \/ q2 = p
    BY <1>1, <2>1 DEF PairSane, Filing, Finishing, LogToCome, AuditToCome
  <2>2. CASE q1 # p /\ q2 # p
    BY <1>1, <2>2 DEF IInv, PairSane
  <2> QED BY <2>1, <2>2
<1>5. EffectsAtMostOnce' /\ DeciderEligible' /\ \A j \in Ids : RowSane(j)'
  BY DEF IInv, EffectsAtMostOnce, DeciderEligible, RowSane, Eligible, Terminal, Used
<1> QED
  BY <1>1, <1>3, <1>4, <1>5 DEF IInv

\* The steps of a filer and of a winner: where each goes, and the effect it
\* has on the way.
Advances(pc, l, e, f) ==
    \/ /\ e = f /\ <<pc, l>> \in {<<"assign", "log">>, <<"ring", "mailreq">>, <<"save", "audit">>,
                                <<"resolve", "announce">>, <<"announce", "mail">>}
    \/ /\ pc = "callback" /\ l = "save"
       /\ e.calls = f.calls + 1 /\ e.audits = f.audits /\ e.mails = f.mails
    \/ /\ <<pc, l>> \in {<<"log", "ring">>, <<"audit", "resolve">>}
       /\ e.calls = f.calls /\ e.audits = f.audits + 1 /\ e.mails = f.mails
    \/ /\ pc \in {"mailreq", "mail"} /\ l \in {"idle", "sweep"}
       /\ e.calls = f.calls /\ e.audits = f.audits /\ e.mails = f.mails + 1

\* A filer or winner moves on with its own request.
LEMMA AdvanceKeepsInv ==
    ASSUME IInv, NEW p \in Procs, NEW r \in Rows, NEW e \in Effects, NEW l \in Locals,
           NEW k, k = proc[p].i, Moves(p, k, r, e, l), RestTyped,
           Advances(proc[p].pc, l.pc, e, fx[k]),
           l.pc \in {"idle", "sweep"} \/ (l.i = k /\ l.who = proc[p].who /\ l.to = proc[p].to),
           r.status = req[k].status, r.by = req[k].by,
           r.requester = req[k].requester, r.routed = req[k].routed, r.assignees \subseteq r.routed
    PROVE  IInv'
<1>1. proc[p].pc \in Filing \cup Finishing
  BY DEF Advances, Filing, Finishing
<1>2. LocalSane(p) /\ k \in Ids /\ Used(k)
  BY <1>1 DEF IInv, LocalSane
<1>3. /\ req'[k] = r /\ fx'[k] = e /\ proc'[p] = l
      /\ \A q \in Procs : q # p => proc'[q] = proc[q]
  BY <1>2, MovesFrame DEF IInv
<1>4. fx[k] \in Effects
  BY <1>2 DEF IInv, TypeOK
<1>5. /\ RowSane(k) /\ fx[k].calls <= 1 /\ fx[k].audits <= 2 /\ fx[k].mails <= 2
      /\ fx[k].calls = 1 => Terminal(k)
      /\ req[k].status \in Decisions => Eligible(req[k].by, k)
  BY <1>2 DEF IInv, EffectsAtMostOnce, DeciderEligible
<1>6. l.i = k \/ l.pc \notin Filing \cup Finishing
  BY DEF Filing, Finishing
<1>7. /\ req'[k].status = req[k].status /\ req'[k].by = req[k].by
      /\ req'[k].requester = req[k].requester /\ req'[k].routed = req[k].routed
      /\ req'[k].assignees \subseteq req'[k].routed
  BY <1>3
<1>8. /\ e.calls \in Nat /\ e.audits \in Nat /\ e.mails \in Nat
      /\ fx[k].calls \in Nat /\ fx[k].audits \in Nat /\ fx[k].mails \in Nat
  BY <1>4 DEF Effects
<1>9. /\ e.calls <= 1 /\ (e.calls = 1 => Terminal(k)) /\ e.audits <= 2 /\ e.mails <= 2
      /\ ~Terminal(k) => e.calls = 0 /\ e.audits <= 1 /\ e.mails <= 1
  <2>1. CASE proc[p].pc \in Filing
    BY <1>2, <1>5, <1>8, <2>1 DEF LocalSane, RowSane, Advances, Filing, LogToCome
  <2>2. CASE proc[p].pc \in Finishing
    BY <1>2, <1>5, <1>8, <2>2 DEF LocalSane, Advances, Finishing, AuditToCome
  <2> QED BY <1>1, <2>1, <2>2
<1>10. OutcomeSane(k)'
  <2>1. RowSane(k)'
    <3>1. fx'[k] = e /\ Used(k) /\ (~Terminal(k) => req[k].by = Nobody)
      BY <1>2, <1>3, <1>5 DEF RowSane
    <3> QED BY <1>7, <1>9, <3>1 DEF RowSane, Used, Terminal
  <2>2. (req[k].status \in Decisions => Eligible(req[k].by, k))'
    BY <1>5, <1>7 DEF Eligible
  <2>3. fx'[k] = e
    BY <1>3
  <2> QED BY <1>7, <1>9, <2>1, <2>2, <2>3 DEF OutcomeSane, Terminal
<1>11. l.pc \notin {"idle", "sweep"} =>
          /\ l.i = k /\ l.who = proc[p].who /\ l.to = proc[p].to
          /\ l.pc \in (Filing \cup Finishing) \ {"assign", "callback"}
  BY DEF Advances, Filing, Finishing
<1>12. /\ l.pc \in Finishing => proc[p].pc \in Finishing /\ e.mails = fx[k].mails
       /\ l.pc \in Filing => proc[p].pc \in Filing /\ e.mails = fx[k].mails
       /\ l.pc \in AuditToCome => proc[p].pc \in AuditToCome /\ e.audits = fx[k].audits
       /\ l.pc \in LogToCome => proc[p].pc \in LogToCome /\ e.audits = fx[k].audits
  BY DEF Advances, Filing, Finishing, AuditToCome, LogToCome
<1>13. LocalSane(p)'
  <2>1. CASE l.pc \in {"idle", "sweep"}
    BY <1>3, <2>1 DEF LocalSane, Filing, Finishing, AuditToCome, LogToCome
  <2>2. CASE l.pc \notin {"idle", "sweep"}
    <3>1. /\ l.pc \notin {"insert", "assign", "claim", "callback"} /\ l.i = k
      BY <1>11, <2>2 DEF Filing, Finishing
    <3>2. l.pc \in Finishing => /\ Terminal(k) /\ l.to = req[k].status /\ l.who = req[k].by
                               /\ e.mails <= 1
      BY <1>2, <1>11, <1>12, <2>2 DEF LocalSane
    <3>3. /\ l.pc \in AuditToCome => e.audits <= 1
          /\ l.pc \in LogToCome => e.audits <= 1 /\ (~Terminal(k) => e.audits = 0)
          /\ l.pc \in Filing => e.mails <= 1 /\ (~Terminal(k) => e.mails = 0)
      BY <1>2, <1>12 DEF LocalSane
    <3> QED BY <1>2, <1>3, <1>7, <3>1, <3>2, <3>3 DEF LocalSane, Used, Terminal
  <2> QED BY <2>1, <2>2
<1>14. ASSUME NEW q \in Procs \ {p}, proc[q].i = k
       PROVE  LocalSane(q)' /\ PairSane(p, q)' /\ PairSane(q, p)'
  <2>1. LocalSane(q) /\ PairSane(p, q) /\ PairSane(q, p) /\ proc'[q] = proc[q]
    BY <1>3 DEF IInv
  <2>4. /\ proc[p].pc \in LogToCome \cup AuditToCome \/ e.audits = fx[k].audits
        /\ proc[p].pc \in Filing \/ proc[p].pc \in Finishing
        /\ proc[p].pc = "callback" \/ e.calls = fx[k].calls
    BY <1>1 DEF Advances, LogToCome, AuditToCome
  <2>5. /\ LogToCome \subseteq Filing /\ AuditToCome \subseteq Finishing
        /\ "callback" \in AuditToCome
    BY DEF LogToCome, AuditToCome, Filing, Finishing
  <2>2. LocalSane(q)'
    <3>1. /\ proc[q].pc \in Filing => proc[p].pc \notin Filing
          /\ proc[q].pc \in Finishing => proc[p].pc \notin Finishing
      BY <1>14, <2>1 DEF PairSane
    <3>2. /\ proc[q].pc \in LogToCome /\ proc[p].pc \in AuditToCome => fx[k].audits = 0
          /\ proc[q].pc \in AuditToCome /\ proc[p].pc \in LogToCome => fx[k].audits = 0
          /\ proc[q].pc \in Filing /\ proc[p].pc \in Finishing => fx[k].mails = 0
          /\ proc[q].pc \in Finishing /\ proc[p].pc \in Filing => fx[k].mails = 0
      BY <1>14, <2>1 DEF PairSane
    <3>3. e.audits <= fx[k].audits + 1 /\ e.mails <= fx[k].mails + 1
      BY <1>8 DEF Advances
    <3>4. proc[p].pc \in Finishing => Terminal(k)
      BY <1>2 DEF LocalSane
    <3>5. proc[q].pc \in Finishing => e.mails <= 1
      BY <1>14, <1>8, <2>1, <2>4, <3>1, <3>2, <3>3
    <3>6. proc[q].pc = "callback" => e.calls = 0
      BY <1>14, <2>1, <2>4, <2>5, <3>1 DEF LocalSane
    <3>7. proc[q].pc \in AuditToCome => e.audits <= 1
      BY <1>14, <1>8, <2>1, <2>4, <2>5, <3>1, <3>2, <3>3 DEF LocalSane
    <3>8. proc[q].pc \in LogToCome => e.audits <= 1 /\ (~Terminal(k) => e.audits = 0)
      BY <1>14, <1>8, <2>1, <2>4, <2>5, <3>1, <3>2, <3>3, <3>4 DEF LocalSane
    <3>9. proc[q].pc \in Filing => e.mails <= 1 /\ (~Terminal(k) => e.mails = 0)
      BY <1>14, <1>8, <2>1, <2>4, <2>5, <3>1, <3>2, <3>3, <3>4 DEF LocalSane
    <3>10. proc'[q] = proc[q] /\ fx'[k] = e
      BY <1>3, <2>1
    <3>11. proc[q].pc \in Finishing => /\ Terminal(k) /\ proc[q].to = req[k].status
                                      /\ proc[q].who = req[k].by
      BY <1>14, <2>1 DEF LocalSane
    <3>12. /\ proc[q].pc = "insert" => proc[q].who \in Users
           /\ proc[q].pc = "assign" => proc[q].routed = req[k].routed
           /\ proc[q].pc = "claim" => /\ proc[q].to \in TerminalStatuses
                                      /\ proc[q].to \in Decisions => Eligible(proc[q].who, k)
      BY <1>14, <2>1 DEF LocalSane
    <3> QED BY <1>2, <1>7, <1>14, <3>5, <3>6, <3>7, <3>8, <3>9, <3>10, <3>11, <3>12
            DEF LocalSane, Used, Terminal, Eligible
  <2>3. PairSane(p, q)' /\ PairSane(q, p)'
    <3>1. /\ ~(l.pc \in Finishing /\ proc[q].pc \in Finishing)
          /\ ~(l.pc \in Filing /\ proc[q].pc \in Filing)
      BY <1>14, <1>12, <2>1 DEF PairSane
    <3>2. /\ l.pc \in LogToCome /\ proc[q].pc \in AuditToCome => e.audits = 0
          /\ proc[q].pc \in LogToCome /\ l.pc \in AuditToCome => e.audits = 0
      BY <1>14, <1>12, <2>1 DEF PairSane
    <3>3. /\ l.pc \in Filing /\ proc[q].pc \in Finishing => e.mails = 0
          /\ proc[q].pc \in Filing /\ l.pc \in Finishing => e.mails = 0
      BY <1>14, <1>12, <2>1 DEF PairSane
    <3>4. proc'[q] = proc[q] /\ proc'[p] = l /\ fx'[k] = e
      BY <1>3, <2>1
    <3> QED BY <1>14, <3>1, <3>2, <3>3, <3>4 DEF PairSane
  <2> QED BY <2>2, <2>3
<1>15. ASSUME NEW q1 \in Procs \ {p}, NEW q2 \in Procs \ {p}, q1 # q2, proc[q1].i = k, proc[q2].i = k
       PROVE  PairSane(q1, q2)'
  <2>1. /\ PairSane(q1, q2) /\ PairSane(p, q1) /\ PairSane(p, q2)
        /\ proc'[q1] = proc[q1] /\ proc'[q2] = proc[q2]
    BY <1>3, <1>15 DEF IInv
  <2> QED
    BY <1>1, <1>2, <1>3, <1>4, <1>15, <2>1
       DEF PairSane, Filing, Finishing, LogToCome, AuditToCome
<1> QED
  BY <1>2, <1>6, <1>10, <1>13, <1>14, <1>15, MovesKeepInv

\* A transition: the request was pending, and p is the one that finishes it.
LEMMA WinKeepsInv ==
    ASSUME IInv, NEW p \in Procs, NEW k \in Ids, NEW r \in Rows, NEW l \in Locals,
           Moves(p, k, r, fx[k], l), RestTyped, IsPending(k),
           l.pc = "callback", l.i = k, l.to \in TerminalStatuses,
           l.to \in Decisions => Eligible(l.who, k),
           r.status = l.to, r.by = l.who,
           r.requester = req[k].requester, r.routed = req[k].routed, r.assignees = req[k].assignees
    PROVE  IInv'
<1>1. fx[k] \in Effects /\ RowSane(k) /\ Used(k) /\ ~Terminal(k)
  BY DEF IInv, TypeOK, IsPending, Used, Terminal, TerminalStatuses, Decisions
<1>2. /\ req'[k] = r /\ fx'[k] = fx[k] /\ proc'[p] = l
      /\ \A q \in Procs : q # p => proc'[q] = proc[q]
  BY <1>1, MovesFrame DEF IInv
<1>3. OutcomeSane(k)'
  BY <1>1, <1>2 DEF OutcomeSane, RowSane, Eligible, Terminal, TerminalStatuses, Decisions, Used, Effects
<1>4. LocalSane(p)'
  BY <1>1, <1>2 DEF RowSane, LocalSane, Terminal, TerminalStatuses, Decisions, Used,
                    Filing, Finishing, LogToCome, AuditToCome
<1>5. ASSUME NEW q \in Procs \ {p}, proc[q].i = k
      PROVE  LocalSane(q)' /\ PairSane(p, q)' /\ PairSane(q, p)'
  <2>1. LocalSane(q) /\ proc'[q] = proc[q] /\ proc[q].pc \notin Finishing
    BY <1>1, <1>2, <1>5 DEF IInv, LocalSane
  <2>2. LocalSane(q)'
    BY <1>1, <1>2, <1>5, <2>1
       DEF LocalSane, Eligible, Terminal, TerminalStatuses, Decisions, Used,
           Filing, Finishing, LogToCome, AuditToCome
  <2>3. PairSane(p, q)' /\ PairSane(q, p)'
    BY <1>1, <1>2, <1>5, <2>1
       DEF LocalSane, PairSane, Filing, Finishing, LogToCome, AuditToCome
  <2> QED BY <2>2, <2>3
<1>6. ASSUME NEW q1 \in Procs \ {p}, NEW q2 \in Procs \ {p}, q1 # q2, proc[q1].i = k, proc[q2].i = k
      PROVE  PairSane(q1, q2)'
  BY <1>2, <1>6 DEF IInv, PairSane
<1> QED
  BY <1>1, <1>3, <1>4, <1>5, <1>6, MovesKeepInv

\* Filing: the request was free, so that nobody works on it.
LEMMA InsertKeepsInv ==
    ASSUME IInv, NEW p \in Procs, Insert(p)
    PROVE  IInv'
<1>1. PICK k \in Ids : k = Fresh /\ ~Used(k)
  BY FreshIsFree DEF Insert
<1> DEFINE r == [status |-> "PENDING", by |-> Nobody, requester |-> proc[p].who,
                 routed |-> proc[p].routed, assignees |-> {},
                 expires |-> proc[p].expires, overdue |-> FALSE, err |-> FALSE]
           l == [proc[p] EXCEPT !.i = k, !.pc = IF proc[p].routed = {} THEN "log" ELSE "assign"]
<1>2. fx[k] \in Effects /\ proc[p] \in Locals /\ RowSane(k)
  BY <1>1 DEF IInv, TypeOK
<1>3. proc[p].who \in Users
  BY DEF IInv, LocalSane, Insert
<1>4. r \in Rows
  BY <1>2, <1>3 DEF Locals, Rows, Statuses
<1>5. l \in Locals
  BY <1>1, <1>2 DEF Locals
<1>6. Moves(p, k, r, fx[k], l) /\ RestTyped
  BY <1>1 DEF Insert, Moves, RestTyped, IInv, TypeOK
<1>7. /\ r.status = "PENDING" /\ r.by = Nobody /\ r.routed = proc[p].routed /\ r.assignees = {}
      /\ l.i = k /\ l.pc \in {"log", "assign"} /\ l.routed = proc[p].routed
  BY <1>2 DEF Locals
<1> HIDE DEF r, l
<1>8. /\ req'[k] = r /\ fx'[k] = fx[k] /\ proc'[p] = l
      /\ \A q \in Procs : q # p => proc'[q] = proc[q]
  BY <1>1, <1>2, <1>4, <1>5, <1>6, MovesFrame DEF IInv
<1>9. OutcomeSane(k)'
  BY <1>1, <1>2, <1>7, <1>8
     DEF OutcomeSane, RowSane, Terminal, TerminalStatuses, Decisions, Used, Effects
<1>10. LocalSane(p)'
  BY <1>1, <1>2, <1>7, <1>8
     DEF LocalSane, RowSane, Terminal, TerminalStatuses, Decisions, Used,
         Filing, Finishing, LogToCome, AuditToCome
<1>11. ASSUME NEW q \in Procs \ {p}, proc[q].i = k
       PROVE  proc'[q] = proc[q] /\ proc[q].pc \notin Filing \cup Finishing \cup {"claim"}
  BY <1>1, <1>8, <1>11 DEF IInv, LocalSane
<1>12. ASSUME NEW q \in Procs \ {p}, proc[q].i = k
       PROVE  LocalSane(q)' /\ PairSane(p, q)' /\ PairSane(q, p)'
  BY <1>11, <1>12 DEF IInv, LocalSane, PairSane, Filing, Finishing, LogToCome, AuditToCome
<1>13. ASSUME NEW q1 \in Procs \ {p}, NEW q2 \in Procs \ {p}, q1 # q2, proc[q1].i = k, proc[q2].i = k
       PROVE  PairSane(q1, q2)'
  BY <1>11, <1>13 DEF PairSane, Filing, Finishing, LogToCome, AuditToCome
<1> QED
  BY <1>1, <1>2, <1>4, <1>5, <1>6, <1>7, <1>9, <1>10, <1>12, <1>13, MovesKeepInv

\* Time, bells and accounts: the invariant does not look at them.
LEMMA EnvironmentKeepsInv ==
    ASSUME IInv, TypeOK', UNCHANGED <<proc, fx>>,
           \A j \in Ids : /\ req'[j].status = req[j].status /\ req'[j].by = req[j].by
                          /\ req'[j].requester = req[j].requester
                          /\ req'[j].routed = req[j].routed /\ req'[j].assignees = req[j].assignees
    PROVE  IInv'
<1>1. \A p \in Procs : LocalSane(p)'
  BY DEF IInv, LocalSane, Eligible, Terminal, Used, Filing, Finishing, LogToCome, AuditToCome
<1>2. \A p, q \in Procs : p # q => PairSane(p, q)'
  BY DEF IInv, PairSane
<1>3. EffectsAtMostOnce' /\ DeciderEligible' /\ \A j \in Ids : RowSane(j)'
  BY DEF IInv, EffectsAtMostOnce, DeciderEligible, RowSane, Eligible, Terminal, Used
<1> QED
  BY <1>1, <1>2, <1>3 DEF IInv

----------------------------------------------------------------------------
(* Every action.                                                           *)

\* A request arrives, or a sweep begins.
LEMMA ArriveKeepsInv ==
    ASSUME IInv, NEW p \in Procs, Arrive(p) \/ StartExpiry(p, Overdue)
    PROVE  IInv'
<1>1. RestTyped /\ UNCHANGED <<req, fx>>
  BY DEF IInv, TypeOK, RestTyped, Arrive, StartFile, StartDecideLate, StartDecide, StartCancel, StartExpiry
<1>2. CASE \E u \in Requesters, A \in Routings, exp \in Expiries : StartFile(p, u, A, exp)
  <2>1. PICK u \in Requesters, A \in Routings, exp \in Expiries : StartFile(p, u, A, exp)
    BY <1>2
  <2> DEFINE l == [Idle EXCEPT !.pc = "insert", !.who = u, !.routed = A, !.expires = exp]
  <2>2. l \in Locals /\ l.pc = "insert" /\ l.who \in Users
    BY UsersAssumption DEF Idle, Locals, Statuses
  <2>3. proc' = [proc EXCEPT ![p] = l]
    BY <2>1 DEF StartFile
  <2> HIDE DEF l
  <2> QED BY <1>1, <2>2, <2>3, QuietKeepsInv
<1>3. CASE \E i \in Ids : StartDecideLate(p, i)
  <2>1. PICK i \in Ids : StartDecideLate(p, i)
    BY <1>3
  <2> DEFINE l == [Idle EXCEPT !.pc = "claim", !.i = i, !.to = "EXPIRED"]
  <2>2. /\ l \in Locals /\ l.pc = "claim" /\ l.i \in Ids /\ l.to \in TerminalStatuses
        /\ l.to \notin Decisions /\ l.i = i
    BY DEF Idle, Locals, Statuses, TerminalStatuses, Decisions
  <2>3. proc' = [proc EXCEPT ![p] = l] /\ Used(i)
    BY <2>1 DEF StartDecideLate, IsOverdue, IsPending, Used
  <2> HIDE DEF l
  <2> QED BY <1>1, <2>2, <2>3, QuietKeepsInv
<1>4. CASE \E u \in Users, i \in Ids, v \in Decisions : StartDecide(p, u, i, v)
  <2>1. PICK u \in Users, i \in Ids, v \in Decisions : StartDecide(p, u, i, v)
    BY <1>4
  <2> DEFINE l == [Idle EXCEPT !.pc = "claim", !.i = i, !.who = u, !.to = v]
  <2>2. /\ l \in Locals /\ l.pc = "claim" /\ l.i \in Ids /\ l.to \in TerminalStatuses
        /\ l.i = i /\ l.who = u
    BY DEF Idle, Locals, Statuses, TerminalStatuses, Decisions
  <2>3. proc' = [proc EXCEPT ![p] = l] /\ Used(i)
    BY <2>1 DEF StartDecide, IsPending, Used
  <2>4. Eligible(u, i)
    BY <2>1 DEF StartDecide, CanDecide, Eligible, IInv, RowSane
  <2> HIDE DEF l
  <2> QED BY <1>1, <2>2, <2>3, <2>4, QuietKeepsInv
<1>5. CASE \E u \in Users, i \in Ids : StartCancel(p, u, i)
  <2>1. PICK u \in Users, i \in Ids : StartCancel(p, u, i)
    BY <1>5
  <2> DEFINE l == [Idle EXCEPT !.pc = "claim", !.i = i, !.who = u, !.to = "CANCELED"]
  <2>2. /\ l \in Locals /\ l.pc = "claim" /\ l.i \in Ids /\ l.to \in TerminalStatuses
        /\ l.to \notin Decisions /\ l.i = i
    BY DEF Idle, Locals, Statuses, TerminalStatuses, Decisions
  <2>3. proc' = [proc EXCEPT ![p] = l] /\ Used(i)
    BY <2>1 DEF StartCancel, CanCancel, IsPending, Used
  <2> HIDE DEF l
  <2> QED BY <1>1, <2>2, <2>3, QuietKeepsInv
<1>6. CASE \E S \in SUBSET Ids : StartExpiry(p, S)
  <2>1. PICK S \in SUBSET Ids : StartExpiry(p, S)
    BY <1>6
  <2> DEFINE l == [Idle EXCEPT !.pc = "sweep", !.todo = S]
  <2>2. l \in Locals /\ l.pc = "sweep"
    BY DEF Idle, Locals, Statuses
  <2>3. proc' = [proc EXCEPT ![p] = l]
    BY <2>1 DEF StartExpiry
  <2> HIDE DEF l
  <2> QED BY <1>1, <2>2, <2>3, QuietKeepsInv
<1>7. Overdue \in SUBSET Ids
  BY DEF Overdue
<1> QED
  BY <1>2, <1>3, <1>4, <1>5, <1>6, <1>7 DEF Arrive

\* The claim: the winner's transition, or the loser's NotPending.
LEMMA ClaimKeepsInv ==
    ASSUME IInv, NEW p \in Procs, Claim(p)
    PROVE  IInv'
<1>1. PICK k \in Ids : k = proc[p].i
  BY DEF IInv, LocalSane, Claim
<1>2. LocalSane(p) /\ proc[p].pc = "claim" /\ proc[p] \in Locals /\ req[k] \in Rows
  BY DEF IInv, TypeOK, Claim
<1>3. RestTyped
  BY DEF Claim, RestTyped, IInv, TypeOK
<1>4. CASE IsPending(k)
  <2> DEFINE r == [req[k] EXCEPT !.status = proc[p].to, !.by = proc[p].who]
             l == [proc[p] EXCEPT !.pc = "callback"]
  <2>1. /\ r \in Rows /\ r.status = proc[p].to /\ r.by = proc[p].who
        /\ r.requester = req[k].requester /\ r.routed = req[k].routed /\ r.assignees = req[k].assignees
    BY <1>2 DEF Rows, Locals
  <2>2. /\ l \in Locals /\ l.pc = "callback" /\ l.i = k /\ l.to = proc[p].to /\ l.who = proc[p].who
    BY <1>1, <1>2 DEF Locals
  <2>3. Moves(p, k, r, fx[k], l)
    BY <1>1, <1>4 DEF Claim, Goto, Moves, IInv, TypeOK
  <2>4. l.to \in TerminalStatuses /\ (l.to \in Decisions => Eligible(l.who, k))
    BY <1>1, <1>2, <2>2 DEF LocalSane
  <2> HIDE DEF r, l
  <2> QED BY <1>3, <1>4, <2>1, <2>2, <2>3, <2>4, WinKeepsInv
<1>5. CASE ~IsPending(k)
  <2>1. proc' = [proc EXCEPT ![p] = Idle] /\ UNCHANGED <<req, fx>>
    BY <1>1, <1>5 DEF Claim
  <2> QED BY <1>3, <2>1, IdleIsLocals, QuietKeepsInv DEF Idle
<1> QED BY <1>4, <1>5

\* One request of a sweep: expired, or skipped because someone was faster.
LEMMA ExpireNextKeepsInv ==
    ASSUME IInv, NEW p \in Procs, ExpireNext(p)
    PROVE  IInv'
<1>1. proc[p] \in Locals /\ proc[p].pc = "sweep" /\ RestTyped /\ UNCHANGED fx
  BY DEF IInv, TypeOK, ExpireNext, RestTyped
<1>2. PICK k \in proc[p].todo :
         IF IsPending(k)
         THEN /\ req' = [req EXCEPT ![k].status = "EXPIRED"]
              /\ proc' = [proc EXCEPT ![p] = [Idle EXCEPT !.pc = "callback", !.i = k,
                                               !.to = "EXPIRED", !.todo = proc[p].todo \ {k}]]
         ELSE /\ proc' = [proc EXCEPT ![p] = IF proc[p].todo = {k} THEN Idle
                                             ELSE [proc[p] EXCEPT !.todo = @ \ {k}]]
              /\ UNCHANGED req
  BY DEF ExpireNext
<1>3. k \in Ids /\ req[k] \in Rows
  BY <1>1 DEF Locals, IInv, TypeOK
<1>4. CASE IsPending(k)
  <2> DEFINE r == [req[k] EXCEPT !.status = "EXPIRED"]
             l == [Idle EXCEPT !.pc = "callback", !.i = k, !.to = "EXPIRED", !.todo = proc[p].todo \ {k}]
  <2>1. /\ r \in Rows /\ r.status = "EXPIRED" /\ r.by = req[k].by
        /\ r.requester = req[k].requester /\ r.routed = req[k].routed /\ r.assignees = req[k].assignees
    BY <1>3 DEF Rows, Statuses, TerminalStatuses
  <2>2. req[k].by = Nobody
    BY <1>3, <1>4 DEF IInv, RowSane, IsPending, Terminal, TerminalStatuses, Decisions
  <2>3. proc[p].todo \ {k} \in SUBSET Ids
    BY <1>1 DEF Locals
  <2>4. /\ l \in Locals /\ l.pc = "callback" /\ l.i = k /\ l.to = "EXPIRED" /\ l.who = Nobody
    BY <1>3, <2>3 DEF Idle, Locals, Statuses, TerminalStatuses
  <2>5. l.to \in TerminalStatuses /\ l.to \notin Decisions
    BY <2>4 DEF TerminalStatuses, Decisions
  <2>6. Moves(p, k, r, fx[k], l)
    BY <1>1, <1>2, <1>3, <1>4 DEF Moves, IInv, TypeOK
  <2> HIDE DEF r, l
  <2> QED BY <1>1, <1>3, <1>4, <2>1, <2>2, <2>4, <2>5, <2>6, WinKeepsInv
<1>5. CASE ~IsPending(k)
  <2> DEFINE l == IF proc[p].todo = {k} THEN Idle ELSE [proc[p] EXCEPT !.todo = @ \ {k}]
  <2>1. l \in Locals /\ l.pc \in {"idle", "sweep"}
    <3>1. CASE proc[p].todo = {k}
      BY <3>1, IdleIsLocals DEF Idle
    <3>2. CASE proc[p].todo # {k}
      BY <1>1, <3>2 DEF Locals
    <3> QED BY <3>1, <3>2
  <2>2. proc' = [proc EXCEPT ![p] = l] /\ UNCHANGED req
    BY <1>2, <1>5
  <2> HIDE DEF l
  <2> QED BY <1>1, <2>1, <2>2, QuietKeepsInv
<1> QED BY <1>4, <1>5

\* The steps of filing and of _finish.
LEMMA AdvancesKeepInv ==
    ASSUME IInv, NEW p \in Procs,
           \/ Assign(p) \/ LogFiled(p) \/ Ring(p) \/ MailRequested(p) \/ RunCallback(p)
           \/ Resave(p) \/ Audit(p) \/ ResolveBell(p) \/ Announce(p) \/ MailDecided(p)
    PROVE  IInv'
<1> DEFINE At(pc) == [proc[p] EXCEPT !.pc = pc]
<1>1. LocalSane(p) /\ proc[p].pc \in Filing \cup Finishing
  BY DEF IInv, Filing, Finishing, Assign, LogFiled, Ring, MailRequested, RunCallback,
         Resave, Audit, ResolveBell, Announce, MailDecided
<1>2. PICK k \in Ids : k = proc[p].i /\ Used(k)
  BY <1>1 DEF LocalSane
<1>3. /\ proc[p] \in Locals /\ req[k] \in Rows /\ fx[k] \in Effects
      /\ req \in [Ids -> Rows] /\ fx \in [Ids -> Effects] /\ proc \in [Procs -> Locals]
      /\ req[k].assignees \subseteq req[k].routed
  BY DEF IInv, TypeOK, RowSane
<1>4. ASSUME NEW pc \in {"log", "ring", "mailreq", "save", "audit", "resolve", "announce", "mail"}
      PROVE  /\ At(pc) \in Locals /\ At(pc).pc = pc
             /\ At(pc).i = k /\ At(pc).who = proc[p].who /\ At(pc).to = proc[p].to
  BY <1>2, <1>3 DEF Locals
<1>5. Rest(p) \in Locals /\ Rest(p).pc \in {"idle", "sweep"}
  BY <1>3 DEF Rest, Idle, Locals, Statuses
<1>6. Idle \in Locals /\ Idle.pc = "idle"
  BY IdleIsLocals DEF Idle
<1> HIDE DEF At
<1>7. CASE Assign(p)
  <2> DEFINE r == [req[k] EXCEPT !.assignees = proc[p].routed]
  <2>1. /\ r \in Rows /\ r.status = req[k].status /\ r.by = req[k].by /\ r.requester = req[k].requester
        /\ r.routed = req[k].routed /\ r.assignees \subseteq r.routed
    BY <1>1, <1>2, <1>3, <1>7 DEF Assign, LocalSane, Rows, Locals, Finishing
  <2>2. Moves(p, k, r, fx[k], At("log"))
    BY <1>2, <1>3, <1>7 DEF Assign, Goto, Moves, At
  <2>3. RestTyped
    BY <1>2, <1>7 DEF Assign, RestTyped, IInv, TypeOK
  <2> HIDE DEF r
  <2>4. Advances(proc[p].pc, At("log").pc, fx[k], fx[k])
    BY <1>4, <1>5, <1>6, <1>7, <2>1, <2>2 DEF Advances, Assign
  <2> QED BY <1>2, <1>3, <1>4, <1>5, <1>6, <2>1, <2>2, <2>3, <2>4, AdvanceKeepsInv
<1>8. CASE LogFiled(p)
  <2> DEFINE e == [fx[k] EXCEPT !.audits = fx[k].audits + 1]
  <2>1. /\ e \in Effects /\ e.audits = fx[k].audits + 1
        /\ e.calls = fx[k].calls /\ e.mails = fx[k].mails
    BY <1>3 DEF Effects
  <2>2. Moves(p, k, req[k], e, At("ring"))
    BY <1>2, <1>3, <1>8 DEF LogFiled, Goto, Moves, At
  <2>3. RestTyped
    BY <1>2, <1>8 DEF LogFiled, RestTyped, IInv, TypeOK
  <2> HIDE DEF e
  <2>4. Advances(proc[p].pc, At("ring").pc, e, fx[k])
    BY <1>4, <1>5, <1>6, <1>8, <2>1, <2>2 DEF Advances, LogFiled
  <2> QED BY <1>2, <1>3, <1>4, <1>5, <1>6, <2>1, <2>2, <2>3, <2>4, AdvanceKeepsInv
<1>9. CASE Ring(p)
  <2>1. Moves(p, k, req[k], fx[k], At("mailreq"))
    BY <1>2, <1>3, <1>9 DEF Ring, Goto, Moves, At
  <2>2. RestTyped
    BY <1>2, <1>9, NotifyTypes DEF Ring, RestTyped, IInv, TypeOK
  <2>3. Advances(proc[p].pc, At("mailreq").pc, fx[k], fx[k])
    BY <1>4, <1>5, <1>6, <1>9, <2>1 DEF Advances, Ring
  <2> QED BY <1>2, <1>3, <1>4, <1>5, <1>6, <2>1, <2>2, <2>3, AdvanceKeepsInv
<1>10. CASE MailRequested(p)
  <2> DEFINE e == [fx[k] EXCEPT !.mails = fx[k].mails + 1]
  <2>1. /\ e \in Effects /\ e.mails = fx[k].mails + 1
        /\ e.calls = fx[k].calls /\ e.audits = fx[k].audits
    BY <1>3 DEF Effects
  <2>2. Moves(p, k, req[k], e, Idle)
    BY <1>2, <1>3, <1>10 DEF MailRequested, Goto, Moves, At
  <2>3. RestTyped
    BY <1>2, <1>10 DEF MailRequested, RestTyped, IInv, TypeOK
  <2> HIDE DEF e
  <2>4. Advances(proc[p].pc, Idle.pc, e, fx[k])
    BY <1>4, <1>5, <1>6, <1>10, <2>1, <2>2 DEF Advances, MailRequested
  <2> QED BY <1>2, <1>3, <1>4, <1>5, <1>6, <2>1, <2>2, <2>3, <2>4, AdvanceKeepsInv
<1>11. CASE RunCallback(p)
  <2>0. PICK err \in BOOLEAN : req' = [req EXCEPT ![proc[p].i].err = err]
    BY <1>11 DEF RunCallback
  <2> DEFINE r == [req[k] EXCEPT !.err = err]
             e == [fx[k] EXCEPT !.calls = fx[k].calls + 1]
  <2>1. /\ r \in Rows /\ r.status = req[k].status /\ r.by = req[k].by /\ r.requester = req[k].requester
        /\ r.routed = req[k].routed /\ r.assignees \subseteq r.routed
    BY <1>1, <1>2, <1>3, <1>11 DEF RunCallback, LocalSane, Rows, Locals, Finishing
  <2>2. /\ e \in Effects /\ e.calls = fx[k].calls + 1
        /\ e.audits = fx[k].audits /\ e.mails = fx[k].mails
    BY <1>3 DEF Effects
  <2>3. Moves(p, k, r, e, At("save"))
    BY <1>2, <1>3, <1>11, <2>0 DEF RunCallback, Goto, Moves, At
  <2>4. RestTyped
    BY <1>2, <1>11 DEF RunCallback, RestTyped, IInv, TypeOK
  <2> HIDE DEF r, e
  <2>5. Advances(proc[p].pc, At("save").pc, e, fx[k])
    BY <1>4, <1>5, <1>6, <1>11, <2>1, <2>2, <2>3 DEF Advances, RunCallback
  <2> QED BY <1>2, <1>3, <1>4, <1>5, <1>6, <2>1, <2>2, <2>3, <2>4, <2>5, AdvanceKeepsInv
<1>12. CASE Resave(p)
  <2> DEFINE r == [req[k] EXCEPT !.status = proc[p].to, !.by = proc[p].who]
  <2>1. /\ r \in Rows /\ r.status = req[k].status /\ r.by = req[k].by /\ r.requester = req[k].requester
        /\ r.routed = req[k].routed /\ r.assignees \subseteq r.routed
    BY <1>1, <1>2, <1>3, <1>12 DEF Resave, LocalSane, Rows, Locals, Finishing
  <2>2. Moves(p, k, r, fx[k], At("audit"))
    BY <1>2, <1>3, <1>12 DEF Resave, Goto, Moves, At
  <2>3. RestTyped
    BY <1>2, <1>12 DEF Resave, RestTyped, IInv, TypeOK
  <2> HIDE DEF r
  <2>4. Advances(proc[p].pc, At("audit").pc, fx[k], fx[k])
    BY <1>4, <1>5, <1>6, <1>12, <2>1, <2>2 DEF Advances, Resave
  <2> QED BY <1>2, <1>3, <1>4, <1>5, <1>6, <2>1, <2>2, <2>3, <2>4, AdvanceKeepsInv
<1>13. CASE Audit(p)
  <2> DEFINE e == [fx[k] EXCEPT !.audits = fx[k].audits + 1]
  <2>1. /\ e \in Effects /\ e.audits = fx[k].audits + 1
        /\ e.calls = fx[k].calls /\ e.mails = fx[k].mails
    BY <1>3 DEF Effects
  <2>2. Moves(p, k, req[k], e, At("resolve"))
    BY <1>2, <1>3, <1>13 DEF Audit, Goto, Moves, At
  <2>3. RestTyped
    BY <1>2, <1>13 DEF Audit, RestTyped, IInv, TypeOK
  <2> HIDE DEF e
  <2>4. Advances(proc[p].pc, At("resolve").pc, e, fx[k])
    BY <1>4, <1>5, <1>6, <1>13, <2>1, <2>2 DEF Advances, Audit
  <2> QED BY <1>2, <1>3, <1>4, <1>5, <1>6, <2>1, <2>2, <2>3, <2>4, AdvanceKeepsInv
<1>14. CASE ResolveBell(p)
  <2>1. Moves(p, k, req[k], fx[k], At("announce"))
    BY <1>2, <1>3, <1>14 DEF ResolveBell, Goto, Moves, At
  <2>2. RestTyped
    BY <1>2, <1>14 DEF ResolveBell, RestTyped, IInv, TypeOK
  <2>3. Advances(proc[p].pc, At("announce").pc, fx[k], fx[k])
    BY <1>4, <1>5, <1>6, <1>14, <2>1 DEF Advances, ResolveBell
  <2> QED BY <1>2, <1>3, <1>4, <1>5, <1>6, <2>1, <2>2, <2>3, AdvanceKeepsInv
<1>15. CASE Announce(p)
  <2>1. Moves(p, k, req[k], fx[k], At("mail"))
    BY <1>2, <1>3, <1>15 DEF Announce, Goto, Moves, At
  <2>2. RestTyped
    BY <1>2, <1>15, NotifyTypes DEF Announce, RestTyped, IInv, TypeOK
  <2>3. Advances(proc[p].pc, At("mail").pc, fx[k], fx[k])
    BY <1>4, <1>5, <1>6, <1>15, <2>1 DEF Advances, Announce
  <2> QED BY <1>2, <1>3, <1>4, <1>5, <1>6, <2>1, <2>2, <2>3, AdvanceKeepsInv
<1>16. CASE MailDecided(p)
  <2> DEFINE e == [fx[k] EXCEPT !.mails = fx[k].mails + 1]
  <2>1. /\ e \in Effects /\ e.mails = fx[k].mails + 1
        /\ e.calls = fx[k].calls /\ e.audits = fx[k].audits
    BY <1>3 DEF Effects
  <2>2. Moves(p, k, req[k], e, Rest(p))
    BY <1>2, <1>3, <1>16 DEF MailDecided, Goto, Moves, At
  <2>3. RestTyped
    BY <1>2, <1>16 DEF MailDecided, RestTyped, IInv, TypeOK
  <2> HIDE DEF e
  <2>4. Advances(proc[p].pc, Rest(p).pc, e, fx[k])
    BY <1>4, <1>5, <1>6, <1>16, <2>1, <2>2 DEF Advances, MailDecided
  <2> QED BY <1>2, <1>3, <1>4, <1>5, <1>6, <2>1, <2>2, <2>3, <2>4, AdvanceKeepsInv
<1> QED BY <1>7, <1>8, <1>9, <1>10, <1>11, <1>12, <1>13, <1>14, <1>15, <1>16
\* Initially nothing is filed and nobody is at work.
LEMMA InvInit == Init => IInv
<1> SUFFICES ASSUME Init PROVE IInv
  OBVIOUS
<1>1. TypeOK
  BY TypeInit
<1>2. \A i \in Ids : /\ req[i].status = "none" /\ req[i].by = Nobody /\ req[i].assignees = {}
                     /\ fx[i].calls = 0 /\ fx[i].audits = 0 /\ fx[i].mails = 0
  BY DEF Init
<1>3. \A p \in Procs : proc[p].pc = "idle"
  BY DEF Init, Idle
<1>4. EffectsAtMostOnce /\ DeciderEligible /\ \A i \in Ids : RowSane(i)
  BY <1>2 DEF EffectsAtMostOnce, DeciderEligible, RowSane, Terminal, TerminalStatuses, Decisions, Used
<1>5. \A p \in Procs : LocalSane(p)
  BY <1>3 DEF LocalSane, Filing, Finishing, LogToCome, AuditToCome
<1>6. \A p, q \in Procs : PairSane(p, q)
  BY <1>3 DEF PairSane, Filing, Finishing, LogToCome, AuditToCome
<1> QED
  BY <1>1, <1>4, <1>5, <1>6 DEF IInv

\* Every step keeps the invariant.
LEMMA InvStep == IInv /\ [Next]_vars => IInv'
<1> SUFFICES ASSUME IInv, [Next]_vars PROVE IInv'
  OBVIOUS
<1>1. ASSUME NEW p \in Requests, Arrive(p) PROVE IInv'
  BY <1>1, ArriveKeepsInv DEF Procs
<1>2. CASE StartExpiry(Sweeper, Overdue)
  BY <1>2, ArriveKeepsInv DEF Procs
<1>3. ASSUME NEW p \in Procs, ProcStep(p) PROVE IInv'
  BY <1>3, InsertKeepsInv, ClaimKeepsInv, ExpireNextKeepsInv, AdvancesKeepInv DEF ProcStep
<1>4. ASSUME NEW p \in Procs, Die(p) PROVE IInv'
  <2>1. UNCHANGED <<req, fx>> /\ proc' = [proc EXCEPT ![p] = Idle] /\ RestTyped
    BY <1>4 DEF Die, RestTyped, IInv, TypeOK
  <2> QED BY <2>1, IdleIsLocals, QuietKeepsInv DEF Idle
<1>5. ASSUME NEW i \in Ids, PassExpiry(i) PROVE IInv'
  <2> DEFINE r == [req[i] EXCEPT !.overdue = TRUE]
  <2>1. req[i] \in Rows /\ req \in [Ids -> Rows]
    BY DEF IInv, TypeOK
  <2>2. /\ r \in Rows /\ r.status = req[i].status /\ r.by = req[i].by /\ r.requester = req[i].requester
        /\ r.routed = req[i].routed /\ r.assignees = req[i].assignees
    BY <2>1 DEF Rows
  <2>3. req' = [req EXCEPT ![i] = r]
    BY <1>5, <2>1 DEF PassExpiry
  <2> HIDE DEF r
  <2>4. TypeOK' /\ UNCHANGED <<proc, fx>>
    BY <1>5, <2>1, <2>2, <2>3 DEF PassExpiry, IInv, TypeOK
  <2>5. \A j \in Ids : j # i => req'[j] = req[j]
    BY <2>1, <2>3
  <2>6. req'[i] = r
    BY <2>1, <2>3
  <2> QED BY <2>2, <2>4, <2>5, <2>6, EnvironmentKeepsInv
<1>6. ASSUME NEW u \in Users, MarkRead(u) \/ Deactivate(u) PROVE IInv'
  <2>1. TypeOK' /\ UNCHANGED <<req, proc, fx>>
    BY <1>6 DEF MarkRead, Deactivate, IInv, TypeOK
  <2> QED BY <2>1, EnvironmentKeepsInv
<1>7. CASE UNCHANGED vars
  <2>1. TypeOK' /\ UNCHANGED <<req, proc, fx>>
    BY <1>7 DEF vars, IInv, TypeOK
  <2> QED BY <2>1, EnvironmentKeepsInv
<1> QED
  BY <1>1, <1>2, <1>3, <1>4, <1>5, <1>6, <1>7 DEF Next

\* An outcome and its decider are final: the winner's own re-save repeats them,
\* and no other step writes them.
LEMMA OutcomeStep ==
    ASSUME IInv, [Next]_vars, NEW i \in Ids, Terminal(i)
    PROVE  req'[i].status = req[i].status /\ req'[i].by = req[i].by
<1>0. req \in [Ids -> Rows] /\ req[i] \in Rows
  BY DEF IInv, TypeOK
<1>1. ASSUME NEW p \in Requests, Arrive(p) PROVE UNCHANGED req
  BY <1>1 DEF Arrive, StartFile, StartDecideLate, StartDecide, StartCancel, StartExpiry
<1>2. CASE StartExpiry(Sweeper, Overdue)
  BY <1>2 DEF StartExpiry
<1>3. ASSUME NEW p \in Procs, ProcStep(p)
      PROVE  req'[i].status = req[i].status /\ req'[i].by = req[i].by
  <2>1. CASE Insert(p)
    <3>1. Fresh # i
      BY <2>1, FreshIsFree DEF Insert, Used, Terminal, TerminalStatuses, Decisions
    <3> QED BY <1>0, <2>1, <3>1 DEF Insert
  <2>2. CASE Assign(p)
    BY <1>0, <2>2 DEF Assign, Rows
  <2>3. CASE Claim(p)
    <3>1. IsPending(proc[p].i) => proc[p].i # i
      BY DEF IsPending, Terminal, TerminalStatuses, Decisions
    <3> QED BY <1>0, <2>3, <3>1 DEF Claim
  <2>4. CASE ExpireNext(p)
    <3>1. ~IsPending(i)
      BY DEF IsPending, Terminal, TerminalStatuses, Decisions
    <3> QED BY <1>0, <2>4, <3>1 DEF ExpireNext
  <2>5. CASE RunCallback(p)
    BY <1>0, <2>5 DEF RunCallback, Rows
  <2>6. CASE Resave(p)
    <3>1. proc[p].to = req[proc[p].i].status /\ proc[p].who = req[proc[p].i].by
      BY <2>6 DEF IInv, LocalSane, Resave, Finishing
    <3>2. CASE proc[p].i = i
      BY <1>0, <2>6, <3>1, <3>2 DEF Resave, Rows
    <3>3. CASE proc[p].i # i
      BY <1>0, <2>6, <3>3 DEF Resave
    <3> QED BY <3>2, <3>3
  <2>7. CASE \/ LogFiled(p) \/ Ring(p) \/ MailRequested(p) \/ Audit(p)
             \/ ResolveBell(p) \/ Announce(p) \/ MailDecided(p)
    BY <2>7 DEF LogFiled, Ring, MailRequested, Audit, ResolveBell, Announce, MailDecided
  <2> QED
    BY <1>3, <2>1, <2>2, <2>3, <2>4, <2>5, <2>6, <2>7 DEF ProcStep
<1>4. ASSUME NEW p \in Procs, Die(p) PROVE UNCHANGED req
  BY <1>4 DEF Die
<1>5. ASSUME NEW j \in Ids, PassExpiry(j)
      PROVE  req'[i].status = req[i].status /\ req'[i].by = req[i].by
  BY <1>0, <1>5 DEF PassExpiry, Rows
<1>6. ASSUME NEW u \in Users, MarkRead(u) \/ Deactivate(u) PROVE UNCHANGED req
  BY <1>6 DEF MarkRead, Deactivate
<1>7. CASE UNCHANGED vars
  BY <1>7 DEF vars
<1> QED
  BY <1>1, <1>2, <1>3, <1>4, <1>5, <1>6, <1>7 DEF Next

----------------------------------------------------------------------------
(* The results.                                                            *)

\* The invariant holds throughout.
LEMMA InvAlways == Spec => []IInv
BY InvInit, InvStep, PTL DEF Spec

\* Approvals is type correct.
THEOREM TypeCorrect == Spec => []TypeOK
<1>1. IInv => TypeOK
  BY DEF IInv
<1> QED BY <1>1, InvAlways, PTL

\* _finish: however many requests, sweeps and crashes meet on a request, its
\* callback runs at most once, only after the transition, and it is audited and
\* mailed at most twice.
THEOREM EffectsOnce == Spec => []EffectsAtMostOnce
<1>1. IInv => EffectsAtMostOnce
  BY DEF IInv
<1> QED BY <1>1, InvAlways, PTL

\* can_decide holds of every decision that stands, although it is asked before
\* the claim and assignees are added after the row.
THEOREM DecidersEligible == Spec => []DeciderEligible
<1>1. IInv => DeciderEligible
  BY DEF IInv
<1> QED BY <1>1, InvAlways, PTL

\* services.py, "exactly one of two simultaneous decisions wins".
THEOREM OneWinner == Spec => OneDecisionWins
<1>1. IInv /\ [Next]_vars =>
        [\A i \in Ids : Terminal(i) => req'[i].status = req[i].status /\ req'[i].by = req[i].by]_vars
  BY OutcomeStep
<1> QED BY <1>1, InvAlways, PTL DEF Spec, OneDecisionWins

----------------------------------------------------------------------------
(* SchedulerSync: boots and operators on the code-declared jobs.           *)

\* The jobs that have a row.
There == {n \in JobNames : job[n].there}

\* What a sync has dealt with has a row, what an operator edits too, and what is about to
\* be retired is at most half of the rows.
BootSane(b) ==
    LET l == boot[b]
    IN  /\ l.pc \in {"specs", "apply"} => l.todo \subseteq l.reg /\ l.reg \ l.todo \subseteq There
        /\ l.pc \in {"apply", "form"} => job[l.n].there
        /\ l.pc = "form" => l.row.there
        /\ l.pc = "retire" => 2 * Cardinality(l.todo) <= Cardinality(There)

SyncInv == Sync!TypeOK /\ \A b \in Boots : BootSane(b)

\* What one process, alone, has read of a row is still so.
FreshCopy(b) ==
    LET l == boot[b]
    IN  /\ l.pc = "apply" => l.row = job[l.n]
        /\ l.pc = "form" => /\ l.row.retired = job[l.n].retired
                            /\ l.row.overridden = job[l.n].overridden
        /\ l.pc = "retire" => \A n \in l.todo : job[n].enabled

\* A job switched off by hand bears no marker, by which a sync would bring it back.
HandSane ==
    /\ \A n \in byHand : job[n].there /\ ~job[n].enabled /\ ~job[n].retired
    /\ Sync!OverrideKept

HandInv == HandSane /\ \A b \in Boots : FreshCopy(b)

\* Two disjoint parts of a finite set, of which the first is no larger than the second.
LEMMA HalfOf ==
    ASSUME NEW T, IsFiniteSet(T), NEW O \in SUBSET T, NEW R \in SUBSET T, O \cap R = {},
           2 * Cardinality(O) <= Cardinality(R) + Cardinality(O)
    PROVE  2 * Cardinality(O) <= Cardinality(T)
<1>1. IsFiniteSet(O) /\ IsFiniteSet(R)
  BY FS_Subset
<1>2. Cardinality(O) \in Nat /\ Cardinality(R) \in Nat /\ Cardinality(T) \in Nat
  BY <1>1, FS_CardinalityType
<1>3. Cardinality(O \cup R) = Cardinality(O) + Cardinality(R) - Cardinality(O \cap R)
  BY <1>1, FS_Union
<1>4. Cardinality(O \cap R) = 0
  BY FS_EmptySet
<1>5. Cardinality(O \cup R) <= Cardinality(T)
  <2>1. O \cup R \subseteq T
    OBVIOUS
  <2> QED BY <2>1, FS_Subset
<1> QED BY <1>2, <1>3, <1>4, <1>5

\* A set has at most the elements of a finite set that holds it.
LEMMA FewerInside ==
    ASSUME NEW T, IsFiniteSet(T), NEW O \in SUBSET T
    PROVE  /\ Cardinality(O) \in Nat /\ Cardinality(T) \in Nat
           /\ Cardinality(O) <= Cardinality(T)
<1>1. IsFiniteSet(O) /\ Cardinality(O) <= Cardinality(T)
  BY FS_Subset
<1> QED BY <1>1, FS_CardinalityType

\* A process at rest, and a fresh row.
LEMMA SyncIdle == /\ Sync!Idle \in Sync!Locals /\ Sync!Idle.pc = "idle"
                  /\ Sync!Absent \in Sync!Row /\ Sync!AnyCode \in CodeCadences
                  /\ \A c \in Sync!Cadences : Sync!NewRow(c) \in Sync!Row
<1>1. Sync!AnyCode \in CodeCadences
  BY JobsAssumption DEF Sync!AnyCode
<1>2. Sync!Absent \in Sync!Row /\ \A c \in Sync!Cadences : Sync!NewRow(c) \in Sync!Row
  BY <1>1 DEF Sync!Absent, Sync!NewRow, Sync!Row, Sync!Cadences
<1>3. (CHOOSE n \in JobNames : TRUE) \in JobNames
  BY JobsAssumption
<1> QED
  BY <1>1, <1>2, <1>3 DEF Sync!Idle, Sync!Locals, Sync!Cadences

\* Initially.
LEMMA SyncInvInit == Sync!Init => SyncInv /\ HandInv
<1> SUFFICES ASSUME Sync!Init PROVE SyncInv /\ HandInv
  OBVIOUS
<1>1. Sync!TypeOK
  BY SyncIdle DEF Sync!Init, Sync!TypeOK, Sync!Release, Sync!Cadences
<1>2. \A b \in Boots : BootSane(b) /\ FreshCopy(b)
  BY SyncIdle DEF Sync!Init, BootSane, FreshCopy
<1>3. HandSane
  <2>1. \A n \in JobNames : ~job[n].overridden
    BY DEF Sync!Init, Sync!NewRow, Sync!Absent
  <2> QED BY <2>1 DEF Sync!Init, HandSane, Sync!OverrideKept
<1> QED BY <1>1, <1>2, <1>3 DEF SyncInv, HandInv

\* Types are kept whenever the rows, the process that moves and the histories are typed.
SyncTyped ==
    /\ release' \in Sync!Release /\ job' \in [JobNames -> Sync!Row]
    /\ saidOff' \in SUBSET JobNames /\ byHand' \in SUBSET JobNames
    /\ chosen' \in [JobNames -> Sync!Cadences]
    /\ deploys' \in Nat /\ broken' \in Nat /\ edits' \in Nat

\* A process moves, and no row disappears: the others are as sane as they were.
LEMMA BootMoves ==
    ASSUME SyncInv, NEW p \in Boots, NEW l \in Sync!Locals, boot' = [boot EXCEPT ![p] = l],
           SyncTyped, There \subseteq There', BootSane(p)'
    PROVE  SyncInv'
<1>1. Sync!TypeOK'
  BY DEF SyncInv, SyncTyped, Sync!TypeOK
<1>2. IsFiniteSet(There')
  BY JobsAssumption, FS_Subset DEF There
<1>3. ASSUME NEW q \in Boots, q # p PROVE BootSane(q)'
  <2>1. boot'[q] = boot[q] /\ boot[q] \in Sync!Locals
    BY <1>3 DEF SyncInv, Sync!TypeOK
  <2>2. boot[q].n \in JobNames
    BY <2>1 DEF Sync!Locals
  <2>3. \A n \in JobNames : job[n].there => job'[n].there
    BY DEF There
  <2>4. /\ Cardinality(There) \in Nat /\ Cardinality(There') \in Nat
        /\ Cardinality(There) <= Cardinality(There')
    BY <1>2, FewerInside
  <2>5. boot[q].pc = "retire" => Cardinality(boot[q].todo) \in Nat
    <3>1. boot[q].todo \subseteq JobNames
      BY <2>1 DEF Sync!Locals
    <3> QED BY <3>1, FewerInside, JobsAssumption
  <2>6. BootSane(q)
    BY DEF SyncInv
  <2> DEFINE a == Cardinality(There)
             b == Cardinality(There')
             c == Cardinality(boot[q].todo)
  <2>7. boot[q].pc = "retire" => 2 * c <= b
    <3>1. boot[q].pc = "retire" => 2 * c <= a
      BY <2>6 DEF BootSane
    <3>2. a \in Nat /\ b \in Nat /\ a <= b /\ (boot[q].pc = "retire" => c \in Nat)
      BY <2>4, <2>5
    <3> HIDE DEF a, b, c
    <3> QED BY <3>1, <3>2
  <2> QED BY <2>1, <2>2, <2>3, <2>6, <2>7 DEF BootSane
<1> QED BY <1>1, <1>3 DEF SyncInv

\* A process comes to rest, or begins to sync.
LEMMA BootStarts ==
    ASSUME SyncInv, NEW p \in Boots, NEW reg \in SUBSET JobNames, Sync!StartWith(p, reg),
           SyncTyped, There \subseteq There'
    PROVE  SyncInv'
<1> DEFINE l == [Sync!Idle EXCEPT !.pc = "specs", !.reg = reg,
                                  !.cadence = release.cadence, !.todo = reg]
<1>1. l \in Sync!Locals /\ l.pc = "specs" /\ l.reg = reg /\ l.todo = reg
  BY SyncIdle DEF Sync!Locals, SyncInv, Sync!TypeOK, Sync!Release, Sync!Cadences
<1>2. boot' = [boot EXCEPT ![p] = l] /\ boot'[p] = l
  BY DEF Sync!StartWith, SyncInv, Sync!TypeOK
<1> HIDE DEF l
<1>3. BootSane(p)'
  BY <1>1, <1>2 DEF BootSane
<1> QED BY <1>1, <1>2, <1>3, BootMoves

LEMMA BootRests ==
    ASSUME SyncInv, NEW p \in Boots, boot' = [boot EXCEPT ![p] = Sync!Idle],
           SyncTyped, There \subseteq There'
    PROVE  SyncInv'
<1>1. boot'[p].pc = "idle"
  BY SyncIdle DEF SyncInv, Sync!TypeOK
<1>2. BootSane(p)'
  BY <1>1 DEF BootSane
<1> QED BY <1>2, SyncIdle, BootMoves

\* One spec is looked up or gets its row.
LEMMA SpecKeepsSync ==
    ASSUME SyncInv, NEW p \in Boots, Sync!SyncSpec(p)
    PROVE  SyncInv'
<1>1. PICK n \in boot[p].todo :
        IF job[n].there
        THEN /\ boot' = [boot EXCEPT ![p].pc = "apply", ![p].n = n, ![p].row = job[n],
                                     ![p].todo = @ \ {n}]
             /\ UNCHANGED job
        ELSE /\ job' = [job EXCEPT ![n] = Sync!NewRow(boot[p].cadence)]
             /\ boot' = [boot EXCEPT ![p].todo = @ \ {n}]
  BY DEF Sync!SyncSpec
<1>2. boot[p] \in Sync!Locals /\ boot[p].pc = "specs" /\ BootSane(p)
  BY DEF SyncInv, Sync!TypeOK, Sync!SyncSpec
<1>3. n \in JobNames /\ boot[p].cadence \in Sync!Cadences
  BY <1>2 DEF Sync!Locals
<1>4. Sync!NewRow(boot[p].cadence) \in Sync!Row /\ Sync!NewRow(boot[p].cadence).there
  BY <1>3, SyncIdle DEF Sync!NewRow
<1>5. SyncTyped
  BY <1>1, <1>3, <1>4 DEF SyncTyped, SyncInv, Sync!TypeOK, Sync!SyncSpec, Sync!history, Sync!counts
<1>6. There \subseteq There' /\ n \in There'
  BY <1>1, <1>3, <1>4 DEF There, SyncInv, Sync!TypeOK
<1>7. CASE job[n].there
  <2> DEFINE l == [boot[p] EXCEPT !.pc = "apply", !.n = n, !.row = job[n], !.todo = @ \ {n}]
  <2>1. boot' = [boot EXCEPT ![p] = l] /\ boot'[p] = l /\ job' = job
    BY <1>1, <1>7 DEF SyncInv, Sync!TypeOK
  <2>2. /\ l \in Sync!Locals /\ l.pc = "apply" /\ l.n = n /\ l.reg = boot[p].reg
        /\ l.todo = boot[p].todo \ {n}
    BY <1>2, <1>3 DEF Sync!Locals, SyncInv, Sync!TypeOK
  <2> HIDE DEF l
  <2>3. BootSane(p)'
    BY <1>2, <1>6, <1>7, <2>1, <2>2 DEF BootSane
  <2> QED BY <1>5, <1>6, <2>1, <2>2, <2>3, BootMoves
<1>8. CASE ~job[n].there
  <2> DEFINE l == [boot[p] EXCEPT !.todo = @ \ {n}]
  <2>1. boot' = [boot EXCEPT ![p] = l] /\ boot'[p] = l
    BY <1>1, <1>8 DEF SyncInv, Sync!TypeOK
  <2>2. /\ l \in Sync!Locals /\ l.pc = "specs" /\ l.reg = boot[p].reg
        /\ l.todo = boot[p].todo \ {n}
    BY <1>2 DEF Sync!Locals
  <2> HIDE DEF l
  <2>3. BootSane(p)'
    BY <1>2, <1>6, <2>1, <2>2 DEF BootSane
  <2> QED BY <1>5, <1>6, <2>1, <2>2, <2>3, BootMoves
<1> QED BY <1>7, <1>8

\* One declared job is brought back, retuned or left.
LEMMA ApplyKeepsSync ==
    ASSUME SyncInv, NEW p \in Boots, Sync!SyncApply(p)
    PROVE  SyncInv'
<1>1. boot[p] \in Sync!Locals /\ boot[p].pc = "apply" /\ BootSane(p)
  BY DEF SyncInv, Sync!TypeOK, Sync!SyncApply
<1>2. boot[p].n \in JobNames /\ boot[p].cadence \in Sync!Cadences
  BY <1>1 DEF Sync!Locals
<1> DEFINE l == [boot[p] EXCEPT !.pc = "specs", !.row = Sync!Absent]
<1>3. boot' = [boot EXCEPT ![p] = l] /\ boot'[p] = l
  BY DEF Sync!SyncApply, SyncInv, Sync!TypeOK
<1>4. /\ l \in Sync!Locals /\ l.pc = "specs" /\ l.reg = boot[p].reg /\ l.todo = boot[p].todo
  BY <1>1, SyncIdle DEF Sync!Locals
<1>5. PICK r : /\ job' = [job EXCEPT ![boot[p].n] = r]
               /\ r \in Sync!Row /\ r.there = job[boot[p].n].there
  <2> DEFINE row == boot[p].row
             n == boot[p].n
             retune == ~row.overridden /\ row.cadence # boot[p].cadence
             cadence == IF retune THEN boot[p].cadence ELSE row.cadence
             on == row.retired \/ row.enabled
             changed == row.retired \/ retune \/ (on /\ ~row.seeded)
             reseed == on /\ (retune \/ ~row.seeded \/ (changed /\ job[n].cadence # cadence))
             r == [job[n] EXCEPT !.cadence = IF retune THEN boot[p].cadence ELSE @,
                                 !.enabled = IF row.retired THEN TRUE ELSE @,
                                 !.retired = IF row.retired THEN FALSE ELSE @,
                                 !.seeded = IF reseed THEN TRUE ELSE @]
  <2>1. job[n] \in Sync!Row
    BY <1>2 DEF SyncInv, Sync!TypeOK
  <2>2. job' = [job EXCEPT ![n] = r]
    BY <1>2, <2>1 DEF Sync!SyncApply, SyncInv, Sync!TypeOK
  <2> HIDE DEF retune, reseed
  <2>3. r \in Sync!Row /\ r.there = job[n].there
    BY <1>2, <2>1 DEF Sync!Row
  <2> QED BY <2>2, <2>3
<1> HIDE DEF l
<1>6. SyncTyped
  BY <1>5, ZenonT(60) DEF SyncTyped, SyncInv, Sync!TypeOK, Sync!SyncApply, Sync!history, Sync!counts
<1>7. There \subseteq There'
  BY <1>2, <1>5 DEF There, SyncInv, Sync!TypeOK
<1>8. BootSane(p)'
  BY <1>1, <1>3, <1>4, <1>7 DEF BootSane
<1> QED BY <1>3, <1>4, <1>6, <1>7, <1>8, BootMoves

\* The two safety valves bound what is listed for retirement.
LEMMA ListKeepsSync ==
    ASSUME SyncInv, NEW p \in Boots, Sync!ListOrphans(p)
    PROVE  SyncInv'
<1>1. boot[p] \in Sync!Locals /\ boot[p].pc = "specs" /\ boot[p].todo = {} /\ BootSane(p)
  BY DEF SyncInv, Sync!TypeOK, Sync!ListOrphans
<1>2. SyncTyped /\ There' = There
  BY DEF SyncTyped, There, SyncInv, Sync!TypeOK, Sync!ListOrphans, Sync!history, Sync!counts
<1>3. CASE boot' = [boot EXCEPT ![p] = Sync!Idle]
  BY <1>2, <1>3, BootRests
<1>4. CASE /\ Sync!RetirementIsPlausible(p)
           /\ boot' = [boot EXCEPT ![p] = [Sync!Idle EXCEPT !.pc = "retire", !.reg = boot[p].reg,
                                                            !.todo = Sync!Orphans(p)]]
  <2> DEFINE l == [Sync!Idle EXCEPT !.pc = "retire", !.reg = boot[p].reg,
                                    !.todo = Sync!Orphans(p)]
             O == Sync!Orphans(p)
             R == boot[p].reg
  <2>1. O \subseteq There /\ R \subseteq There /\ O \cap R = {}
    BY <1>1 DEF BootSane, There, Sync!Orphans
  <2>2. 2 * Cardinality(O) <= Cardinality(R) + Cardinality(O)
    BY <1>4 DEF Sync!RetirementIsPlausible, Sync!Cardinality, Cardinality
  <2>3. IsFiniteSet(There)
    BY JobsAssumption, FS_Subset DEF There
  <2>4. l \in Sync!Locals /\ l.pc = "retire" /\ l.todo = O
    BY <1>1, SyncIdle DEF Sync!Locals, Sync!Orphans
  <2>5. boot' = [boot EXCEPT ![p] = l] /\ boot'[p] = l
    BY <1>4 DEF SyncInv, Sync!TypeOK
  <2> HIDE DEF l, O, R
  <2>6. 2 * Cardinality(O) <= Cardinality(There)
    BY <2>1, <2>2, <2>3, HalfOf
  <2>7. BootSane(p)'
    BY <1>2, <2>4, <2>5, <2>6 DEF BootSane
  <2> QED BY <1>2, <2>4, <2>5, <2>7, BootMoves
<1> QED BY <1>3, <1>4 DEF Sync!ListOrphans

\* One row of the list is retired.
LEMMA RetireKeepsSync ==
    ASSUME SyncInv, NEW p \in Boots, Sync!Retire(p)
    PROVE  SyncInv'
<1>1. boot[p] \in Sync!Locals /\ boot[p].pc = "retire" /\ BootSane(p)
  BY DEF SyncInv, Sync!TypeOK, Sync!Retire
<1>2. PICK n \in boot[p].todo :
        /\ job' = [job EXCEPT ![n].enabled = FALSE, ![n].retired = TRUE, ![n].seeded = FALSE]
        /\ boot' = [boot EXCEPT ![p] = IF boot[p].todo = {n} THEN Sync!Idle
                                       ELSE [boot[p] EXCEPT !.todo = @ \ {n}]]
  BY DEF Sync!Retire
<1>3. n \in JobNames
  BY <1>1 DEF Sync!Locals
<1>4. /\ job' \in [JobNames -> Sync!Row]
      /\ \A m \in JobNames : job'[m].there = job[m].there
  BY <1>2, <1>3, ZenonT(60) DEF SyncInv, Sync!TypeOK, Sync!Row
<1>5. SyncTyped /\ There \subseteq There' /\ There' = There
  BY <1>4 DEF SyncTyped, There, SyncInv, Sync!TypeOK, Sync!Retire, Sync!history, Sync!counts
<1>6. CASE boot[p].todo = {n}
  BY <1>2, <1>5, <1>6, BootRests
<1>7. CASE boot[p].todo # {n}
  <2> DEFINE l == [boot[p] EXCEPT !.todo = @ \ {n}]
  <2>1. /\ l \in Sync!Locals /\ l.pc = "retire" /\ l.todo = boot[p].todo \ {n}
    BY <1>1 DEF Sync!Locals
  <2>2. boot' = [boot EXCEPT ![p] = l] /\ boot'[p] = l
    BY <1>2, <1>7 DEF SyncInv, Sync!TypeOK
  <2> HIDE DEF l
  <2>3. IsFiniteSet(boot[p].todo)
    <3>1. boot[p].todo \subseteq JobNames
      BY <1>1 DEF Sync!Locals
    <3> QED BY <3>1, FS_Subset, JobsAssumption
  <2>4. /\ Cardinality(l.todo) \in Nat /\ Cardinality(boot[p].todo) \in Nat
        /\ Cardinality(l.todo) <= Cardinality(boot[p].todo)
    <3>1. l.todo \subseteq boot[p].todo
      BY <2>1
    <3> QED BY <2>3, <3>1, FewerInside
  <2>5. IsFiniteSet(There)
    BY JobsAssumption, FS_Subset DEF There
  <2>6. Cardinality(There) \in Nat
    BY <2>5, FS_CardinalityType
  <2>7. 2 * Cardinality(boot[p].todo) <= Cardinality(There)
    BY <1>1 DEF BootSane
  <2>8. 2 * Cardinality(l.todo) <= Cardinality(There)
    <3> DEFINE a == Cardinality(l.todo)
               b == Cardinality(boot[p].todo)
               c == Cardinality(There)
    <3>1. a \in Nat /\ b \in Nat /\ c \in Nat /\ a <= b /\ 2 * b <= c
      BY <2>4, <2>6, <2>7
    <3> HIDE DEF a, b, c
    <3>2. 2 * a <= c
      BY <3>1
    <3> QED BY <3>2 DEF a, c
  <2>9. BootSane(p)'
    BY <1>5, <2>1, <2>2, <2>8 DEF BootSane
  <2> QED BY <1>5, <2>1, <2>2, <2>9, BootMoves
<1> QED BY <1>6, <1>7

\* The edit form is filled in and saved.
LEMMA LoadKeepsSync ==
    ASSUME SyncInv, NEW p \in Boots, NEW n \in JobNames, NEW e \in BOOLEAN,
           NEW c \in Sync!Cadences, Sync!EditLoad(p, n, e, c)
    PROVE  SyncInv'
<1> DEFINE r == [job[n] EXCEPT !.enabled = e, !.cadence = c]
           l == [Sync!Idle EXCEPT !.pc = "form", !.n = n, !.row = r]
<1>1. r \in Sync!Row /\ r.there /\ job[n].there
  BY DEF Sync!EditLoad, SyncInv, Sync!TypeOK, Sync!Row
<1>2. boot' = [boot EXCEPT ![p] = l] /\ boot'[p] = l
  BY DEF Sync!EditLoad, SyncInv, Sync!TypeOK
<1> HIDE DEF r
<1>3. l \in Sync!Locals /\ l.pc = "form" /\ l.n = n /\ l.row = r
  BY <1>1, SyncIdle DEF Sync!Locals
<1> HIDE DEF l
<1>4. SyncTyped /\ job' = job /\ There \subseteq There'
  BY DEF SyncTyped, There, SyncInv, Sync!TypeOK, Sync!EditLoad, Sync!history
<1>5. BootSane(p)'
  BY <1>1, <1>2, <1>3, <1>4 DEF BootSane
<1> QED BY <1>2, <1>3, <1>4, <1>5, BootMoves

LEMMA SaveKeepsSync ==
    ASSUME SyncInv, NEW p \in Boots, Sync!EditSave(p)
    PROVE  SyncInv'
<1>1. boot[p] \in Sync!Locals /\ boot[p].pc = "form" /\ BootSane(p)
  BY DEF SyncInv, Sync!TypeOK, Sync!EditSave
<1>2. boot[p].n \in JobNames /\ boot[p].row \in Sync!Row
  BY <1>1 DEF Sync!Locals
<1> DEFINE n == boot[p].n
           row == boot[p].row
           retune == row.cadence # job[n].cadence
           r == [row EXCEPT !.overridden = row.overridden \/ retune,
                            !.seeded = row.seeded \/ row.enabled]
<1>3. job' = [job EXCEPT ![n] = r]
  BY DEF Sync!EditSave
<1>4. r \in Sync!Row /\ r.there
  BY <1>1, <1>2 DEF Sync!Row, BootSane
<1>5. saidOff' \in SUBSET JobNames /\ byHand' \in SUBSET JobNames
  BY <1>2 DEF Sync!EditSave, SyncInv, Sync!TypeOK
<1>6. chosen' \in [JobNames -> Sync!Cadences]
  <2>1. row.cadence \in Sync!Cadences
    BY <1>2 DEF Sync!Row
  <2> QED BY <1>2, <2>1 DEF Sync!EditSave, SyncInv, Sync!TypeOK
<1> HIDE DEF r
<1>7. SyncTyped
  <2>1. job' \in [JobNames -> Sync!Row]
    BY <1>2, <1>3, <1>4 DEF SyncInv, Sync!TypeOK
  <2>2. UNCHANGED <<release, deploys, broken, edits>>
    BY DEF Sync!EditSave, Sync!counts
  <2> QED BY <1>5, <1>6, <2>1, <2>2 DEF SyncTyped, SyncInv, Sync!TypeOK
<1>8. There \subseteq There'
  BY <1>2, <1>3, <1>4 DEF There, SyncInv, Sync!TypeOK
<1>9. boot' = [boot EXCEPT ![p] = Sync!Idle]
  BY DEF Sync!EditSave
<1> QED BY <1>7, <1>8, <1>9, BootRests

\* The override is cleared and a sync begins.
LEMMA ResetKeepsSync ==
    ASSUME SyncInv, NEW p \in Boots, NEW n \in JobNames, Sync!Reset(p, n)
    PROVE  SyncInv'
<1>1. job' = [job EXCEPT ![n].overridden = FALSE]
  BY DEF Sync!Reset
<1>2. job' \in [JobNames -> Sync!Row] /\ \A m \in JobNames : job'[m].there = job[m].there
  BY <1>1 DEF SyncInv, Sync!TypeOK, Sync!Row
<1>3. SyncTyped /\ There \subseteq There' /\ release.names \in SUBSET JobNames
  BY <1>2 DEF SyncTyped, There, SyncInv, Sync!TypeOK, Sync!Release, Sync!Reset, Sync!history
<1> QED BY <1>3, BootStarts DEF Sync!Reset

\* Every step of the syncs keeps what they rest on.
LEMMA SyncInvStep == SyncInv /\ [Sync!Next]_syncVars => SyncInv'
<1> SUFFICES ASSUME SyncInv, [Sync!Next]_syncVars PROVE SyncInv'
  OBVIOUS
<1>1. CASE UNCHANGED syncVars
  BY <1>1 DEF syncVars, SyncInv, BootSane, There, Sync!TypeOK
<1>2. ASSUME NEW p \in Boots, Sync!SyncStart(p) PROVE SyncInv'
  <2>1. SyncTyped /\ There \subseteq There' /\ release.names \in SUBSET JobNames
    BY <1>2 DEF SyncTyped, There, SyncInv, Sync!TypeOK, Sync!Release, Sync!SyncStart,
                Sync!history, Sync!counts
  <2> QED BY <1>2, <2>1, BootStarts DEF Sync!SyncStart
<1>3. ASSUME NEW p \in Boots, NEW reg \in SUBSET release.names, Sync!SyncStartBroken(p, reg)
      PROVE  SyncInv'
  <2>1. SyncTyped /\ There \subseteq There' /\ reg \in SUBSET JobNames
    BY <1>3 DEF SyncTyped, There, SyncInv, Sync!TypeOK, Sync!Release, Sync!SyncStartBroken,
                Sync!history
  <2> QED BY <1>3, <2>1, BootStarts DEF Sync!SyncStartBroken
<1>4. ASSUME NEW rel \in Sync!Release, Sync!Deploy(rel) PROVE SyncInv'
  BY <1>4 DEF Sync!Deploy, Sync!history, SyncInv, BootSane, There, Sync!TypeOK
<1> QED
  BY <1>1, <1>2, <1>3, <1>4, SpecKeepsSync, ApplyKeepsSync, ListKeepsSync, RetireKeepsSync,
     SaveKeepsSync, LoadKeepsSync, ResetKeepsSync DEF Sync!Next, Sync!Step, Sync!SyncStep

----------------------------------------------------------------------------
(* What was done by hand, with one process at a time.                      *)

\* One spec is looked up or gets its row.
LEMMA SpecKeepsHand ==
    ASSUME SyncInv, HandInv, NEW p, Boots = {p}, Sync!SyncSpec(p)
    PROVE  HandInv'
<1>1. PICK n \in boot[p].todo :
        IF job[n].there
        THEN /\ boot' = [boot EXCEPT ![p].pc = "apply", ![p].n = n, ![p].row = job[n],
                                     ![p].todo = @ \ {n}]
             /\ UNCHANGED job
        ELSE /\ job' = [job EXCEPT ![n] = Sync!NewRow(boot[p].cadence)]
             /\ boot' = [boot EXCEPT ![p].todo = @ \ {n}]
  BY DEF Sync!SyncSpec
<1>2. boot[p] \in Sync!Locals /\ boot[p].pc = "specs" /\ n \in JobNames
  BY DEF SyncInv, Sync!TypeOK, Sync!SyncSpec, Sync!Locals
<1>3. UNCHANGED <<byHand, chosen>>
  BY DEF Sync!SyncSpec, Sync!history
<1>4. CASE job[n].there
  <2>1. boot'[p].pc = "apply" /\ boot'[p].n = n /\ boot'[p].row = job[n] /\ job' = job
    BY <1>1, <1>2, <1>4 DEF SyncInv, Sync!TypeOK, Sync!Locals
  <2> QED BY <1>3, <2>1 DEF HandInv, HandSane, Sync!OverrideKept, FreshCopy
<1>5. CASE ~job[n].there
  <2>1. boot'[p].pc = "specs"
    BY <1>1, <1>2, <1>5 DEF SyncInv, Sync!TypeOK, Sync!Locals
  <2>2. /\ n \notin byHand /\ ~job'[n].overridden
        /\ \A m \in JobNames : m # n => job'[m] = job[m]
    BY <1>1, <1>2, <1>5 DEF HandInv, HandSane, SyncInv, Sync!TypeOK, Sync!NewRow
  <2>3. byHand \subseteq JobNames
    BY DEF SyncInv, Sync!TypeOK
  <2> QED BY <1>3, <2>1, <2>2, <2>3 DEF HandInv, HandSane, Sync!OverrideKept, FreshCopy
<1> QED BY <1>4, <1>5

\* Only what bears the marker is switched on, only what was not retuned by hand is retuned.
LEMMA ApplyKeepsHand ==
    ASSUME SyncInv, HandInv, NEW p, Boots = {p}, Sync!SyncApply(p)
    PROVE  HandInv'
<1> DEFINE n == boot[p].n
<1>1. /\ boot[p] \in Sync!Locals /\ boot[p].pc = "apply" /\ n \in JobNames
      /\ boot[p].row = job[n]
  BY DEF HandInv, FreshCopy, SyncInv, Sync!TypeOK, Sync!SyncApply, Sync!Locals
<1>2. UNCHANGED <<byHand, chosen>> /\ byHand \subseteq JobNames
  BY DEF Sync!SyncApply, Sync!history, SyncInv, Sync!TypeOK
<1>3. boot'[p].pc = "specs"
  BY <1>1 DEF Sync!SyncApply, SyncInv, Sync!TypeOK, Sync!Locals
<1>4. \A m \in JobNames : m # n => job'[m] = job[m]
  BY <1>1 DEF Sync!SyncApply, SyncInv, Sync!TypeOK
<1>5. /\ job'[n].there = job[n].there /\ job'[n].overridden = job[n].overridden
      /\ ~job[n].retired => job'[n].enabled = job[n].enabled /\ job'[n].retired = job[n].retired
      /\ job[n].overridden => job'[n].cadence = job[n].cadence
  <2> DEFINE row == boot[p].row
             retune == ~row.overridden /\ row.cadence # boot[p].cadence
             cadence == IF retune THEN boot[p].cadence ELSE row.cadence
             on == row.retired \/ row.enabled
             changed == row.retired \/ retune \/ (on /\ ~row.seeded)
             reseed == on /\ (retune \/ ~row.seeded \/ (changed /\ job[n].cadence # cadence))
             r == [job[n] EXCEPT !.cadence = IF retune THEN boot[p].cadence ELSE @,
                                 !.enabled = IF row.retired THEN TRUE ELSE @,
                                 !.retired = IF row.retired THEN FALSE ELSE @,
                                 !.seeded = IF reseed THEN TRUE ELSE @]
  <2>1. job[n] \in Sync!Row
    BY <1>1 DEF SyncInv, Sync!TypeOK
  <2>2. job'[n] = r
    BY <1>1, <2>1 DEF Sync!SyncApply, SyncInv, Sync!TypeOK
  <2>3. job[n].overridden => ~retune
    BY <1>1
  <2> HIDE DEF retune, reseed
  <2> QED BY <1>1, <2>1, <2>2, <2>3 DEF Sync!Row
<1> HIDE DEF n
<1> QED BY <1>1, <1>2, <1>3, <1>4, <1>5 DEF HandInv, HandSane, Sync!OverrideKept, FreshCopy

\* Nothing disabled is listed for retirement.
LEMMA ListKeepsHand ==
    ASSUME SyncInv, HandInv, NEW p, Boots = {p}, Sync!ListOrphans(p)
    PROVE  HandInv'
<1>1. UNCHANGED <<job, byHand, chosen>>
  BY DEF Sync!ListOrphans, Sync!history
<1>2. \/ boot'[p].pc = "idle"
      \/ boot'[p].pc = "retire" /\ boot'[p].todo = Sync!Orphans(p)
  BY SyncIdle DEF Sync!ListOrphans, SyncInv, Sync!TypeOK, Sync!Locals
<1>3. \A n \in Sync!Orphans(p) : job[n].enabled
  BY DEF Sync!Orphans
<1> QED BY <1>1, <1>2, <1>3 DEF HandInv, HandSane, Sync!OverrideKept, FreshCopy

LEMMA RetireKeepsHand ==
    ASSUME SyncInv, HandInv, NEW p, Boots = {p}, Sync!Retire(p)
    PROVE  HandInv'
<1>1. PICK n \in boot[p].todo :
        /\ job' = [job EXCEPT ![n].enabled = FALSE, ![n].retired = TRUE, ![n].seeded = FALSE]
        /\ boot' = [boot EXCEPT ![p] = IF boot[p].todo = {n} THEN Sync!Idle
                                       ELSE [boot[p] EXCEPT !.todo = @ \ {n}]]
  BY DEF Sync!Retire
<1>2. boot[p] \in Sync!Locals /\ boot[p].pc = "retire" /\ n \in JobNames
  BY DEF SyncInv, Sync!TypeOK, Sync!Retire, Sync!Locals
<1>3. UNCHANGED <<byHand, chosen>> /\ byHand \subseteq JobNames
  BY DEF Sync!Retire, Sync!history, SyncInv, Sync!TypeOK
<1>4. n \notin byHand /\ \A m \in boot[p].todo : job[m].enabled
  BY <1>2 DEF HandInv, HandSane, FreshCopy
<1>5. /\ \A m \in JobNames : m # n => job'[m] = job[m]
      /\ job'[n].overridden = job[n].overridden /\ job'[n].cadence = job[n].cadence
  BY <1>1, <1>2 DEF SyncInv, Sync!TypeOK, Sync!Row
<1>6. HandSane'
  BY <1>3, <1>4, <1>5 DEF HandInv, HandSane, Sync!OverrideKept
<1>7. \/ boot'[p].pc = "idle"
      \/ boot'[p].pc = "retire" /\ boot'[p].todo = boot[p].todo \ {n}
  BY <1>1, <1>2, SyncIdle DEF SyncInv, Sync!TypeOK, Sync!Locals
<1>8. \A m \in boot[p].todo \ {n} : job'[m].enabled
  <2>1. boot[p].todo \subseteq JobNames
    BY <1>2 DEF Sync!Locals
  <2> QED BY <1>4, <1>5, <2>1
<1> QED BY <1>6, <1>7, <1>8 DEF HandInv, FreshCopy

\* The form is filled from the row, and nothing moves until it is saved.
LEMMA LoadKeepsHand ==
    ASSUME SyncInv, HandInv, NEW p, Boots = {p}, NEW n \in JobNames, NEW e \in BOOLEAN,
           NEW c \in Sync!Cadences, Sync!EditLoad(p, n, e, c)
    PROVE  HandInv'
<1>1. UNCHANGED <<job, byHand, chosen>>
  BY DEF Sync!EditLoad, Sync!history
<1> DEFINE r == [job[n] EXCEPT !.enabled = e, !.cadence = c]
<1>2. r.retired = job[n].retired /\ r.overridden = job[n].overridden
  BY DEF SyncInv, Sync!TypeOK, Sync!Row
<1>3. boot'[p] = [Sync!Idle EXCEPT !.pc = "form", !.n = n, !.row = r]
  BY DEF Sync!EditLoad, SyncInv, Sync!TypeOK
<1> HIDE DEF r
<1>4. boot'[p].pc = "form" /\ boot'[p].n = n /\ boot'[p].row = r
  BY <1>3, SyncIdle DEF Sync!Locals
<1> QED BY <1>1, <1>2, <1>4 DEF HandInv, HandSane, Sync!OverrideKept, FreshCopy

LEMMA SaveKeepsHand ==
    ASSUME SyncInv, HandInv, NEW p, Boots = {p}, Sync!EditSave(p)
    PROVE  HandInv'
<1> DEFINE n == boot[p].n
           row == boot[p].row
           retune == row.cadence # job[n].cadence
           r == [row EXCEPT !.overridden = row.overridden \/ retune,
                            !.seeded = row.seeded \/ row.enabled]
<1>1. /\ boot[p].pc = "form" /\ n \in JobNames /\ row \in Sync!Row /\ job[n] \in Sync!Row
      /\ row.there /\ row.retired = job[n].retired /\ row.overridden = job[n].overridden
  BY DEF HandInv, FreshCopy, BootSane, SyncInv, Sync!TypeOK, Sync!EditSave, Sync!Locals
<1>2. boot'[p].pc = "idle"
  BY SyncIdle DEF Sync!EditSave, SyncInv, Sync!TypeOK
<1>3. job' = [job EXCEPT ![n] = r] /\ job \in [JobNames -> Sync!Row]
  BY DEF Sync!EditSave, SyncInv, Sync!TypeOK
<1>4. /\ r.there /\ r.enabled = row.enabled /\ r.retired = row.retired /\ r.cadence = row.cadence
      /\ r.overridden <=> row.overridden \/ retune
  BY <1>1 DEF Sync!Row
<1>5. /\ byHand' = IF row.enabled THEN byHand \ {n}
                   ELSE byHand \cup {m \in {n} : job[n].enabled /\ ~row.retired}
      /\ chosen' = IF retune THEN [chosen EXCEPT ![n] = row.cadence] ELSE chosen
  BY DEF Sync!EditSave
<1>6. byHand \subseteq JobNames /\ chosen \in [JobNames -> Sync!Cadences]
  BY DEF SyncInv, Sync!TypeOK
<1> HIDE DEF r
<1>7. \A m \in byHand' : job'[m].there /\ ~job'[m].enabled /\ ~job'[m].retired
  BY <1>1, <1>3, <1>4, <1>5, <1>6 DEF HandInv, HandSane
<1>8. \A m \in JobNames : job'[m].overridden => job'[m].cadence = chosen'[m]
  <2> SUFFICES ASSUME NEW m \in JobNames, job'[m].overridden
               PROVE  job'[m].cadence = chosen'[m]
    OBVIOUS
  <2>1. CASE m # n
    <3>1. job'[m] = job[m] /\ chosen'[m] = chosen[m]
      BY <1>3, <1>5, <1>6, <2>1
    <3> QED BY <3>1 DEF HandInv, HandSane, Sync!OverrideKept
  <2>2. CASE m = n /\ retune
    BY <1>1, <1>3, <1>4, <1>5, <1>6, <2>2
  <2>3. CASE m = n /\ ~retune
    <3>1. job'[m] = r /\ chosen'[m] = chosen[n] /\ row.overridden
      BY <1>1, <1>3, <1>4, <1>5, <2>3
    <3> QED BY <1>1, <1>4, <2>3, <3>1 DEF HandInv, HandSane, Sync!OverrideKept
  <2> QED BY <2>1, <2>2, <2>3
<1>9. HandSane'
  BY <1>7, <1>8 DEF HandSane, Sync!OverrideKept
<1> QED BY <1>2, <1>9 DEF HandInv, FreshCopy

\* Every step of one process keeps what was done by hand.
LEMMA HandInvStep ==
    ASSUME NEW p, Boots = {p}
    PROVE  SyncInv /\ HandInv /\ [Sync!Next]_syncVars => HandInv'
<1> SUFFICES ASSUME SyncInv, HandInv, [Sync!Next]_syncVars PROVE HandInv'
  OBVIOUS
<1>1. CASE UNCHANGED syncVars
  BY <1>1 DEF syncVars, HandInv, HandSane, Sync!OverrideKept, FreshCopy
<1>2. ASSUME NEW reg, Sync!StartWith(p, reg), UNCHANGED <<byHand, chosen>>,
             \/ UNCHANGED job
             \/ \E n \in JobNames : job' = [job EXCEPT ![n].overridden = FALSE]
      PROVE  HandInv'
  <2>1. boot'[p].pc = "specs"
    BY <1>2, SyncIdle DEF Sync!StartWith, SyncInv, Sync!TypeOK, Sync!Locals
  <2>2. \A m \in JobNames :
          /\ job'[m].there = job[m].there /\ job'[m].enabled = job[m].enabled
          /\ job'[m].retired = job[m].retired /\ job'[m].cadence = job[m].cadence
          /\ job'[m].overridden => job[m].overridden
    BY <1>2 DEF SyncInv, Sync!TypeOK, Sync!Row
  <2>3. byHand \subseteq JobNames
    BY DEF SyncInv, Sync!TypeOK
  <2> QED BY <1>2, <2>1, <2>2, <2>3 DEF HandInv, HandSane, Sync!OverrideKept, FreshCopy
<1>3. ASSUME Sync!SyncStart(p) PROVE HandInv'
  BY <1>2, <1>3 DEF Sync!SyncStart, Sync!history
<1>4. ASSUME NEW reg, Sync!SyncStartBroken(p, reg) PROVE HandInv'
  BY <1>2, <1>4 DEF Sync!SyncStartBroken, Sync!history
<1>5. ASSUME NEW n \in JobNames, Sync!Reset(p, n) PROVE HandInv'
  BY <1>2, <1>5 DEF Sync!Reset, Sync!history
<1>6. ASSUME NEW rel, Sync!Deploy(rel) PROVE HandInv'
  BY <1>6 DEF Sync!Deploy, Sync!history, HandInv, HandSane, Sync!OverrideKept, FreshCopy
<1> QED
  BY <1>1, <1>3, <1>4, <1>5, <1>6, SpecKeepsHand, ApplyKeepsHand, ListKeepsHand,
     RetireKeepsHand, LoadKeepsHand, SaveKeepsHand DEF Sync!Next, Sync!Step, Sync!SyncStep

\* A sync retires at most half of the jobs there are, whatever the other boots and the
\* operators do meanwhile: the two safety valves of registry.py, for any number of processes.
THEOREM SyncNeverGuts == AllSpec => []Sync!NoMassRetirement
<1>1. AllInit => SyncInv
  BY SyncInvInit DEF AllInit
<1>2. SyncInv /\ [AllNext]_AllVars => SyncInv'
  <2> SUFFICES ASSUME [AllNext]_AllVars PROVE [Sync!Next]_syncVars
    BY SyncInvStep
  <2> QED BY DEF AllNext, AllVars, syncVars
<1>3. SyncInv => Sync!NoMassRetirement
  BY DEF SyncInv, BootSane, There, Sync!NoMassRetirement, Sync!Cardinality, Cardinality
<1> QED BY <1>1, <1>2, <1>3, PTL DEF AllSpec

\* With one process at a time, whatever deploys, failed imports, edits and resets follow
\* each other: a job switched off by hand stays off, a cadence chosen by hand stays chosen,
\* and no sync retires more than half of the jobs.
THEOREM HandWorkSurvives ==
    ASSUME NEW p, Boots = {p}
    PROVE  AllSpec => []SyncIsSafe
<1>1. AllInit => SyncInv /\ HandInv
  BY SyncInvInit DEF AllInit
<1>2. SyncInv /\ HandInv /\ [AllNext]_AllVars => SyncInv' /\ HandInv'
  <2> SUFFICES ASSUME [AllNext]_AllVars PROVE [Sync!Next]_syncVars
    BY SyncInvStep, HandInvStep
  <2> QED BY DEF AllNext, AllVars, syncVars
<1>3. SyncInv /\ HandInv => SyncIsSafe
  BY DEF SyncInv, HandInv, HandSane, BootSane, There, SyncIsSafe, Sync!HandEditsKept,
         Sync!OffByHandStays, Sync!NoMassRetirement, Sync!Cardinality, Cardinality
<1> QED BY <1>1, <1>2, <1>3, PTL DEF AllSpec
=============================================================================
