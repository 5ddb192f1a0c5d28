------------------------------ MODULE MCSweeps ------------------------------
(***************************************************************************)
(* The two recurring sweeps that must eventually put things right, side by *)
(* side: the expiry sweep of approvals and the sync of code-declared       *)
(* schedules at every boot.  A behaviour belongs to one of them; the other *)
(* rests in an initial state, and only the one at work is owed fairness.   *)
(***************************************************************************)
EXTENDS Approvals

CONSTANTS
    web1,                     \* ann, who is staff, files; bob is staff; dan may be an assignee
    JobNames,                 \* names a @scheduled declaration may use
    CodeCadences, UICadences, \* what the releases declare, what an operator may choose
    MaxDeploys, MaxBroken, MaxEdits, \* bounds: releases, failed imports, operator edits
    Boots                     \* processes that boot and sync, or serve the operator

ASSUME JobsAssumption == IsFiniteSet(JobNames) /\ JobNames # {} /\ CodeCadences # {}

VARIABLES part,
          release, job, boot, saidOff, byHand, chosen, deploys, broken, edits

\* Boots, failed imports, edits and resets of a few schedules.
Sync == INSTANCE SchedulerSync WITH Names <- JobNames, Procs <- Boots, proc <- boot

syncVars == <<release, job, boot, saidOff, byHand, chosen, deploys, broken, edits>>

ToNobodyOrDan == {{}, {"dan"}}

AllInit ==
    /\ part \in {"approvals", "sync"}
    /\ Init /\ (part = "sync" => \A i \in Ids : req[i].requester = "ann")
    /\ Sync!Init /\ (part = "approvals" => release.names = {CHOOSE n \in JobNames : TRUE})

AllNext ==
    /\ UNCHANGED part
    /\ \/ part = "approvals" /\ Next /\ UNCHANGED syncVars
       \/ part = "sync" /\ Sync!Next /\ UNCHANGED vars

ApprovalsTurn(A) == part = "approvals" /\ A /\ UNCHANGED <<part, syncVars>>
SyncTurn(A) == part = "sync" /\ A /\ UNCHANGED <<part, vars>>

AllVars == <<part, vars, syncVars>>

\* The fairness of the two components: a request or boot that started goes on, the expiry
\* sweep and the boots keep coming.
AllFairness ==
    /\ \A p \in Procs : WF_AllVars(ApprovalsTurn(ProcStep(p)))
    /\ WF_AllVars(ApprovalsTurn(StartExpiry(Sweeper, Overdue)))
    /\ \A b \in Boots : /\ WF_AllVars(SyncTurn(Sync!SyncStart(b)))
                       /\ WF_AllVars(SyncTurn(Sync!Step(b)))

AllSpec == AllInit /\ [][AllNext]_AllVars /\ AllFairness

\* SchedulerSync: what an operator did by hand survives deploys and failed imports, and no
\* sync is about to retire more than half of the code jobs.
SyncIsSafe == Sync!HandEditsKept /\ Sync!NoMassRetirement
\* SchedulerSync: a spec declared for good has its job switched on for good, unless an
\* operator switched it off.
SpecReturns == part = "sync" => Sync!SpecReturns
=============================================================================
