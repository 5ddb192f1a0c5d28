--------------------------- MODULE SchedulerSync ---------------------------
(***************************************************************************)
(* apps/scheduler/registry.py: how the schedules declared in code and the  *)
(* rows operators edit are reconciled, over deploys and failed imports.    *)
(* Every booting process syncs with the registry its own release filled;   *)
(* operators pause, retune and reset at the same time.  Each SQL statement *)
(* is one action.  Only recurring schedules: `seeded' is next_run_at set.  *)
(***************************************************************************)
EXTENDS Naturals, FiniteSets

CONSTANTS
    Names,        \* names a @scheduled declaration may use
    CodeCadences, \* cadences the releases declare
    UICadences,   \* cadences an operator may choose
    MaxDeploys,   \* bound: releases after the first
    MaxBroken,    \* bound: boots whose autodiscovery fails for some specs
    MaxEdits,     \* bound: operator edits
    Procs         \* processes: boots and operator requests

VARIABLES
    release,  \* what the deployed code declares: names and their cadence
    job,      \* ScheduledJob by name
    proc,     \* program counter and locals of each process
    saidOff,  \* history: jobs an operator switched off
    byHand,   \* history: those of them that bore no marker then
    chosen,   \* history: the cadence an operator last chose, by name
    deploys, broken, edits

vars == <<release, job, proc, saidOff, byHand, chosen, deploys, broken, edits>>
history == <<saidOff, byHand, chosen>>
counts == <<deploys, broken, edits>>

Cadences == CodeCadences \cup UICadences
Row == [there : BOOLEAN, enabled : BOOLEAN, retired : BOOLEAN, overridden : BOOLEAN,
        cadence : Cadences, seeded : BOOLEAN]
Release == [names : SUBSET Names, cadence : CodeCadences]
Locals == [pc : {"idle", "specs", "apply", "retire", "form"}, reg : SUBSET Names,
           cadence : Cadences, todo : SUBSET Names, n : Names, row : Row]

AnyCode == CHOOSE c \in CodeCadences : TRUE
Absent == [there |-> FALSE, enabled |-> FALSE, retired |-> FALSE, overridden |-> FALSE,
           cadence |-> AnyCode, seeded |-> FALSE]

NewRow(c) == [there |-> TRUE, enabled |-> TRUE, retired |-> FALSE, overridden |-> FALSE,
              cadence |-> c, seeded |-> TRUE]
Idle == [pc |-> "idle", reg |-> {}, cadence |-> AnyCode, todo |-> {},
         n |-> CHOOSE n \in Names : TRUE, row |-> Absent]

\* An installed system: every declared schedule has its row.
Init ==
    /\ release \in [names : SUBSET Names \ {{}}, cadence : CodeCadences]
    /\ job = [n \in Names |-> IF n \in release.names THEN NewRow(release.cadence) ELSE Absent]
    /\ proc = [p \in Procs |-> Idle]
    /\ saidOff = {} /\ byHand = {} /\ chosen = [n \in Names |-> AnyCode]
    /\ deploys = 0 /\ broken = 0 /\ edits = 0

----------------------------------------------------------------------------
(* sync_code_jobs.                                                         *)

StartWith(p, reg) ==
    proc' = [proc EXCEPT ![p] = [Idle EXCEPT !.pc = "specs", !.reg = reg,
                                   !.cadence = release.cadence, !.todo = reg]]

\* A boot whose autodiscovery imported everything.
SyncStart(p) ==
    /\ proc[p] = Idle
    /\ StartWith(p, release.names)
    /\ UNCHANGED <<release, job, history, counts>>

\* A boot in which some tasks.py did not import.
SyncStartBroken(p, reg) ==
    /\ proc[p] = Idle /\ broken < MaxBroken /\ reg # release.names
    /\ broken' = broken + 1
    /\ StartWith(p, reg)
    /\ UNCHANGED <<release, job, history, deploys, edits>>

\* get_or_create: a new row is seeded by save(), an old one is read.
SyncSpec(p) ==
    /\ proc[p].pc = "specs"
    /\ \E n \in proc[p].todo :
         IF job[n].there
         THEN /\ proc' = [proc EXCEPT ![p].pc = "apply", ![p].n = n, ![p].row = job[n],
                                      ![p].todo = @ \ {n}]
              /\ UNCHANGED job
         ELSE /\ job' = [job EXCEPT ![n] = NewRow(proc[p].cadence)]
              /\ proc' = [proc EXCEPT ![p].todo = @ \ {n}]
    /\ UNCHANGED <<release, history, counts>>

\* Variant: the marker is not asked for; whatever is declared is switched on.
SyncApplyAll(p) ==
    LET row == proc[p].row  n == proc[p].n
    IN  /\ proc[p].pc = "apply"
        /\ job' = [job EXCEPT ![n].enabled = TRUE, ![n].retired = FALSE, ![n].seeded = TRUE]
        /\ proc' = [proc EXCEPT ![p].pc = "specs", ![p].row = Absent]
        /\ UNCHANGED <<release, history, counts>>

\* The columns that differ in this process's copy are written, no others; save()
\* adds the cursor if the stored cadence is not the copy's.
SyncApply(p) ==
    LET row == proc[p].row  n == proc[p].n
        back == row.retired
        retune == ~row.overridden /\ row.cadence # proc[p].cadence
        cadence == IF retune THEN proc[p].cadence ELSE row.cadence
        on == back \/ row.enabled
        changed == back \/ retune \/ (on /\ ~row.seeded)
        reseed == on /\ (retune \/ ~row.seeded \/ (changed /\ job[n].cadence # cadence))
    IN  /\ proc[p].pc = "apply"
        /\ job' = [job EXCEPT
             ![n].cadence = IF retune THEN proc[p].cadence ELSE @,
             ![n].enabled = IF back THEN TRUE ELSE @,
             ![n].retired = IF back THEN FALSE ELSE @,
             ![n].seeded = IF reseed THEN TRUE ELSE @]
        /\ proc' = [proc EXCEPT ![p].pc = "specs", ![p].row = Absent]
        /\ UNCHANGED <<release, history, counts>>

Orphans(p) == {n \in Names : job[n].there /\ job[n].enabled /\ n \notin proc[p].reg}

\* Variant: any shrink is believed.
RetirementIsPlausibleAlways(p) == TRUE

\* _retirement_is_plausible.
RetirementIsPlausible(p) ==
    2 * Cardinality(Orphans(p)) <= Cardinality(proc[p].reg) + Cardinality(Orphans(p))

\* The two safety valves, then the list of rows to retire.
ListOrphans(p) ==
    /\ proc[p].pc = "specs" /\ proc[p].todo = {}
    /\ proc' = [proc EXCEPT ![p] =
         IF proc[p].reg = {} \/ Orphans(p) = {} \/ ~RetirementIsPlausible(p) THEN Idle
         ELSE [Idle EXCEPT !.pc = "retire", !.reg = proc[p].reg, !.todo = Orphans(p)]]
    /\ UNCHANGED <<release, job, history, counts>>

\* Variant: the row is disabled without the marker.
RetireUnmarked(p) ==
    /\ proc[p].pc = "retire"
    /\ \E n \in proc[p].todo :
         /\ job' = [job EXCEPT ![n].enabled = FALSE, ![n].seeded = FALSE]
         /\ proc' = [proc EXCEPT ![p] = IF proc[p].todo = {n} THEN Idle
                                        ELSE [proc[p] EXCEPT !.todo = @ \ {n}]]
    /\ UNCHANGED <<release, history, counts>>

Retire(p) ==
    /\ proc[p].pc = "retire"
    /\ \E n \in proc[p].todo :
         /\ job' = [job EXCEPT ![n].enabled = FALSE, ![n].retired = TRUE, ![n].seeded = FALSE]
         /\ proc' = [proc EXCEPT ![p] = IF proc[p].todo = {n} THEN Idle
                                        ELSE [proc[p] EXCEPT !.todo = @ \ {n}]]
    /\ UNCHANGED <<release, history, counts>>

----------------------------------------------------------------------------
(* The operator: the edit form, and reset_schedule.                        *)

\* The request loads the row and lays the posted fields over it; auto_retired
\* is no field of the form.
EditLoad(p, n, enabled, cadence) ==
    /\ proc[p] = Idle /\ edits < MaxEdits /\ job[n].there
    /\ cadence \in UICadences \cup {job[n].cadence}
    /\ edits' = edits + 1
    /\ proc' = [proc EXCEPT ![p] = [Idle EXCEPT !.pc = "form", !.n = n,
                  !.row = [job[n] EXCEPT !.enabled = enabled, !.cadence = cadence]]]
    /\ UNCHANGED <<release, job, history, deploys, broken>>

\* ScheduledJobForm.save and ScheduledJob.save: a cadence unlike the stored one
\* becomes an override, the cursor is reseeded if need be, every column is written.
EditSave(p) ==
    LET n == proc[p].n  row == proc[p].row
        retune == row.cadence # job[n].cadence
    IN  /\ proc[p].pc = "form"
        /\ job' = [job EXCEPT ![n] =
             [row EXCEPT !.overridden = row.overridden \/ retune,
                         !.seeded = row.seeded \/ row.enabled]]
        /\ saidOff' = IF row.enabled THEN saidOff \ {n}
                      ELSE saidOff \cup {m \in {n} : job[n].enabled}
        /\ byHand' = IF row.enabled THEN byHand \ {n}
                     ELSE byHand \cup {m \in {n} : job[n].enabled /\ ~row.retired}
        /\ chosen' = IF retune THEN [chosen EXCEPT ![n] = row.cadence] ELSE chosen
        /\ proc' = [proc EXCEPT ![p] = Idle]
        /\ UNCHANGED <<release, counts>>

\* reset_schedule: clear the override, then sync.
Reset(p, n) ==
    /\ proc[p] = Idle /\ edits < MaxEdits /\ job[n].there /\ job[n].overridden
    /\ edits' = edits + 1
    /\ job' = [job EXCEPT ![n].overridden = FALSE]
    /\ StartWith(p, release.names)
    /\ UNCHANGED <<release, history, deploys, broken>>

----------------------------------------------------------------------------
(* The environment.                                                        *)

Deploy(rel) ==
    /\ deploys < MaxDeploys /\ rel # release
    /\ deploys' = deploys + 1
    /\ release' = rel
    /\ UNCHANGED <<job, proc, history, broken, edits>>

----------------------------------------------------------------------------
SyncStep(p) == SyncSpec(p) \/ SyncApply(p) \/ ListOrphans(p) \/ Retire(p)
Step(p) == SyncStep(p) \/ EditSave(p)

Next ==
    \/ \E p \in Procs :
         \/ SyncStart(p) \/ Step(p)
         \/ \E reg \in SUBSET release.names : SyncStartBroken(p, reg)
         \/ \E n \in Names, e \in BOOLEAN, c \in Cadences : EditLoad(p, n, e, c)
         \/ \E n \in Names : Reset(p, n)
    \/ \E rel \in Release : Deploy(rel)

Spec == Init /\ [][Next]_vars

\* Processes keep booting, and what they started they finish.
Fairness == \A p \in Procs : WF_vars(SyncStart(p)) /\ WF_vars(Step(p))

FairSpec == Spec /\ Fairness

----------------------------------------------------------------------------
(* Properties.                                                             *)

\* Every variable keeps its type.
TypeOK ==
    /\ release \in Release /\ job \in [Names -> Row]
    /\ proc \in [Procs -> Locals]
    /\ saidOff \in SUBSET Names /\ byHand \in SUBSET Names /\ chosen \in [Names -> Cadences]
    /\ deploys \in Nat /\ broken \in Nat /\ edits \in Nat

\* registry.py: an operator disabled it by hand, "no auto_retired marker, so it
\* stays off", over any deploys and failed imports.
OffByHandStays == \A n \in byHand : ~job[n].enabled

\* models.py, schedule_overridden: "Code sync keeps their value instead of
\* reverting to the @scheduled default".
OverrideKept ==
    \A n \in Names : job[n].overridden => job[n].cadence = chosen[n]

\* Together: what an operator did by hand survives every deploy and failed import.
HandEditsKept == OffByHandStays /\ OverrideKept

\* registry.py: "an empty registry retires nothing" and "a large single-sync
\* shrink retires nothing".  The rows one sync is about to retire are at most
\* half of the code jobs there are.
NoMassRetirement ==
    \A p \in Procs : proc[p].pc = "retire" =>
        2 * Cardinality(proc[p].todo) <= Cardinality({n \in Names : job[n].there})

\* registry.py, "Spec came back": once its spec is declared for good, a job is
\* switched on for good, unless an operator switched it off.
SpecReturns ==
    \A n \in Names :
        <>[](n \in release.names)
            => <>[](job[n].there /\ (job[n].enabled \/ n \in saidOff))
=============================================================================
