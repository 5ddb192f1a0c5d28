----------------------------- MODULE Scheduler -----------------------------
(***************************************************************************)
(* apps/scheduler: ticks that fire the due jobs and fold outcomes back     *)
(* into the run history, Run-now, and the operator's edit form.  The three *)
(* triggers (cron POST, run_due_tasks, scheduler_beat) run the same tick   *)
(* and may overlap; no request is wrapped in a transaction, so each SQL    *)
(* statement is one action.  A task is the engine's row of a run followed  *)
(* through its retries (TaskReliability): live until its chain settles.    *)
(***************************************************************************)
EXTENDS ScheduleMath, FiniteSets

CONSTANTS
    Jobs,
    MaxTime,      \* bound: the clock
    MaxFaults,    \* bound: killed processes and failed statements
    ErrorsAt,     \* the steps whose SQL statement may fail
    MaxManual,    \* bound: Run-now requests
    MaxEdits,     \* bound: edits of a job
    StaleAfter,   \* SMALLSTACK_SCHEDULER_STALE_RUN_SECONDS
    Cadences,     \* the schedules a job may have
    AllowOverlap, \* jobs with allow_overlap
    SkipMissed,   \* jobs with catch_up = skip
    Unresolvable, \* jobs whose task_path no longer resolves
    Unevaluable,  \* jobs whose cadence, seeded earlier, no longer evaluates
    Ticks,        \* processes that run a tick
    Operators,    \* processes that serve a staff member's request
    NoJob, NoRow  \* a process without a job in hand

ASSUME JobsAssumption ==
    /\ IsFiniteSet(Jobs) /\ AllowOverlap \subseteq Jobs
    /\ SkipMissed \subseteq Jobs /\ Unresolvable \subseteq Jobs
    /\ Unevaluable \subseteq Jobs
ASSUME BoundsAssumption ==
    /\ MaxTime \in Nat /\ MaxFaults \in Nat /\ MaxManual \in Nat
    /\ MaxEdits \in Nat /\ StaleAfter \in Nat
    /\ ErrorsAt \subseteq {"guard", "skip", "enqueue", "record", "bump", "fail", "mark", "die"}
ASSUME ProcsAssumption == Ticks \cap Operators = {} /\ NoJob \notin Jobs

VARIABLES
    now,      \* timezone.now()
    job,      \* ScheduledJob
    run,      \* ScheduledJobRun, oldest first: the index orders created_at
    task,     \* the engine's tasks, in order of enqueueing
    proc,     \* program counter and locals of each process
    claimed,  \* history: job, due time and tick time of every claim won
    faults, manual, edits

vars == <<now, job, run, task, proc, claimed, faults, manual, edits>>
store == <<now, job, run, task>>
counts == <<faults, manual, edits>>

NoTask == 0
Procs == Ticks \cup Operators
Times == Nat \cup {NoTime}
Row == [enabled : BOOLEAN, next : Times, cadence : Cadences, total : Nat,
        last : {"blank", "queued", "success", "failed", "invalid"}]
Runs == [job : Jobs, status : {"queued", "skipped", "success", "failed"}, for : Times,
         at : Nat, task : Nat, manual : BOOLEAN, mails : Nat]
Tasks == [job : Jobs, for : Times, status : {"live", "SUCCESSFUL", "FAILED"},
          manual : BOOLEAN]
Locals == [pc : {"idle", "loop", "guard", "skip", "enqueue", "record", "bump", "fail",
                 "mark", "form", "promote", "latest", "reflect", "mail", "dead"},
           now : Nat, todo : SUBSET (Jobs \X Row), j : Jobs \cup {NoJob},
           row : Row \cup {NoRow}, task : Nat,
           invalid : BOOLEAN, queued : SUBSET Nat, r : Nat]

\* A job is due at most once at each instant.
RunIds == 1..(Cardinality(Jobs) * (MaxTime + 1) + MaxManual)

Idle == [pc |-> "idle", now |-> 0, todo |-> {}, j |-> NoJob, row |-> NoRow,
         task |-> NoTask, invalid |-> FALSE, queued |-> {}, r |-> 0]

\* Jobs as save() leaves them: enabled, with the cursor seeded.
Start ==
    /\ now = 0
    /\ job \in [Jobs -> {[enabled |-> TRUE, next |-> NextRun(c, 0), cadence |-> c,
                          total |-> 0, last |-> "blank"] : c \in Cadences}]
    /\ run = <<>> /\ task = <<>>
    /\ proc = [p \in Procs |-> Idle]
    /\ claimed = {}

Init == Start /\ faults = 0 /\ manual = 0 /\ edits = 0

\* compute_next_run as this release evaluates it.
ComputeNext(j, cadence, after) ==
    IF j \in Unevaluable THEN BadConfig ELSE NextRun(cadence, after)

Goto(p, pc) == proc' = [proc EXCEPT ![p].pc = pc]
IsManual(p) == p \in Operators

\* Back to the tick's loop with no job in hand; a request is over.
Done(p) ==
    IF IsManual(p) THEN Idle
    ELSE [Idle EXCEPT !.pc = "loop", !.now = proc[p].now, !.todo = proc[p].todo]

----------------------------------------------------------------------------
(* run_due_jobs and _process_job_body.                                     *)

Due(j) == job[j].enabled /\ job[j].next # NoTime /\ job[j].next <= now

\* Variant: the filter is next_run_at__lt.
TickStartStrict(p) ==
    /\ proc[p] = Idle
    /\ proc' = [proc EXCEPT ![p] = [Idle EXCEPT !.pc = "loop", !.now = now,
                  !.todo = {<<j, job[j]>> : j \in {i \in Jobs : Due(i) /\ job[i].next < now}}]]
    /\ UNCHANGED <<store, claimed, counts>>

\* The query of run_due_jobs; the rows are this tick's copies from here on.
TickStart(p) ==
    /\ proc[p] = Idle
    /\ proc' = [proc EXCEPT ![p] = [Idle EXCEPT !.pc = "loop", !.now = now,
                                      !.todo = {<<j, job[j]>> : j \in {i \in Jobs : Due(i)}}]]
    /\ UNCHANGED <<store, claimed, counts>>

\* Variant: the cursor is moved without asking where it is.
ClaimBlind(p) ==
    /\ proc[p].pc = "loop"
    /\ \E t \in proc[p].todo :
         LET j == t[1]  row == t[2]  rest == proc[p].todo \ {t}
         IN /\ job' = [job EXCEPT ![j].next = NextRun(row.cadence, proc[p].now)]
            /\ claimed' = claimed \cup {[job |-> j, for |-> row.next, now |-> proc[p].now]}
            /\ proc' = [proc EXCEPT ![p].pc = "guard", ![p].todo = rest,
                                    ![p].j = j, ![p].row = row]
    /\ UNCHANGED <<now, run, task, counts>>

\* Variant: the cursor moves one period on from the due time, not past now.
ClaimBackfill(p) ==
    /\ proc[p].pc = "loop"
    /\ \E t \in proc[p].todo :
         LET j == t[1]  row == t[2]  rest == proc[p].todo \ {t}
             new == NextRun(row.cadence, row.next)
         IN IF job[j].next = row.next
            THEN /\ job' = [job EXCEPT ![j].next = new]
                 /\ claimed' = claimed \cup {[job |-> j, for |-> row.next, now |-> proc[p].now]}
                 /\ proc' = [proc EXCEPT ![p].pc = "guard", ![p].todo = rest,
                                         ![p].j = j, ![p].row = row]
            ELSE /\ proc' = [proc EXCEPT ![p].todo = rest]
                 /\ UNCHANGED <<job, claimed>>
    /\ UNCHANGED <<now, run, task, counts>>

\* The next due job: an invalid cadence disables it, else the claim, one
\* conditional UPDATE on the due time this tick has seen.
Claim(p) ==
    /\ proc[p].pc = "loop"
    /\ \E t \in proc[p].todo :
         LET j == t[1]  row == t[2]  rest == proc[p].todo \ {t}
             new == ComputeNext(j, row.cadence, proc[p].now)
         IN \/ /\ new = BadConfig
               /\ job' = [job EXCEPT ![j].enabled = FALSE, ![j].last = "invalid"]
               /\ proc' = [proc EXCEPT ![p].todo = rest]
               /\ UNCHANGED claimed
            \/ /\ new # BadConfig /\ job[j].next # row.next
               /\ proc' = [proc EXCEPT ![p].todo = rest]
               /\ UNCHANGED <<job, claimed>>
            \/ /\ new # BadConfig /\ job[j].next = row.next
               /\ job' = [job EXCEPT ![j].next = new]
               /\ claimed' = claimed \cup {[job |-> j, for |-> row.next, now |-> proc[p].now]}
               /\ proc' = [proc EXCEPT ![p].pc = "guard", ![p].todo = rest,
                                       ![p].j = j, ![p].row = row]
    /\ UNCHANGED <<now, run, task, counts>>

QueuedRuns(j) ==
    {r \in 1..Len(run) : run[r].job = j /\ run[r].status = "queued" /\ run[r].task # NoTask}
Newest(S) == CHOOSE r \in S : \A s \in S : s <= r

\* _previous_run_active: the newest run that still reads queued.
PreviousRunActive(j, t) ==
    LET last == run[Newest(QueuedRuns(j))]
    IN  /\ QueuedRuns(j) # {}
        /\ last.at >= t - StaleAfter
        /\ task[last.task].status = "live"

\* The overlap guard and the catch-up policy.
Guard(p) ==
    LET j == proc[p].j
        skip == \/ j \notin AllowOverlap /\ PreviousRunActive(j, proc[p].now)
                \/ /\ j \in SkipMissed
                   /\ MissedPeriods(proc[p].row.cadence, proc[p].row.next, proc[p].now) >= 1
    IN  /\ proc[p].pc = "guard"
        /\ Goto(p, IF skip THEN "skip" ELSE "enqueue")
        /\ UNCHANGED <<store, claimed, counts>>

\* _record: the due time of a tick's run, the present for Run-now.
NewRun(p, status, t) ==
    run' = Append(run, [job |-> proc[p].j, status |-> status, for |-> proc[p].row.next,
                        at |-> now, task |-> t, manual |-> IsManual(p), mails |-> 0])

RecordSkip(p) ==
    /\ proc[p].pc = "skip"
    /\ NewRun(p, "skipped", NoTask)
    /\ proc' = [proc EXCEPT ![p] = Done(p)]
    /\ UNCHANGED <<now, job, task, claimed, counts>>

----------------------------------------------------------------------------
(* enqueue_and_record, for a tick and for Run-now.                         *)

\* _enqueue and pin_max_attempts, in one transaction.
Enqueue(p) ==
    /\ proc[p].pc = "enqueue" /\ proc[p].j \notin Unresolvable
    /\ task' = Append(task, [job |-> proc[p].j, for |-> proc[p].row.next,
                             status |-> "live", manual |-> IsManual(p)])
    /\ proc' = [proc EXCEPT ![p].pc = "record", ![p].task = Len(task')]
    /\ UNCHANGED <<now, job, run, claimed, counts>>

\* _resolve_task raises ImportError, AttributeError or ValueError.
EnqueueUnresolvable(p) ==
    /\ proc[p].pc = "enqueue" /\ proc[p].j \in Unresolvable
    /\ proc' = [proc EXCEPT ![p] = IF IsManual(p) THEN Idle
                                   ELSE [proc[p] EXCEPT !.pc = "fail", !.invalid = TRUE]]
    /\ UNCHANGED <<store, claimed, counts>>

RecordQueued(p) ==
    /\ proc[p].pc = "record"
    /\ NewRun(p, "queued", proc[p].task)
    /\ Goto(p, "bump")
    /\ UNCHANGED <<now, job, task, claimed, counts>>

\* The bookkeeping UPDATE; total_runs is F() + 1.
Bump(p) ==
    /\ proc[p].pc = "bump"
    /\ job' = [job EXCEPT ![proc[p].j].last = "queued", ![proc[p].j].total = @ + 1]
    /\ proc' = [proc EXCEPT ![p] = Done(p)]
    /\ UNCHANGED <<now, run, task, claimed, counts>>

\* Variant: the handler logs and drops the fire.
RecordFailureSilent(p) ==
    /\ proc[p].pc = "fail"
    /\ Goto(p, "mark")
    /\ UNCHANGED <<store, claimed, counts>>

\* The handlers of _process_job_body: a FAILED run, then the job's row.
RecordFailure(p) ==
    /\ proc[p].pc = "fail"
    /\ NewRun(p, "failed", NoTask)
    /\ Goto(p, "mark")
    /\ UNCHANGED <<now, job, task, claimed, counts>>

MarkFailure(p) ==
    /\ proc[p].pc = "mark"
    /\ job' = IF proc[p].invalid
              THEN [job EXCEPT ![proc[p].j].enabled = FALSE, ![proc[p].j].last = "invalid"]
              ELSE [job EXCEPT ![proc[p].j].last = "failed"]
    /\ proc' = [proc EXCEPT ![p] = Done(p)]
    /\ UNCHANGED <<now, run, task, claimed, counts>>

\* A statement raises.  From the enqueue to the bookkeeping the handlers of
\* _process_job_body act; elsewhere run_due_jobs' own handler moves on to the
\* next job; Run-now shows the message to the operator.
StatementFails(p) ==
    /\ faults < MaxFaults /\ faults' = faults + 1
    /\ proc[p].pc \in ErrorsAt
    /\ proc' = [proc EXCEPT ![p] = IF ~IsManual(p) /\ proc[p].pc \in {"enqueue", "record", "bump"}
                                   THEN [proc[p] EXCEPT !.pc = "fail"] ELSE Done(p)]
    /\ UNCHANGED <<store, claimed, manual, edits>>

\* run_now: whether or not the job is enabled.
RunNow(p, j) ==
    /\ proc[p] = Idle /\ manual < MaxManual
    /\ manual' = manual + 1
    /\ proc' = [proc EXCEPT ![p] = [Idle EXCEPT !.pc = "enqueue", !.j = j,
                                      !.row = [job[j] EXCEPT !.next = now]]]
    /\ UNCHANGED <<store, claimed, faults, edits>>

----------------------------------------------------------------------------
(* reconcile_run_outcomes, after the loop of the same tick.                *)

ListQueued(p) ==
    /\ proc[p].pc = "loop" /\ proc[p].todo = {}
    /\ proc' = [proc EXCEPT ![p] = [Idle EXCEPT !.pc = "promote",
                  !.queued = {r \in 1..Len(run) : run[r].status = "queued"
                                                  /\ run[r].task # NoTask}]]
    /\ UNCHANGED <<store, claimed, counts>>

ReconcileDone(p) ==
    /\ proc[p].pc = "promote" /\ proc[p].queued = {}
    /\ proc' = [proc EXCEPT ![p] = Idle]
    /\ UNCHANGED <<store, claimed, counts>>

Terminal == [SUCCESSFUL |-> "success", FAILED |-> "failed"]

\* The engine's answer, and run.save: the newest run first.
Promote(p) ==
    LET r == Newest(proc[p].queued)
        st == task[run[r].task].status
    IN  /\ proc[p].pc = "promote" /\ proc[p].queued # {}
        /\ IF st \in DOMAIN Terminal
           THEN /\ run' = [run EXCEPT ![r].status = Terminal[st]]
                /\ proc' = [proc EXCEPT ![p].pc = "latest", ![p].r = r,
                                        ![p].queued = @ \ {r}]
           ELSE /\ proc' = [proc EXCEPT ![p].queued = @ \ {r}]
                /\ UNCHANGED run
        /\ UNCHANGED <<now, job, task, claimed, counts>>

IsLatest(r) == \A s \in (r + 1)..Len(run) : run[s].job # run[r].job
AfterReflect(p) == IF run[proc[p].r].status = "failed" THEN "mail" ELSE "promote"

\* Variant: the outcome is always reflected.
CheckLatestAlways(p) ==
    /\ proc[p].pc = "latest"
    /\ Goto(p, "reflect")
    /\ UNCHANGED <<store, claimed, counts>>

\* Variant: only the newest run's failure is mailed.
CheckLatestQuiet(p) ==
    /\ proc[p].pc = "latest"
    /\ Goto(p, IF IsLatest(proc[p].r) THEN "reflect" ELSE "promote")
    /\ UNCHANGED <<store, claimed, counts>>

CheckLatest(p) ==
    /\ proc[p].pc = "latest"
    /\ Goto(p, IF IsLatest(proc[p].r) THEN "reflect" ELSE AfterReflect(p))
    /\ UNCHANGED <<store, claimed, counts>>

Reflect(p) ==
    LET r == proc[p].r
    IN  /\ proc[p].pc = "reflect"
        /\ job' = [job EXCEPT ![run[r].job].last = run[r].status]
        /\ Goto(p, AfterReflect(p))
        /\ UNCHANGED <<now, run, task, claimed, counts>>

\* _notify_failure.
MailFailure(p) ==
    /\ proc[p].pc = "mail"
    /\ run' = [run EXCEPT ![proc[p].r].mails = @ + 1]
    /\ Goto(p, "promote")
    /\ UNCHANGED <<now, job, task, claimed, counts>>

----------------------------------------------------------------------------
(* The edit form, over the web, REST and MCP.                              *)

\* The request loads the row and lays the posted fields over it.
EditLoad(p, j, enabled, cadence) ==
    /\ proc[p] = Idle /\ edits < MaxEdits
    /\ edits' = edits + 1
    /\ proc' = [proc EXCEPT ![p] = [Idle EXCEPT !.pc = "form", !.j = j,
                  !.row = [job[j] EXCEPT !.enabled = enabled, !.cadence = cadence]]]
    /\ UNCHANGED <<store, claimed, faults, manual>>

\* ScheduledJob.save: reseed the cursor if need be, then write every column.
EditSave(p) ==
    LET j == proc[p].j  row == proc[p].row
        reseed == row.enabled /\ (row.next = NoTime \/ job[j].cadence # row.cadence)
        new == ComputeNext(j, row.cadence, now)
        next == IF new = BadConfig THEN NoTime ELSE new
    IN  /\ proc[p].pc = "form"
        /\ job' = [job EXCEPT ![j] = [row EXCEPT !.next = IF reseed THEN next ELSE row.next]]
        /\ proc' = [proc EXCEPT ![p] = Idle]
        /\ UNCHANGED <<now, run, task, claimed, counts>>

----------------------------------------------------------------------------
(* The environment.                                                        *)

Tock ==
    /\ now < MaxTime /\ now' = now + 1
    /\ UNCHANGED <<job, run, task, proc, claimed, counts>>

\* The engine settles a task, after its retries.
TaskEnds(t) ==
    /\ task[t].status = "live"
    /\ \E st \in {"SUCCESSFUL", "FAILED"} : task' = [task EXCEPT ![t].status = st]
    /\ UNCHANGED <<now, job, run, proc, claimed, counts>>

\* A process is killed; later ticks are other processes.
Die(p) ==
    /\ "die" \in ErrorsAt
    /\ proc[p].pc \notin {"idle", "dead"} /\ faults < MaxFaults
    /\ faults' = faults + 1
    /\ proc' = [proc EXCEPT ![p].pc = "dead"]
    /\ UNCHANGED <<store, claimed, manual, edits>>

----------------------------------------------------------------------------
FireStep(p) ==
    \/ Enqueue(p) \/ EnqueueUnresolvable(p) \/ RecordQueued(p) \/ Bump(p)
    \/ RecordFailure(p) \/ MarkFailure(p)

TickStep(p) ==
    \/ Claim(p) \/ Guard(p) \/ RecordSkip(p) \/ FireStep(p)
    \/ ListQueued(p) \/ ReconcileDone(p) \/ Promote(p) \/ CheckLatest(p)
    \/ Reflect(p) \/ MailFailure(p)

OperatorStep(p) == FireStep(p) \/ EditSave(p)

Next ==
    \/ \E p \in Ticks : TickStart(p) \/ TickStep(p)
    \/ \E p \in Operators :
         \/ OperatorStep(p)
         \/ \E j \in Jobs : RunNow(p, j)
         \/ \E j \in Jobs, e \in BOOLEAN, c \in Cadences : EditLoad(p, j, e, c)
    \/ \E p \in Procs : StatementFails(p) \/ Die(p)
    \/ \E t \in 1..Len(task) : TaskEnds(t)
    \/ Tock

Spec == Init /\ [][Next]_vars

\* Ticks keep coming and, once started, run to their end; so do requests; the
\* engine settles every task (TaskReliability, under its own fairness).
Fairness ==
    /\ \A p \in Ticks : WF_vars(TickStart(p)) /\ WF_vars(TickStep(p))
    /\ \A p \in Operators : WF_vars(OperatorStep(p))
    /\ \A t \in RunIds : WF_vars(t <= Len(task) /\ TaskEnds(t))

FairSpec == Spec /\ Fairness

----------------------------------------------------------------------------
(* Properties.                                                             *)

\* Every variable keeps its type.
TypeOK ==
    /\ now \in Nat /\ job \in [Jobs -> Row]
    /\ run \in Seq(Runs) /\ task \in Seq(Tasks)
    /\ proc \in [Procs -> Locals]
    /\ claimed \in SUBSET [job : Jobs, for : Times, now : Nat]
    /\ faults \in Nat /\ manual \in Nat /\ edits \in Nat

\* services.py: "two concurrent ticks can never double-fire the same schedule".
\* For each due time of a job, ticks enqueue at most one task.
FiresOnce ==
    \A s, t \in 1..Len(task) :
        /\ ~task[s].manual /\ ~task[t].manual
        /\ task[s].job = task[t].job /\ task[s].for = task[t].for
        => s = t

\* docs/skills/scheduler.md: "Neither backfills".  Of two fires of a job, the
\* later one was not yet due when a tick claimed the earlier one.
NoBackfill ==
    \A c, d \in claimed : c.job = d.job /\ c.for < d.for => c.now < d.for

InHand(j, for) ==
    \E p \in Ticks : proc[p].j = j /\ proc[p].row.next = for

\* services.py: the claim has moved next_run_at, "so without a FAILED run +
\* last_status this fire is lost".  Every fire that was claimed and is not in
\* hand (or was in the hands of a process that died) has its row in the run history.
FireLeavesTrace ==
    \A c \in claimed : InHand(c.job, c.for) \/
        \E r \in 1..Len(run) : run[r].job = c.job /\ run[r].for = c.for

\* models.py, ScheduledJobRun: "Append-only record of one tick's decision for a
\* job."  A fire has one row.
OneRowPerFire ==
    \A r, s \in 1..Len(run) :
        /\ ~run[r].manual /\ ~run[s].manual
        /\ run[r].job = run[s].job /\ run[r].for = run[s].for
        => r = s

\* Both together, for every fire and whatever fails after its claim.
OneTracePerFire == FireLeavesTrace /\ OneRowPerFire

\* reconcile_run_outcomes: "a straggling older run can't overwrite a newer run's
\* state".  A tick writes an outcome to the job only while its run is the newest.
OutcomeOfNewest ==
    [][\A p \in Ticks : proc[p].pc = "reflect" /\ proc'[p] # proc[p]
                         => IsLatest(proc[p].r)]_vars

\* An enabled job that is due is dealt with: its cursor moves past the time it
\* was due at, or the job is disabled.
DueIsProcessed == \A j \in Jobs : Due(j) ~> ~Due(j)

\* Every run that was enqueued comes to read success, or failed with its failure
\* mailed (docs/skills/scheduler.md: failure mails go out for failed runs).
RunsSettle ==
    \A r \in RunIds :
        (r <= Len(run) /\ run[r].status = "queued")
            ~> (r <= Len(run) /\ (\/ run[r].status = "success"
                                  \/ run[r].status = "failed" /\ run[r].mails > 0))

----------------------------------------------------------------------------
(* The inductive invariant behind FiresOnce, NoBackfill and                *)
(* OneTracePerFire: a fire that was claimed lies behind its job's cursor,  *)
(* so nobody can claim it again, and one process has it in hand.           *)

\* The steps at which a tick has a fire in hand; those before it has a task, and a row.
Working == {"guard", "skip", "enqueue", "record", "bump", "fail", "mark"}
Unfired == {"guard", "enqueue"}
Untraced == {"guard", "skip", "enqueue", "record", "fail"}

Claims(j, for) == {c \in claimed : c.job = j /\ c.for = for}
TasksOf(j, for) ==
    {t \in 1..Len(task) : ~task[t].manual /\ task[t].job = j /\ task[t].for = for}
RunsOf(j, for) ==
    {r \in 1..Len(run) : ~run[r].manual /\ run[r].job = j /\ run[r].for = for}
Hand(p) == <<proc[p].j, proc[p].row.next>>

\* What a process carries is what its next statement needs.
LocalSane(p) ==
    /\ proc[p].pc \in Working \cup {"form"} => proc[p].j \in Jobs /\ proc[p].row \in Row
    /\ proc[p].queued \subseteq 1..Len(run)
    /\ proc[p].pc \in {"latest", "reflect", "mail"} =>
          proc[p].r \in 1..Len(run) /\ run[proc[p].r].status \in {"success", "failed"}

Typed == TypeOK /\ \A p \in Procs : LocalSane(p)

\* A claimed fire was due, and the cursor has left it behind.
CursorAhead ==
    \A c \in claimed :
        /\ c.for \in Nat /\ c.for <= c.now
        /\ job[c.job].next = NoTime \/ c.now < job[c.job].next

\* The rows a tick has listed were due at its time.
ListsDue ==
    \A p \in Ticks : \A t \in proc[p].todo : t[2].next \in Nat /\ t[2].next <= proc[p].now

HandsClaimed ==
    /\ \A p \in Ticks : proc[p].pc \in Working => Claims(proc[p].j, proc[p].row.next) # {}
    /\ \A p, q \in Ticks :
          proc[p].pc \in Working /\ proc[q].pc \in Working /\ Hand(p) = Hand(q) => p = q

TasksClaimed ==
    /\ \A t \in 1..Len(task) : ~task[t].manual => Claims(task[t].job, task[t].for) # {}
    /\ \A p \in Ticks : proc[p].pc \in Unfired => TasksOf(proc[p].j, proc[p].row.next) = {}

FireInv ==
    CursorAhead /\ NoBackfill /\ ListsDue /\ HandsClaimed /\ TasksClaimed /\ FiresOnce

\* A tick leaves a fire only once its row is written.
TraceInv ==
    /\ \A p \in Ticks :
          /\ proc[p].pc \in Untraced => RunsOf(proc[p].j, proc[p].row.next) = {}
          /\ proc[p].pc \in {"bump", "mark"} => RunsOf(proc[p].j, proc[p].row.next) # {}
          /\ proc[p].pc \notin Working \cup {"dead"} => proc[p].j = NoJob
    /\ \A r \in 1..Len(run) : ~run[r].manual => Claims(run[r].job, run[r].for) # {}
    /\ OneTracePerFire

=============================================================================
