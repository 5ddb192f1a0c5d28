-------------------------- MODULE TaskReliability --------------------------
(***************************************************************************)
(* apps/tasks: worker heartbeats, the lost-task reaper and the retry layer *)
(* that SmallStack puts around django-tasks-db.                            *)
(*                                                                         *)
(* The database rows are shared state; every SQL statement (or atomic      *)
(* block) the code issues is one action.  A worker process has two         *)
(* threads: "main" runs upstream's loop and, after each task, the          *)
(* task_finished receiver; "beat" writes the heartbeat and runs the        *)
(* reaper.  Wall-clock thresholds are flags that time may raise: a         *)
(* heartbeat turns "stale", a row or an attempt turns `aged'.              *)
(***************************************************************************)
EXTENDS Naturals, FiniteSets

CONSTANTS
    MaxRows,     \* bound: how many DBTaskResult rows may ever be enqueued
    MaxRoots,    \* bound: how many of them are first attempts
    MaxAged,     \* bound: how many failed rows may leave REPAIR_WINDOW
    MaxFaults,   \* bound: how many things may go wrong (see Fault)
    AttemptsAge, \* may a retry outlive LATE_COMPLETION_WINDOW?
    Workers,     \* process incarnations (new_incarnation never repeats one)
    Steady,      \* workers that never fail, for the liveness properties
    NoWorker,    \* worker_ids = [] on a row nobody has claimed
    Paths,       \* task paths
    Policy,      \* the RetryPolicy policy_for() returns for each path
    Pins,        \* max_attempts an enqueuer may pin; 0 is "not pinned"
    Outcomes     \* how a task body may end; "none" is success

Ids == 1..MaxRows
NoId == 0
Excs == {"none", "error", "fatal", "interrupt", "lost", "superseded"}
Causes == {"first", "failed", "lost", "interrupted"}
Policies == [declared : BOOLEAN, attempts : Nat \ {0},
             retryLost : BOOLEAN, retryOn : SUBSET Excs]

ASSUME BoundsAssumption ==
    /\ MaxRows \in Nat /\ MaxRoots \in Nat /\ MaxAged \in Nat /\ MaxFaults \in Nat
    /\ AttemptsAge \in BOOLEAN
ASSUME WorkersAssumption == NoWorker \notin Workers /\ Steady \subseteq Workers
ASSUME PathsAssumption == Paths # {}
ASSUME PolicyAssumption == Policy \in [Paths -> Policies]
\* Every pinned budget allows the first run: the scheduler pins max_retries + 1.
ASSUME PinsAssumption == Pins \subseteq Nat
ASSUME OutcomesAssumption == Outcomes \subseteq {"none", "error", "fatal", "interrupt"}

VARIABLES
    row,     \* DBTaskResult: status, exception class, worker_ids[-1], task_path
    att,     \* TaskAttempt; an id without a row reads as attempt 1 of itself
    live,    \* what each worker process is doing
    hb,      \* WorkerHeartbeat, as the reaper judges it
    missed,  \* missed_beats >= MAX_MISSED_BEATS_BEFORE_YIELDING
    thr,     \* the program counter and locals of each thread
    faults   \* crashes, exits, pauses, lost beats and database errors so far

vars == <<row, att, live, hb, missed, thr, faults>>

Threads == Workers \X {"main", "beat"}
Main(w) == <<w, "main">>
BeatThread(w) == <<w, "beat">>

Rows == [status : {"none", "READY", "RUNNING", "FAILED", "SUCCESSFUL"},
         exc : Excs, by : Workers \cup {NoWorker}, path : Paths, aged : BOOLEAN]
Attempts == [root : Ids, parent : Ids \cup {NoId}, attempt : Nat, cause : Causes,
             pin : Nat, marked : BOOLEAN, cancelled : BOOLEAN, aged : BOOLEAN]
Phases == {"recv", "reap", "repair", "detect"}
Pcs == {"off", "idle", "boot", "run", "next", "late", "cancel", "flag", "read", "insert"}
Locals == [pc : Pcs, phase : Phases, job : Ids \cup {NoId},
           todo : SUBSET Ids, cause : Causes]

Off == [pc |-> "off", phase |-> "recv", job |-> NoId, todo |-> {}, cause |-> "first"]
Idle == [Off EXCEPT !.pc = "idle"]

----------------------------------------------------------------------------
(* Reading the tables.                                                     *)

Used(t) == row[t].status # "none"
Terminal(t) == row[t].status \in {"FAILED", "SUCCESSFUL"}
ChildrenOf(t) == {c \in Ids : att[c].parent = t}
HasChild(t) == ChildrenOf(t) # {}
Started(t) == row[t].by # NoWorker

\* The worker itself reported an outcome: the row carries no verdict of the
\* reaper and no cancellation.
Reported(t) == Terminal(t) /\ row[t].exc \notin {"lost", "superseded"}

Pinned(t) == att[t].pin # 0

\* policy_for, with IMPLICIT_PINNED_POLICY for a pinned chain of an
\* undecorated task.
RetriesLost(t) ==
    LET p == Policy[row[t].path]
    IN  p.retryLost /\ (Pinned(t) => p.declared)

Budget(t) == IF Pinned(t) THEN att[t].pin ELSE Policy[row[t].path].attempts

Classify(t, cause) ==
    CASE row[t].exc = "lost"      -> "lost"
      [] row[t].exc = "interrupt" -> "interrupted"
      [] OTHER                    -> cause

Bookkeeping == {"superseded"}

\* Variant: off by one, max_attempts taken as the number of retries.
DecideOneMore(t, cause) ==
    /\ row[t].status = "FAILED"
    /\ row[t].exc \notin Bookkeeping
    /\ att[t].attempt <= Budget(t)
    /\ IF Classify(t, cause) \in {"lost", "interrupted"}
       THEN RetriesLost(t)
       ELSE row[t].exc \in Policy[row[t].path].retryOn

\* _decide: does FAILED row t get another attempt?
Decide(t, cause) ==
    /\ row[t].status = "FAILED"
    /\ row[t].exc \notin Bookkeeping
    /\ att[t].attempt < Budget(t)
    /\ IF Classify(t, cause) \in {"lost", "interrupted"}
       THEN RetriesLost(t)
       ELSE row[t].exc \in Policy[row[t].path].retryOn

\* Variant: no orphan rule for a claimant without a heartbeat row.
LostForNoOrphans(w) ==
    {t \in Ids : /\ row[t].status = "RUNNING"
                 /\ row[t].by # w
                 /\ hb[row[t].by] \in {"stale", "stopped"}}

\* find_lost_tasks, called by worker w, which excludes itself.
LostFor(w) ==
    {t \in Ids : /\ row[t].status = "RUNNING"
                 /\ row[t].by # w
                 /\ CASE hb[row[t].by] = "none" -> row[t].aged
                      [] OTHER -> hb[row[t].by] \in {"stale", "stopped"}}

\* Variant: only pinned chains are repaired.
UnrepairedPinnedOnly ==
    {t \in Ids : /\ row[t].status = "FAILED" /\ ~row[t].aged
                 /\ ~HasChild(t)
                 /\ row[t].exc \notin Bookkeeping
                 /\ att[t].pin > 1}

\* repair_missed_retries: failures inside the window that nothing retried.
Unrepaired ==
    {t \in Ids : /\ row[t].status = "FAILED" /\ ~row[t].aged
                 /\ ~HasChild(t)
                 /\ row[t].exc \notin Bookkeeping
                 /\ Policy[row[t].path].attempts > 1 \/ att[t].pin > 1}

\* Variant: a row that still carries the reaper's verdict counts as completed.
LateUnmarkedVerdictToo ==
    {t \in Ids : /\ Terminal(t)
                 /\ \E c \in ChildrenOf(t) :
                        att[c].cause = "lost" /\ ~att[c].marked /\ ~att[c].aged}

\* Variant: only a late success counts.
LateUnmarkedSuccessOnly ==
    {t \in Ids : /\ row[t].status = "SUCCESSFUL"
                 /\ \E c \in ChildrenOf(t) :
                        att[c].cause = "lost" /\ ~att[c].marked /\ ~att[c].aged}

\* detect_late_completions: reaped attempts whose row says otherwise by now.
LateUnmarked ==
    {t \in Ids : /\ Terminal(t) /\ row[t].exc # "lost"
                 /\ \E c \in ChildrenOf(t) :
                        att[c].cause = "lost" /\ ~att[c].marked /\ ~att[c].aged}

\* attempt_info of an id that has no TaskAttempt row.
Unrecorded(t) ==
    [root |-> t, parent |-> NoId, attempt |-> 1, cause |-> "first", pin |-> 0,
     marked |-> FALSE, cancelled |-> FALSE, aged |-> FALSE]

Unenqueued == [status |-> "none", exc |-> "none", by |-> NoWorker,
               path |-> CHOOSE p \in Paths : TRUE, aged |-> FALSE]

ReadyRow(path) == [status |-> "READY", exc |-> "none", by |-> NoWorker,
                   path |-> path, aged |-> FALSE]

\* Result ids are handed out in order; which id a row gets is immaterial.
Fresh(n) == ~Used(n) /\ \A m \in Ids : m < n => Used(m)

----------------------------------------------------------------------------
Init ==
    /\ row = [t \in Ids |-> Unenqueued]
    /\ att = [t \in Ids |-> Unrecorded(t)]
    /\ live = [w \in Workers |-> "new"]
    /\ hb = [w \in Workers |-> "none"]
    /\ missed = [w \in Workers |-> FALSE]
    /\ thr = [p \in Threads |-> Off]
    /\ faults = 0

\* A caller enqueues a task and, in the same transaction, may pin its budget.
EnqueueTask(n, path, pin) ==
    /\ Fresh(n)
    /\ Cardinality({t \in Ids : Used(t) /\ att[t].parent = NoId}) < MaxRoots
    /\ row' = [row EXCEPT ![n] = ReadyRow(path)]
    /\ att' = [att EXCEPT ![n] = [Unrecorded(n) EXCEPT !.pin = pin]]
    /\ UNCHANGED <<live, hb, missed, thr, faults>>

----------------------------------------------------------------------------
(* The worker process: db_worker's handle() around upstream's loop.        *)

Fault(w) == w \notin Steady /\ faults < MaxFaults /\ faults' = faults + 1

\* register_worker; the loop starts only after one synchronous reaper pass.
StartWorker(w) ==
    /\ live[w] = "new"
    /\ live' = [live EXCEPT ![w] = "up"]
    /\ hb' = [hb EXCEPT ![w] = "fresh"]
    /\ thr' = [thr EXCEPT ![Main(w)] = [Idle EXCEPT !.pc = "boot"],
                          ![BeatThread(w)] = Idle]
    /\ UNCHANGED <<row, att, missed, faults>>

\* DBTaskResult.claim: the incarnation becomes worker_ids[-1].
Claim(w, t) ==
    /\ live[w] = "up" /\ thr[Main(w)].pc = "idle"
    /\ row[t].status = "READY"
    /\ row' = [row EXCEPT ![t] = [@ EXCEPT !.status = "RUNNING", !.by = w]]
    /\ thr' = [thr EXCEPT ![Main(w)] = [Idle EXCEPT !.pc = "run", !.job = t]]
    /\ UNCHANGED <<att, live, hb, missed, faults>>

\* The task body ends; set_successful or set_failed overwrites the row with
\* whatever it says, unconditionally, and task_finished is about to be sent.
Finish(w, exc) ==
    LET t == thr[Main(w)].job IN
    /\ live[w] = "up" /\ thr[Main(w)].pc = "run"
    /\ row' = [row EXCEPT ![t] =
                 [@ EXCEPT !.status = IF exc = "none" THEN "SUCCESSFUL" ELSE "FAILED",
                           !.exc = exc, !.aged = FALSE]]
    /\ thr' = [thr EXCEPT ![Main(w)] = [@ EXCEPT !.pc = "late"]]
    /\ UNCHANGED <<att, live, hb, missed, faults>>

\* SIGKILL, OOM: both threads vanish where they are.
Crash(w) ==
    /\ live[w] \in {"up", "paused"}
    /\ live' = [live EXCEPT ![w] = "down"]
    /\ thr' = [thr EXCEPT ![Main(w)] = Off, ![BeatThread(w)] = Off]
    /\ Fault(w)
    /\ UNCHANGED <<row, att, hb, missed>>

\* handle() returns or raises: the finally clause stops the thread and calls
\* mark_stopped.  With a task still RUNNING this is upstream's loop dying.
StopWorker(w) ==
    /\ live[w] = "up" /\ thr[Main(w)].pc \in {"idle", "run"}
    /\ live' = [live EXCEPT ![w] = "down"]
    /\ hb' = [hb EXCEPT ![w] = IF @ = "none" THEN "none" ELSE "stopped"]
    /\ thr' = [thr EXCEPT ![Main(w)] = Off, ![BeatThread(w)] = Off]
    /\ Fault(w)
    /\ UNCHANGED <<row, att, missed>>

\* A throttled container or a snapshotted VM stops the whole process.
Pause(w) ==
    /\ live[w] = "up"
    /\ live' = [live EXCEPT ![w] = "paused"]
    /\ Fault(w)
    /\ UNCHANGED <<row, att, hb, missed, thr>>

Resume(w) ==
    /\ live[w] = "paused"
    /\ live' = [live EXCEPT ![w] = "up"]
    /\ UNCHANGED <<row, att, hb, missed, thr, faults>>

\* The heartbeat thread is between two passes and its loop is running.
Beating(w) ==
    /\ live[w] = "up" /\ thr[BeatThread(w)].pc = "idle"
    /\ thr[Main(w)].pc # "boot"

\* beat() refreshes the row if it is still there; a pruned row stays gone.
Beat(w) ==
    /\ Beating(w)
    /\ hb' = [hb EXCEPT ![w] = IF @ = "none" THEN "none" ELSE "fresh"]
    /\ missed' = [missed EXCEPT ![w] = FALSE]
    /\ UNCHANGED <<row, att, live, thr, faults>>

\* Fewer failed beats in a row than the threshold change nothing.
MissBeats(w) ==
    /\ Beating(w) /\ ~missed[w]
    /\ missed' = [missed EXCEPT ![w] = TRUE]
    /\ Fault(w)
    /\ UNCHANGED <<row, att, live, hb, thr>>

----------------------------------------------------------------------------
(* Time.  LOST_AFTER is several beat intervals, so only a worker that is   *)
(* not running or that keeps missing beats goes stale.                     *)

AgeHeartbeat(w) ==
    /\ hb[w] = "fresh"
    /\ live[w] # "up" \/ missed[w]
    /\ hb' = [hb EXCEPT ![w] = "stale"]
    /\ UNCHANGED <<row, att, live, missed, thr, faults>>

\* A claimed row with no heartbeat record passes ORPHAN_SECONDS.
AgeOrphan(t) ==
    /\ row[t].status = "RUNNING" /\ ~row[t].aged
    /\ hb[row[t].by] = "none"
    /\ row' = [row EXCEPT ![t] = [@ EXCEPT !.aged = TRUE]]
    /\ UNCHANGED <<att, live, hb, missed, thr, faults>>

\* A failure leaves REPAIR_WINDOW.
AgeFailure(t) ==
    /\ row[t].status = "FAILED" /\ ~row[t].aged
    /\ Cardinality({u \in Ids : row[u].status = "FAILED" /\ row[u].aged}) < MaxAged
    /\ row' = [row EXCEPT ![t] = [@ EXCEPT !.aged = TRUE]]
    /\ UNCHANGED <<att, live, hb, missed, thr, faults>>

\* A retry leaves LATE_COMPLETION_WINDOW.  The window is a day and a steady
\* worker sweeps every minute, so what is in reach of a sweep does not age.
AgeAttempt(c) ==
    /\ AttemptsAge
    /\ Steady = {} \/ att[c].parent \notin LateUnmarked
    /\ att[c].cause = "lost" /\ ~att[c].aged
    /\ att' = [att EXCEPT ![c] = [@ EXCEPT !.aged = TRUE]]
    /\ UNCHANGED <<row, live, hb, missed, thr, faults>>

----------------------------------------------------------------------------
(* Steps both threads take: maybe_retry and _mark_superseded.              *)

At(p, pc) == live[p[1]] = "up" /\ thr[p].pc = pc

\* Where a thread goes when it is done with one task.
Done(p) == IF p[2] = "main" THEN Idle
           ELSE [thr[p] EXCEPT !.pc = "next", !.job = NoId, !.cause = "first"]

\* maybe_retry, first half: read the row and decide.
Considering(p, t, cause) ==
    IF Decide(t, cause)
    THEN [thr[p] EXCEPT !.pc = "insert", !.job = t, !.cause = Classify(t, cause)]
    ELSE Done(p)

ReadForRetry(p) ==
    /\ At(p, "read")
    /\ thr' = [thr EXCEPT ![p] = Considering(p, thr[p].job, thr[p].cause)]
    /\ UNCHANGED <<row, att, live, hb, missed, faults>>

\* maybe_retry, second half: one transaction enqueues the copy and inserts
\* its TaskAttempt, or rolls both back on the unique parent_id.
InsertRetry(p, n) ==
    LET t == thr[p].job IN
    /\ At(p, "insert")
    /\ ~HasChild(t)
    /\ Fresh(n)
    /\ row' = [row EXCEPT ![n] = ReadyRow(row[t].path)]
    /\ att' = [att EXCEPT ![n] = [Unrecorded(n) EXCEPT
                  !.root = att[t].root, !.parent = t, !.attempt = att[t].attempt + 1,
                  !.cause = thr[p].cause, !.pin = att[t].pin]]
    /\ thr' = [thr EXCEPT ![p] = Done(p)]
    /\ UNCHANGED <<live, hb, missed, faults>>

InsertConflict(p) ==
    /\ At(p, "insert")
    /\ HasChild(thr[p].job)
    /\ thr' = [thr EXCEPT ![p] = Done(p)]
    /\ UNCHANGED <<row, att, live, hb, missed, faults>>

\* _mark_superseded, first UPDATE: t completed although a reap replaced it.
Markable(c, t) == att[c].parent = t /\ att[c].cause = "lost" /\ ~att[c].marked

MarkSuperseded(p, t) ==
    /\ \E c \in Ids : Markable(c, t)
    /\ att' = [c \in Ids |-> IF Markable(c, t) THEN [att[c] EXCEPT !.marked = TRUE]
                             ELSE att[c]]
    /\ thr' = [thr EXCEPT ![p] = [@ EXCEPT !.pc = "cancel", !.job = t, !.todo = thr[p].todo \ {t}]]
    /\ UNCHANGED <<row, live, hb, missed, faults>>

\* Variant: cancel the replacement whatever its status.
CancelRetryAlways(p, c) ==
    /\ At(p, "cancel")
    /\ att[c].parent = thr[p].job
    /\ row' = [row EXCEPT ![c] = [@ EXCEPT !.status = "FAILED", !.exc = "superseded"]]
    /\ thr' = [thr EXCEPT ![p] = [@ EXCEPT !.pc = "flag"]]
    /\ UNCHANGED <<att, live, hb, missed, faults>>

\* _mark_superseded, second UPDATE: cancel the replacement if still READY.
CancelRetry(p, c) ==
    /\ At(p, "cancel")
    /\ att[c].parent = thr[p].job
    /\ IF row[c].status = "READY"
       THEN /\ row' = [row EXCEPT ![c] = [@ EXCEPT !.status = "FAILED", !.exc = "superseded"]]
            /\ thr' = [thr EXCEPT ![p] = [@ EXCEPT !.pc = "flag"]]
       ELSE /\ thr' = [thr EXCEPT ![p] = Done(p)]
            /\ UNCHANGED row
    /\ UNCHANGED <<att, live, hb, missed, faults>>

\* _mark_superseded, third UPDATE: retry_cancelled = True.
FlagCancelled(p) ==
    /\ At(p, "flag")
    /\ att' = [c \in Ids |-> IF att[c].parent = thr[p].job
                             THEN [att[c] EXCEPT !.cancelled = TRUE] ELSE att[c]]
    /\ thr' = [thr EXCEPT ![p] = Done(p)]
    /\ UNCHANGED <<row, live, hb, missed, faults>>

----------------------------------------------------------------------------
(* The task_finished receiver, retry_failed_task.                          *)

\* The worker's own result says FAILED, and no late completion was recorded.
NotLate(w) ==
    IF row[thr[Main(w)].job].status = "FAILED"
    THEN [thr[Main(w)] EXCEPT !.pc = "read", !.cause = "failed"]
    ELSE Idle

RecordLateCompletion(w) ==
    LET t == thr[Main(w)].job IN
    /\ At(Main(w), "late")
    /\ \/ MarkSuperseded(Main(w), t)
       \/ /\ ~\E c \in Ids : Markable(c, t)
          /\ thr' = [thr EXCEPT ![Main(w)] = NotLate(w)]
          /\ UNCHANGED <<row, att, live, hb, missed, faults>>

----------------------------------------------------------------------------
(* One reaper pass, reap_lost_tasks, on worker w's heartbeat thread (or,   *)
(* at boot, ahead of its loop).                                            *)

InPhase(w, phase) == At(BeatThread(w), "next") /\ thr[BeatThread(w)].phase = phase
Todo(w) == thr[BeatThread(w)].todo

StartPass(w) ==
    /\ At(BeatThread(w), "idle")
    /\ ~missed[w]
    /\ thr' = [thr EXCEPT ![BeatThread(w)] =
                 [@ EXCEPT !.pc = "next", !.phase = "reap", !.todo = LostFor(w)]]
    /\ UNCHANGED <<row, att, live, hb, missed, faults>>

\* Variant: the UPDATE is keyed on the id alone.
ReapTaskAnyStatus(w, t) ==
    /\ InPhase(w, "reap") /\ t \in Todo(w)
    /\ row' = [row EXCEPT ![t] =
                 [@ EXCEPT !.status = "FAILED", !.exc = "lost", !.aged = FALSE]]
    /\ thr' = [thr EXCEPT ![BeatThread(w)] =
                 [@ EXCEPT !.pc = "read", !.job = t, !.cause = "lost", !.todo = Todo(w) \ {t}]]
    /\ UNCHANGED <<att, live, hb, missed, faults>>

\* Conditional UPDATE ... WHERE status = RUNNING; a row that moved on is `raced'.
ReapTask(w, t) ==
    /\ InPhase(w, "reap") /\ t \in Todo(w)
    /\ IF row[t].status = "RUNNING"
       THEN /\ row' = [row EXCEPT ![t] =
                        [@ EXCEPT !.status = "FAILED", !.exc = "lost", !.aged = FALSE]]
            /\ thr' = [thr EXCEPT ![BeatThread(w)] =
                        [@ EXCEPT !.pc = "read", !.job = t, !.cause = "lost", !.todo = Todo(w) \ {t}]]
       ELSE /\ thr' = [thr EXCEPT ![BeatThread(w)] = [@ EXCEPT !.todo = Todo(w) \ {t}]]
            /\ UNCHANGED row
    /\ UNCHANGED <<att, live, hb, missed, faults>>

\* Each sweep lists its candidates once and then takes them one at a time;
\* what it does to one is decided again from what the tables say by then.
StartRepair(w) ==
    /\ InPhase(w, "reap") /\ Todo(w) = {}
    /\ thr' = [thr EXCEPT ![BeatThread(w)] = [@ EXCEPT !.phase = "repair", !.todo = Unrepaired]]
    /\ UNCHANGED <<row, att, live, hb, missed, faults>>

RepairRetry(w, t) ==
    /\ InPhase(w, "repair") /\ t \in Todo(w)
    /\ thr' = [thr EXCEPT ![BeatThread(w)] =
                 [Considering(BeatThread(w), t, "failed") EXCEPT !.todo = Todo(w) \ {t}]]
    /\ UNCHANGED <<row, att, live, hb, missed, faults>>

StartDetect(w) ==
    /\ InPhase(w, "repair") /\ Todo(w) = {}
    /\ thr' = [thr EXCEPT ![BeatThread(w)] = [@ EXCEPT !.phase = "detect", !.todo = LateUnmarked]]
    /\ UNCHANGED <<row, att, live, hb, missed, faults>>

DetectLate(w, t) ==
    /\ InPhase(w, "detect") /\ t \in Todo(w)
    /\ IF \E c \in Ids : Markable(c, t)
       THEN MarkSuperseded(BeatThread(w), t)
       ELSE /\ thr' = [thr EXCEPT ![BeatThread(w)] = [@ EXCEPT !.todo = Todo(w) \ {t}]]
            /\ UNCHANGED <<row, att, live, hb, missed, faults>>

\* The end of a pass, also the end of the synchronous one at boot.
PassOver(w) ==
    [thr EXCEPT ![BeatThread(w)] = Idle,
                ![Main(w)] = IF @.pc = "boot" THEN Idle ELSE @]

\* prune_heartbeats drops the rows silent for HEARTBEAT_RETENTION.
EndPass(w, ancient) ==
    /\ InPhase(w, "detect") /\ Todo(w) = {}
    /\ ancient \subseteq {v \in Workers : hb[v] \in {"stale", "stopped"}}
    /\ hb' = [v \in Workers |-> IF v \in ancient THEN "none" ELSE hb[v]]
    /\ thr' = PassOver(w)
    /\ UNCHANGED <<row, att, live, missed, faults>>

----------------------------------------------------------------------------
(* A database error in the middle of a step.  The receiver swallows it and *)
(* goes on to its retry check; a failed retry inside a pass is skipped;    *)
(* anything else abandons the pass until the next one (safe_reap).         *)

ReceiverFault(w) ==
    /\ live[w] = "up"
    /\ \/ /\ thr[Main(w)].pc \in {"late", "cancel", "flag"}
          /\ thr' = [thr EXCEPT ![Main(w)] = NotLate(w)]
       \/ /\ thr[Main(w)].pc \in {"read", "insert"}
          /\ thr' = [thr EXCEPT ![Main(w)] = Idle]
    /\ Fault(w)
    /\ UNCHANGED <<row, att, live, hb, missed>>

PassFault(w) ==
    /\ live[w] = "up"
    /\ \/ /\ thr[BeatThread(w)].pc \in {"read", "insert"}
          /\ thr' = [thr EXCEPT ![BeatThread(w)] = Done(BeatThread(w))]
       \/ /\ thr[BeatThread(w)].pc \in {"next", "cancel", "flag"}
          /\ thr' = PassOver(w)
    /\ Fault(w)
    /\ UNCHANGED <<row, att, live, hb, missed>>

----------------------------------------------------------------------------
ThreadStep(p) ==
    \/ ReadForRetry(p) \/ InsertConflict(p) \/ FlagCancelled(p)
    \/ \E n \in Ids : InsertRetry(p, n) \/ CancelRetry(p, n)

PassStep(w) ==
    \/ StartRepair(w) \/ StartDetect(w)
    \/ \E t \in Ids : ReapTask(w, t) \/ RepairRetry(w, t) \/ DetectLate(w, t)
    \/ \E ancient \in SUBSET Workers : EndPass(w, ancient)

WorkerStep(w) ==
    \/ StartWorker(w) \/ Crash(w) \/ StopWorker(w) \/ Pause(w) \/ Resume(w)
    \/ Beat(w) \/ MissBeats(w) \/ AgeHeartbeat(w)
    \/ \E t \in Ids : Claim(w, t)
    \/ \E exc \in Outcomes : Finish(w, exc)
    \/ RecordLateCompletion(w) \/ ReceiverFault(w)
    \/ StartPass(w) \/ PassStep(w) \/ PassFault(w)

Next ==
    \/ \E n \in Ids, path \in Paths, pin \in Pins : EnqueueTask(n, path, pin)
    \/ \E w \in Workers : WorkerStep(w)
    \/ \E p \in Threads : ThreadStep(p)
    \/ \E t \in Ids : AgeOrphan(t) \/ AgeFailure(t) \/ AgeAttempt(t)

\* A running thread keeps running (the kernel schedules it), a live heartbeat
\* loop keeps starting passes, and time passes.  Nothing obliges a task to
\* finish, a paused process to resume or a worker outside Steady to be started.
Fairness ==
    /\ \A w \in Steady : WF_vars(StartWorker(w))
    /\ \A w \in Workers : /\ WF_vars(StartPass(w)) /\ WF_vars(PassStep(w))
                          /\ WF_vars(RecordLateCompletion(w))
                          /\ WF_vars(AgeHeartbeat(w))
    /\ \A p \in Threads : WF_vars(ThreadStep(p))
    /\ \A t \in Ids : WF_vars(AgeOrphan(t))

Spec == Init /\ [][Next]_vars
FairSpec == Spec /\ Fairness

----------------------------------------------------------------------------
(* chain_outcome: follow the retries of a first attempt.                   *)

ChildOf(t) == CHOOSE c \in Ids : att[c].parent = t

\* Variant: the walk does not look at retry_cancelled.
ChainEndsAtBlind(t) == ~HasChild(t)

\* The walk stops at an attempt nothing retried, or whose retry was cancelled
\* and never re-enqueued.
ChainEndsAt(t) ==
    \/ ~HasChild(t)
    \/ LET c == ChildOf(t) IN att[c].marked /\ att[c].cancelled /\ ~HasChild(c)

ChainFrom(t) ==
    LET walk[u \in Ids] == IF ChainEndsAt(u) THEN {u} ELSE {u} \cup walk[ChildOf(u)]
    IN  walk[t]

Latest(t) == CHOOSE u \in ChainFrom(t) : ChainEndsAt(u)

----------------------------------------------------------------------------
(* Properties.                                                             *)

\* Every variable has its type.
TypeOK ==
    /\ row \in [Ids -> Rows]
    /\ att \in [Ids -> Attempts]
    /\ live \in [Workers -> {"new", "up", "paused", "down"}]
    /\ hb \in [Workers -> {"none", "fresh", "stale", "stopped"}]
    /\ missed \in [Workers -> BOOLEAN]
    /\ thr \in [Threads -> Locals]
    /\ faults \in Nat

\* However the receiver, the reapers and the repair sweeps race on stale reads,
\* the attempts of one chain carry distinct numbers within the chain's budget:
\* a request is executed at most as often as max_attempts says (maybe_retry).
ChainWithinBudget ==
    /\ \A t \in Ids : Used(t) => att[t].attempt <= Budget(t) \/ att[t].attempt = 1
    /\ \A s, t \in Ids : Used(s) /\ Used(t) /\ att[s].root = att[t].root
                            /\ att[s].attempt = att[t].attempt => s = t

\* A retry that was cancelled because the attempt it replaced completed after
\* all has never run, and no path re-enqueues it (RetrySuperseded, U4).
CancelledNeverRuns ==
    \A t \in Ids : row[t].exc = "superseded" =>
        row[t].status = "FAILED" /\ ~Started(t) /\ ~HasChild(t)

\* A late completion is recorded only for an attempt that a reap replaced and
\* whose own worker really reported an outcome; and retry_cancelled is set only
\* on a retry that was cancelled unstarted (_mark_superseded).
MarkerTruthful(c) ==
    /\ att[c].marked => att[c].cause = "lost" /\ Reported(att[c].parent)
    /\ att[c].cancelled => att[c].marked /\ row[c].exc = "superseded"

MarkersTruthful == \A c \in Ids : MarkerTruthful(c)

\* What a worker reported is ground truth: neither a reaper nor a cancellation
\* ever overwrites it, however late the worker was (reap_lost_tasks, whose
\* UPDATE is conditional, and _mark_superseded).
GroundTruthKept ==
    [][\A t \in Ids : Reported(t) =>
          row'[t].status = row[t].status /\ row'[t].exc = row[t].exc]_vars

\* A task whose worker died does not stay RUNNING for ever, as long as one
\* other worker is steady (the reaper's reason to exist).
LostTaskReaped ==
    \A t \in Ids : (row[t].status = "RUNNING" /\ live[row[t].by] = "down")
                        ~> row[t].status # "RUNNING"

\* A failed attempt that its policy retries is retried, whatever was killed or
\* swallowed on the way, unless it leaves the repair window first
\* (repair_missed_retries).
FailureRetried ==
    \A t \in Ids : Decide(t, "failed") ~>
        (HasChild(t) \/ row[t].aged \/ ~Decide(t, "failed"))

\* When an attempt was declared lost, replaced, and completed after all while
\* its replacement runs too, the chain is marked, unless the retry leaves the
\* late-completion window first ("it cannot run twice unnoticed").
DoubleRun(c) ==
    att[c].cause = "lost" /\ Started(c) /\ Reported(att[c].parent)

DoubleRunNoticed == \A c \in Ids : DoubleRun(c) ~> (att[c].marked \/ att[c].aged)

\* chain_outcome: "A cancelled retry never ran, so it is not this chain's
\* outcome".  It takes one fault to lose an attempt that completes after all; a
\* second one, between the UPDATE that cancels the retry and the one that says
\* so, breaks this (README.md).
CancelledIsNotOutcome ==
    faults <= 1 =>
        \A t \in Ids : Used(t) /\ att[t].parent = NoId
                       /\ (\A p \in Threads : thr[p].pc # "flag")
            => row[Latest(t)].exc # "superseded"

----------------------------------------------------------------------------
(* The inductive strengthening of the safety properties.                   *)

\* A row nobody enqueued is blank; one nobody claimed has no worker.
RowsSane ==
    \A t \in Ids :
        /\ ~Used(t) => att[t] = Unrecorded(t) /\ row[t].exc = "none"
        /\ row[t].status \in {"none", "READY"} => row[t].by = NoWorker /\ row[t].exc = "none"

\* Attempts form chains: a retry continues a terminal attempt of its own chain,
\* and no attempt has two retries (the unique parent_id).
Linked(c) ==
    IF att[c].parent = NoId
    THEN att[c].root = c /\ att[c].attempt = 1 /\ ~att[c].marked
    ELSE LET t == att[c].parent IN
         /\ Used(c) /\ Terminal(t) /\ row[c].path = row[t].path
         /\ att[c].root = att[t].root /\ att[c].pin = att[t].pin
         /\ att[c].attempt = att[t].attempt + 1 /\ att[t].attempt >= 1

ChainsLinked ==
    /\ \A c \in Ids : Linked(c)
    /\ \A c, d \in Ids : att[c].parent = att[d].parent /\ att[c].parent # NoId => c = d

\* What a thread remembers about its task still holds when it uses it.
ThreadSane(p) ==
    LET t == thr[p].job IN
    /\ thr[p].pc = "run" => /\ p[2] = "main" /\ t \in Ids /\ row[t].by = p[1]
                            /\ \/ row[t].status = "RUNNING"
                               \/ row[t].status = "FAILED" /\ row[t].exc = "lost"
    /\ thr[p].phase = "detect" => \A u \in thr[p].todo : Reported(u)
    /\ thr[p].pc = "late" => t \in Ids /\ Reported(t)
    /\ thr[p].pc = "read" => t \in Ids
    /\ thr[p].pc = "insert" => /\ t \in Ids /\ Terminal(t) /\ row[t].exc # "superseded"
                               /\ att[t].attempt < Budget(t)
    /\ thr[p].pc \in {"cancel", "flag"} =>
          /\ t \in Ids
          /\ \E c \in Ids : att[c].parent = t
          /\ \A c \in Ids : att[c].parent = t =>
                att[c].marked /\ (thr[p].pc = "flag" => row[c].exc = "superseded")

ThreadsSane == \A p \in Threads : ThreadSane(p)

IInv ==
    /\ TypeOK /\ RowsSane /\ ChainsLinked /\ ThreadsSane
    /\ ChainWithinBudget /\ CancelledNeverRuns /\ MarkersTruthful

\* Ids are handed out in order, so a retry comes after what it retries.
IdsInOrder ==
    /\ \A s, t \in Ids : Used(t) /\ s < t => Used(s)
    /\ \A c \in Ids : att[c].parent # NoId => att[c].parent < c

\* The threads of a worker that was not started do not run.
Unstarted == \A p \in Threads : live[p[1]] = "new" => thr[p].pc = "off"

\* Without a fault every started worker beats, and nothing is declared lost.
CalmWorker(w) ==
    ~missed[w] /\ <<live[w], hb[w]>> \in {<<"new", "none">>, <<"up", "fresh">>}

CalmRow(t) ==
    /\ row[t].exc # "lost" /\ att[t].cause # "lost"
    /\ row[t].status = "RUNNING" => row[t].by \in Workers /\ live[row[t].by] = "up"

CalmThread(p) == thr[p].cause # "lost" /\ (thr[p].phase = "reap" => thr[p].todo = {})

FaultlessIsCalm ==
    faults = 0 =>
        /\ \A w \in Workers : CalmWorker(w)
        /\ \A t \in Ids : CalmRow(t)
        /\ \A p \in Threads : CalmThread(p)

\* A cancelled retry is flagged, or about to be: only a second fault comes between.
CancelFlagged ==
    faults <= 1 =>
        \A c \in Ids : row[c].exc = "superseded" =>
            \/ att[c].cancelled
            \/ \E p \in Threads : thr[p].pc = "flag" /\ thr[p].job = att[c].parent

\* The further strengthening behind CancelledIsNotOutcome.
OutcomeInv == IdsInOrder /\ Unstarted /\ FaultlessIsCalm /\ CancelFlagged

=============================================================================
