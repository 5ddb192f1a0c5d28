-------------------------- MODULE WebhookDelivery --------------------------
(***************************************************************************)
(* apps/webhooks, the outbound half: fan_out creates one delivery row per  *)
(* subscribed endpoint and enqueues a deliver_webhook task for it; a task  *)
(* worker posts it and records the outcome; a failed attempt leaves a      *)
(* retry cursor that run_due_deliveries, the tick, turns into a new task.  *)
(* Publishers (request threads and operator commands), task workers and    *)
(* ticks run concurrently; each SQL statement is one action.               *)
(***************************************************************************)
EXTENDS Naturals, FiniteSets

CONSTANTS
    MaxRows,       \* bound: how many deliveries may ever be created
    MaxAttempts,   \* SMALLSTACK_WEBHOOK_MAX_ATTEMPTS
    Threshold,     \* SMALLSTACK_WEBHOOK_AUTO_DISABLE_AFTER; 0 is "never"
    MaxFaults,     \* bound: how many things may go wrong
    FaultKinds,    \* which of "create", "enqueue", "body", "worker", "tick"
    MaxCommands,   \* bound: how many replays and test sends an operator asks for
    MaxEdits,      \* bound: how many times an operator saves the endpoint form
    Endpoints, Publishers, Runners, Ticks

ASSUME BoundsAssumption ==
    /\ MaxRows \in Nat /\ MaxFaults \in Nat /\ MaxCommands \in Nat /\ MaxEdits \in Nat
ASSUME SettingsAssumption == MaxAttempts \in Nat \ {0} /\ Threshold \in Nat
ASSUME FaultKindsAssumption ==
    FaultKinds \subseteq {"create", "enqueue", "body", "worker", "tick"}

VARIABLES
    row,     \* WebhookDelivery
    queued,  \* deliver_webhook tasks waiting for a worker, per delivery
    ep,      \* WebhookEndpoint: enabled, consecutive_failures
    pub,     \* fan_out, replay and test sends in progress
    run,     \* deliver_webhook executions
    tick,    \* run_due_deliveries in progress
    edit,    \* the endpoint form: the row as its view loaded it
    posts,   \* ghost: requests that left for the endpoint, per delivery
    acked,   \* ghost: deliveries whose sender has seen a 2xx
    streak,  \* ghost: attempts in a row that failed, per endpoint
    mailed,  \* deliveries whose _notify_dead mail was enqueued
    faults, commands, edits

vars == <<row, queued, ep, pub, run, tick, edit, posts, acked, streak, mailed,
          faults, commands, edits>>

Ids == 1..MaxRows
NoId == 0
Statuses == {"none", "PENDING", "RETRYING", "SUCCESS", "DEAD"}

\* next_attempt_at is NULL (0), or the instant set when attempt n failed,
\* written n: each failed attempt sets a later instant than the one before.
\* `due' tells whether that instant has passed.
Rows == [status : Statuses, ep : Endpoints, attempt : Nat, max : Nat \ {0},
         cursor : Nat, due : BOOLEAN]
Publishing == [pc : {"idle", "create", "enqueue"}, todo : SUBSET Endpoints,
               again : SUBSET Ids, d : Ids \cup {NoId}]
Running == [pc : {"idle", "send", "record", "bump", "check", "disable", "notify"},
            d : Ids \cup {NoId}, attempt : Nat, ok : BOOLEAN]
Ticking == [todo : SUBSET (Ids \X Nat), hold : Ids \cup {NoId}]

IsTerminal(d) == row[d].status \in {"SUCCESS", "DEAD"}
Free == {d \in Ids : row[d].status = "none"}
Fresh == CHOOSE d \in Free : \A x \in Free : d <= x

IdlePub == [pc |-> "idle", todo |-> {}, again |-> {}, d |-> NoId]
IdleRun == [pc |-> "idle", d |-> NoId, attempt |-> 0, ok |-> FALSE]
IdleTick == [todo |-> {}, hold |-> NoId]

Init ==
    /\ \E e \in Endpoints :
         row = [d \in Ids |-> [status |-> "none", ep |-> e, attempt |-> 0,
                               max |-> MaxAttempts, cursor |-> 0, due |-> FALSE]]
    /\ queued = [d \in Ids |-> 0]
    /\ ep = [e \in Endpoints |-> [enabled |-> TRUE, fails |-> 0]]
    /\ pub = [p \in Publishers |-> IdlePub]
    /\ run = [r \in Runners |-> IdleRun]
    /\ tick = [k \in Ticks |-> IdleTick]
    /\ edit = {}
    /\ posts = [d \in Ids |-> 0] /\ acked = {} /\ mailed = {}
    /\ streak = [e \in Endpoints |-> 0]
    /\ faults = 0 /\ commands = 0 /\ edits = 0

Fault(kind) ==
    /\ kind \in FaultKinds /\ faults < MaxFaults
    /\ faults' = faults + 1

----------------------------------------------------------------------------
(* Publishing.                                                             *)

\* fan_out lists the enabled endpoints once; matches() keeps some of them.
StartFanOut(p) ==
    /\ pub[p].pc = "idle" /\ Free # {}
    /\ \E M \in SUBSET {e \in Endpoints : ep[e].enabled} :
         /\ M # {}
         /\ pub' = [pub EXCEPT ![p] = [IdlePub EXCEPT !.pc = "create", !.todo = M]]
    /\ UNCHANGED <<row, queued, ep, run, tick, edit, posts, acked, streak, mailed,
                   faults, commands, edits>>

Command == commands < MaxCommands /\ commands' = commands + 1

\* replay_delivery: any past delivery, whatever its status.
StartReplay(p, d) ==
    /\ pub[p].pc = "idle" /\ row[d].status # "none" /\ Command
    /\ pub' = [pub EXCEPT ![p] = [IdlePub EXCEPT !.pc = "create", !.again = {d}]]
    /\ UNCHANGED <<row, queued, ep, run, tick, edit, posts, acked, streak, mailed, faults, edits>>

\* replay_dead lists every dead delivery, then replays them one by one.
StartReplayDead(p) ==
    LET Dead == {d \in Ids : row[d].status = "DEAD"} IN
    /\ pub[p].pc = "idle" /\ Dead # {} /\ Command
    /\ pub' = [pub EXCEPT ![p] = [IdlePub EXCEPT !.pc = "create", !.again = Dead]]
    /\ UNCHANGED <<row, queued, ep, run, tick, edit, posts, acked, streak, mailed, faults, edits>>

NewRow(e, max) ==
    [status |-> "PENDING", ep |-> e, attempt |-> 0, max |-> max, cursor |-> 0, due |-> FALSE]

\* The loop body of fan_out up to the enqueue.
CreateForEvent(p) ==
    /\ pub[p].pc = "create" /\ Free # {}
    /\ \E e \in pub[p].todo :
         /\ row' = [row EXCEPT ![Fresh] = NewRow(e, MaxAttempts)]
         /\ pub' = [pub EXCEPT ![p].pc = "enqueue", ![p].todo = @ \ {e}, ![p].d = Fresh]
    /\ UNCHANGED <<queued, ep, run, tick, edit, posts, acked, streak, mailed,
                   faults, commands, edits>>

\* replay_delivery up to the enqueue: the copy keeps max_attempts.
CreateForReplay(p) ==
    /\ pub[p].pc = "create" /\ Free # {}
    /\ \E o \in pub[p].again :
         /\ row' = [row EXCEPT ![Fresh] = NewRow(row[o].ep, row[o].max)]
         /\ pub' = [pub EXCEPT ![p].pc = "enqueue", ![p].again = @ \ {o}, ![p].d = Fresh]
    /\ UNCHANGED <<queued, ep, run, tick, edit, posts, acked, streak, mailed,
                   faults, commands, edits>>

\* test_endpoint: one attempt, enabled or not.
CreateForTest(p, e) ==
    /\ pub[p].pc = "idle" /\ Free # {} /\ Command
    /\ row' = [row EXCEPT ![Fresh] = NewRow(e, 1)]
    /\ pub' = [pub EXCEPT ![p] = [IdlePub EXCEPT !.pc = "enqueue", !.d = Fresh]]
    /\ UNCHANGED <<queued, ep, run, tick, edit, posts, acked, streak, mailed, faults, edits>>

AfterEnqueue(p) ==
    IF pub[p].todo = {} /\ pub[p].again = {} THEN IdlePub
    ELSE [pub[p] EXCEPT !.pc = "create", !.d = NoId]

\* _enqueue_delivery.
Enqueue(p) ==
    /\ pub[p].pc = "enqueue"
    /\ queued' = [queued EXCEPT ![pub[p].d] = @ + 1]
    /\ pub' = [pub EXCEPT ![p] = AfterEnqueue(p)]
    /\ UNCHANGED <<row, ep, run, tick, edit, posts, acked, streak, mailed, faults, commands, edits>>

\* _enqueue_delivery swallows the error; the loop goes on.
EnqueueFails(p) ==
    /\ pub[p].pc = "enqueue" /\ Fault("enqueue")
    /\ pub' = [pub EXCEPT ![p] = AfterEnqueue(p)]
    /\ UNCHANGED <<row, queued, ep, run, tick, edit, posts, acked, streak, mailed, commands, edits>>

\* An insert fails: fan_out's one try statement ends the whole loop, and a
\* replay raises out of it.  The bound on rows ends the loop the same way.
CreateFails(p) ==
    /\ pub[p].pc = "create"
    /\ IF Free = {} THEN UNCHANGED faults ELSE Fault("create")
    /\ pub' = [pub EXCEPT ![p] = IdlePub]
    /\ UNCHANGED <<row, queued, ep, run, tick, edit, posts, acked, streak, mailed, commands, edits>>

----------------------------------------------------------------------------
(* Delivering.                                                             *)

\* A worker claims the task and deliver_webhook loads the row.
Begin(r, d) ==
    /\ run[r].pc = "idle" /\ queued[d] > 0
    /\ queued' = [queued EXCEPT ![d] = @ - 1]
    /\ run' = IF IsTerminal(d) THEN run
              ELSE [run EXCEPT ![r] = [pc |-> "send", d |-> d,
                                       attempt |-> row[d].attempt + 1, ok |-> FALSE]]
    /\ UNCHANGED <<row, ep, pub, tick, edit, posts, acked, streak, mailed, faults, commands, edits>>

\* The POST: answered with a 2xx, or anything else (another status, a timeout
\* after which the receiver may or may not have acted, an exception).
Send(r) ==
    /\ run[r].pc = "send"
    /\ posts' = [posts EXCEPT ![run[r].d] = @ + 1]
    /\ \E ok \in BOOLEAN :
         /\ run' = [run EXCEPT ![r].pc = "record", ![r].ok = ok]
         /\ acked' = IF ok THEN acked \cup {run[r].d} ELSE acked
         /\ streak' = [streak EXCEPT ![row[run[r].d].ep] = IF ok THEN 0 ELSE @ + 1]
    /\ UNCHANGED <<row, queued, ep, pub, tick, edit, mailed, faults, commands, edits>>

\* url_is_allowed or the peer check refuses: a failed attempt without a request.
Blocked(r) ==
    /\ run[r].pc = "send"
    /\ run' = [run EXCEPT ![r].pc = "record", ![r].ok = FALSE]
    /\ streak' = [streak EXCEPT ![row[run[r].d].ep] = @ + 1]
    /\ UNCHANGED <<row, queued, ep, pub, tick, edit, posts, acked, mailed,
                   faults, commands, edits>>

\* A transform or an auth scheme raises before the request: the task fails and
\* the delivery row is not touched.
BodyRaises(r) ==
    /\ run[r].pc = "send" /\ Fault("body")
    /\ run' = [run EXCEPT ![r] = IdleRun]
    /\ UNCHANGED <<row, queued, ep, pub, tick, edit, posts, acked, streak, mailed, commands, edits>>

\* Variant: a success keeps the row retryable.
OutcomeNotCleared(r) ==
    LET d == run[r].d IN
    IF run[r].attempt >= row[d].max
    THEN [row[d] EXCEPT !.attempt = run[r].attempt, !.status = "DEAD",
                        !.cursor = 0, !.due = FALSE]
    ELSE [row[d] EXCEPT !.attempt = run[r].attempt, !.status = "RETRYING",
                        !.cursor = run[r].attempt, !.due = FALSE]

\* Variant: a failure short of the budget sets no retry cursor.
OutcomeNoCursor(r) ==
    LET d == run[r].d IN
    IF run[r].ok THEN [row[d] EXCEPT !.attempt = run[r].attempt, !.status = "SUCCESS",
                                     !.cursor = 0, !.due = FALSE]
    ELSE IF run[r].attempt >= row[d].max
    THEN [row[d] EXCEPT !.attempt = run[r].attempt, !.status = "DEAD",
                        !.cursor = 0, !.due = FALSE]
    ELSE [row[d] EXCEPT !.attempt = run[r].attempt, !.status = "RETRYING"]

\* The row _record_attempt saves: every field it names comes from the task's
\* own copy, whatever the row says by now.
Outcome(r) ==
    LET d == run[r].d IN
    IF run[r].ok THEN [row[d] EXCEPT !.attempt = run[r].attempt, !.status = "SUCCESS",
                                     !.cursor = 0, !.due = FALSE]
    ELSE IF run[r].attempt >= row[d].max
    THEN [row[d] EXCEPT !.attempt = run[r].attempt, !.status = "DEAD",
                        !.cursor = 0, !.due = FALSE]
    ELSE [row[d] EXCEPT !.attempt = run[r].attempt, !.status = "RETRYING",
                        !.cursor = run[r].attempt, !.due = FALSE]

RecordAttempt(r) ==
    /\ run[r].pc = "record"
    /\ row' = [row EXCEPT ![run[r].d] = Outcome(r)]
    /\ run' = [run EXCEPT ![r].pc = "bump"]
    /\ UNCHANGED <<queued, ep, pub, tick, edit, posts, acked, streak, mailed,
                   faults, commands, edits>>

\* What follows _bump_endpoint: _notify_dead for a delivery that gave up.
AfterBump(r) ==
    IF ~run[r].ok /\ run[r].attempt >= row[run[r].d].max
    THEN [run[r] EXCEPT !.pc = "notify"]
    ELSE IdleRun

\* Variant: a success does not reset the count of failures.
BumpNoReset(r) ==
    /\ run[r].pc = "bump"
    /\ ep' = [ep EXCEPT ![row[run[r].d].ep].fails = IF run[r].ok THEN @ ELSE @ + 1]
    /\ run' = [run EXCEPT ![r] = IF ~run[r].ok /\ Threshold # 0
                                 THEN [run[r] EXCEPT !.pc = "check"] ELSE AfterBump(r)]
    /\ UNCHANGED <<row, queued, pub, tick, edit, posts, acked, streak, mailed,
                   faults, commands, edits>>

\* _bump_endpoint's counter update, an F() expression.
BumpEndpoint(r) ==
    /\ run[r].pc = "bump"
    /\ LET e == row[run[r].d].ep IN
         ep' = [ep EXCEPT ![e].fails = IF run[r].ok THEN 0 ELSE @ + 1]
    /\ run' = [run EXCEPT ![r] = IF ~run[r].ok /\ Threshold # 0
                                 THEN [run[r] EXCEPT !.pc = "check"] ELSE AfterBump(r)]
    /\ UNCHANGED <<row, queued, pub, tick, edit, posts, acked, streak, mailed,
                   faults, commands, edits>>

\* Re-read the endpoint and judge it ...
CheckEndpoint(r) ==
    /\ run[r].pc = "check"
    /\ LET e == row[run[r].d].ep IN
         run' = [run EXCEPT ![r] = IF ep[e].fails >= Threshold /\ ep[e].enabled
                                   THEN [run[r] EXCEPT !.pc = "disable"] ELSE AfterBump(r)]
    /\ UNCHANGED <<row, queued, ep, pub, tick, edit, posts, acked, streak, mailed,
                   faults, commands, edits>>

\* ... and disable it in a statement of its own.
AutoDisable(r) ==
    /\ run[r].pc = "disable"
    /\ ep' = [ep EXCEPT ![row[run[r].d].ep].enabled = FALSE]
    /\ run' = [run EXCEPT ![r] = AfterBump(r)]
    /\ UNCHANGED <<row, queued, pub, tick, edit, posts, acked, streak, mailed,
                   faults, commands, edits>>

NotifyDead(r) ==
    /\ run[r].pc = "notify"
    /\ mailed' = mailed \cup {run[r].d}
    /\ run' = [run EXCEPT ![r] = IdleRun]
    /\ UNCHANGED <<row, queued, ep, pub, tick, edit, posts, acked, streak,
                   faults, commands, edits>>

\* The worker process dies.  The reaper fails its task row and, deliver_webhook
\* having no retry policy, nothing runs it again.
WorkerDies(r) ==
    /\ run[r].pc # "idle" /\ Fault("worker")
    /\ run' = [run EXCEPT ![r] = IdleRun]
    /\ UNCHANGED <<row, queued, ep, pub, tick, edit, posts, acked, streak, mailed, commands, edits>>

----------------------------------------------------------------------------
(* Retrying.                                                               *)

\* The instant next_attempt_at passes.
BecomeDue(d) ==
    /\ row[d].cursor # 0 /\ ~row[d].due
    /\ row' = [row EXCEPT ![d].due = TRUE]
    /\ UNCHANGED <<queued, ep, pub, run, tick, edit, posts, acked, streak, mailed,
                   faults, commands, edits>>

Due == {d \in Ids : row[d].status = "RETRYING" /\ row[d].cursor # 0 /\ row[d].due}

\* run_due_deliveries reads the due rows once, cursors included.
TickList(k) ==
    /\ tick[k] = IdleTick /\ Due # {}
    /\ tick' = [tick EXCEPT ![k].todo = {<<d, row[d].cursor>> : d \in Due}]
    /\ UNCHANGED <<row, queued, ep, pub, run, edit, posts, acked, streak, mailed,
                   faults, commands, edits>>

\* Variant: an unconditional update claims the row.
TickClaimBlind(k) ==
    /\ tick[k].hold = NoId
    /\ \E o \in tick[k].todo :
         /\ row' = [row EXCEPT ![o[1]].status = "PENDING", ![o[1]].cursor = 0, ![o[1]].due = FALSE]
         /\ tick' = [tick EXCEPT ![k] = [todo |-> @.todo \ {o}, hold |-> o[1]]]
    /\ UNCHANGED <<queued, ep, pub, run, edit, posts, acked, streak, mailed,
                   faults, commands, edits>>

\* The atomic conditional claim of one listed row.
TickClaim(k) ==
    /\ tick[k].hold = NoId
    /\ \E o \in tick[k].todo :
         LET d == o[1]  won == row[d].cursor = o[2] IN
         /\ row' = IF won THEN [row EXCEPT ![d].status = "PENDING", ![d].cursor = 0,
                                           ![d].due = FALSE]
                   ELSE row
         /\ tick' = [tick EXCEPT ![k] = [todo |-> @.todo \ {o},
                                         hold |-> IF won THEN d ELSE NoId]]
    /\ UNCHANGED <<queued, ep, pub, run, edit, posts, acked, streak, mailed,
                   faults, commands, edits>>

TickEnqueue(k) ==
    /\ tick[k].hold # NoId
    /\ queued' = [queued EXCEPT ![tick[k].hold] = @ + 1]
    /\ tick' = [tick EXCEPT ![k].hold = NoId]
    /\ UNCHANGED <<row, ep, pub, run, edit, posts, acked, streak, mailed, faults, commands, edits>>

TickEnqueueFails(k) ==
    /\ tick[k].hold # NoId /\ Fault("enqueue")
    /\ tick' = [tick EXCEPT ![k].hold = NoId]
    /\ UNCHANGED <<row, queued, ep, pub, run, edit, posts, acked, streak, mailed, commands, edits>>

\* The cron job or the request that runs the tick is killed.
TickDies(k) ==
    /\ tick[k] # IdleTick /\ Fault("tick")
    /\ tick' = [tick EXCEPT ![k] = IdleTick]
    /\ UNCHANGED <<row, queued, ep, pub, run, edit, posts, acked, streak, mailed, commands, edits>>

----------------------------------------------------------------------------
(* The endpoint form: the view loads the row, the form's save() writes all *)
(* of it back, the counters it did not mean to touch included.             *)

OpenEdit(e) ==
    /\ edit = {} /\ edits < MaxEdits
    /\ edit' = {[e |-> e, fails |-> ep[e].fails]}
    /\ edits' = edits + 1
    /\ UNCHANGED <<row, queued, ep, pub, run, tick, posts, acked, streak, mailed, faults, commands>>

SaveEdit ==
    \E s \in edit, on \in BOOLEAN :
      /\ ep' = [ep EXCEPT ![s.e] = [enabled |-> on, fails |-> s.fails]]
      /\ edit' = {}
      /\ UNCHANGED <<row, queued, pub, run, tick, posts, acked, streak, mailed,
                     faults, commands, edits>>

----------------------------------------------------------------------------
PublisherStep(p) ==
    \/ CreateForEvent(p) \/ CreateForReplay(p) \/ Enqueue(p) \/ CreateFails(p)
RunnerStep(r) ==
    \/ \E d \in Ids : Begin(r, d)
    \/ Send(r) \/ Blocked(r) \/ RecordAttempt(r) \/ BumpEndpoint(r)
    \/ CheckEndpoint(r) \/ AutoDisable(r) \/ NotifyDead(r)
TickStep(k) == TickList(k) \/ TickClaim(k) \/ TickEnqueue(k)

FaultStep ==
    \/ \E p \in Publishers : EnqueueFails(p)
    \/ \E r \in Runners : BodyRaises(r) \/ WorkerDies(r)
    \/ \E k \in Ticks : TickEnqueueFails(k) \/ TickDies(k)

Next ==
    \/ \E p \in Publishers :
         \/ StartFanOut(p) \/ StartReplayDead(p) \/ PublisherStep(p)
         \/ \E d \in Ids : StartReplay(p, d)
         \/ \E e \in Endpoints : CreateForTest(p, e)
    \/ \E r \in Runners : RunnerStep(r)
    \/ \E k \in Ticks : TickStep(k)
    \/ \E d \in Ids : BecomeDue(d)
    \/ \E e \in Endpoints : OpenEdit(e)
    \/ SaveEdit
    \/ FaultStep

Spec == Init /\ [][Next]_vars

\* Requests finish, db_worker keeps working, cron keeps firing, time passes.
\* A worker takes any waiting task in its turn.
Fairness ==
    /\ \A p \in Publishers : WF_vars(PublisherStep(p))
    /\ \A r \in Runners : WF_vars(RunnerStep(r))
    /\ \A d \in Ids : SF_vars(\E r \in Runners : Begin(r, d))
    /\ \A k \in Ticks : WF_vars(TickStep(k))
    /\ \A d \in Ids : WF_vars(BecomeDue(d))

FairSpec == Spec /\ Fairness

----------------------------------------------------------------------------
(* Properties.                                                             *)

\* Every variable keeps its type.
TypeOK ==
    /\ row \in [Ids -> Rows]
    /\ queued \in [Ids -> Nat]
    /\ ep \in [Endpoints -> [enabled : BOOLEAN, fails : Nat]]
    /\ pub \in [Publishers -> Publishing]
    /\ run \in [Runners -> Running]
    /\ tick \in [Ticks -> Ticking]
    /\ edit \in SUBSET [e : Endpoints, fails : Nat]
    /\ posts \in [Ids -> Nat]
    /\ streak \in [Endpoints -> Nat]
    /\ acked \in SUBSET Ids /\ mailed \in SUBSET Ids
    /\ faults \in Nat /\ commands \in Nat /\ edits \in Nat

Sending(r) == run[r].pc \in {"send", "record"}

\* services.py: "two concurrent ticks/workers can never send the same delivery
\* twice".  No two executions of deliver_webhook are ever posting, or about to
\* record, the same delivery, and the one that does is the only task for it.
OneSender ==
    \A r \in Runners : Sending(r) =>
        /\ \A q \in Runners \ {r} : Sending(q) => run[q].d # run[r].d
        /\ queued[run[r].d] = 0

\* deliver_webhook's terminal check and the cursor claim together: once a 2xx
\* has come back, that delivery is never posted again, even if the worker died
\* before it could record the success.
NeverPostedAfterAck == [][\A d \in acked : posts'[d] = posts[d]]_vars

\* An endpoint is switched off (by the code: no form is open in this run) only while its
\* last Threshold attempts all failed, although the count is bumped, read and acted
\* on in three statements.
DisabledOnlyWhileFailing ==
    [][\A e \in Endpoints : ep[e].enabled /\ ~ep'[e].enabled => streak[e] >= Threshold]_vars

\* Every delivery that was created ends as SUCCESS, or DEAD with its failure mailed:
\* the tick turns every retry cursor into a task, and the attempts run out.
DeliverySettles ==
    \A d \in Ids : (row[d].status # "none") ~>
        (row[d].status = "SUCCESS" \/ (row[d].status = "DEAD" /\ d \in mailed))

\* services.py on _enqueue_delivery: "a broker hiccup leaves the row PENDING for
\* the tick to pick up".
PendingPickedUp ==
    \A d \in Ids : (row[d].status = "PENDING") ~> (row[d].status # "PENDING")

----------------------------------------------------------------------------
(* The inductive invariant behind OneSender and NeverPostedAfterAck: the   *)
(* right to send a delivery is one thing, and it is in one place.          *)

\* Who may yet cause delivery d to be posted: a publisher about to enqueue it, its task in the
\* queue, a worker that has not recorded its attempt, the row with its retry cursor, or a
\* tick that has won that cursor.
Holders(d) ==
    ({"publisher"} \X {p \in Publishers : pub[p].pc = "enqueue" /\ pub[p].d = d})
        \cup ({"queue"} \X {i \in {d} : queued[i] > 0})
        \cup ({"worker"} \X {r \in Runners : Sending(r) /\ run[r].d = d})
        \cup ({"cursor"} \X {i \in {d} : row[i].cursor # 0})
        \cup ({"tick"} \X {k \in Ticks : tick[k].hold = d})

OneHolder ==
    \A d \in Ids :
        /\ \A x, y \in Holders(d) : x = y
        /\ queued[d] <= 1
        /\ row[d].status = "none" => Holders(d) = {}

\* Of an acknowledged delivery, only the worker that saw the 2xx may still hold anything.
AckedRests ==
    \A d \in acked :
        /\ row[d].status # "none"
        /\ \A x \in Holders(d) :
              \E r \in Runners : x = <<"worker", r>> /\ run[r].pc = "record" /\ run[r].ok

LocalsSane ==
    /\ \A p \in Publishers : pub[p].pc = "enqueue" => pub[p].d \in Ids
    /\ \A r \in Runners : run[r].pc # "idle" => run[r].d \in Ids /\ run[r].attempt > 0
    /\ \A k \in Ticks : \A o \in tick[k].todo : o[2] # 0

IInv == TypeOK /\ OneHolder /\ AckedRests /\ LocalsSane

=============================================================================
