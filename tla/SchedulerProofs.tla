-------------------------- MODULE SchedulerProofs --------------------------
(***************************************************************************)
(* Proofs about Scheduler, for any number of jobs, ticks, operators,       *)
(* faults and Run-now requests, and once, cron and fixed-interval          *)
(* schedules: no fire happens twice, none is backfilled, and each leaves   *)
(* one row.  An edit form that was opened before a claim writes the old    *)
(* cursor back and the fire repeats, so the theorems about fires assume    *)
(* that no form is open.                                                   *)
(***************************************************************************)
EXTENDS Scheduler, TLAPS, WellFoundedInduction

\* The schedules that need no calendar walk.
Walkless ==
    [type : {"once"}, at : Nat]
      \cup [type : {"cron"}, cron : [every : Nat \ {0}, phase : Nat]]
      \cup [type : {"interval"}, delta : [unit : {"fixed"}, n : Nat \ {0}],
            anchor : Nat \cup {NoTime}]

\* Whole periods and one more pass any gap.
LEMMA OnePeriodMore ==
    ASSUME NEW gap \in Nat, NEW p \in Nat \ {0}
    PROVE  ((gap \div p) + 1) * p \in Nat /\ gap < ((gap \div p) + 1) * p
OBVIOUS

\* The O(1) jump of _step_interval passes the tick (OperationsProofs shows that
\* it also stops at the first such instant).
LEMMA FixedStepPasses ==
    ASSUME NEW anchor \in Nat, NEW p \in Nat \ {0}, NEW after \in Nat
    PROVE  FixedStep(anchor, p, after) \in Nat /\ FixedStep(anchor, p, after) > after
<1>1. CASE after < anchor
  BY <1>1 DEF FixedStep
<1>2. CASE ~ after < anchor
  <2> DEFINE jump == (((after - anchor) \div p) + 1) * p
  <2>1. after - anchor \in Nat
    BY <1>2
  <2>2. jump \in Nat /\ after - anchor < jump
    BY <2>1, OnePeriodMore
  <2>3. FixedStep(anchor, p, after) = anchor + jump
    BY <1>2 DEF FixedStep
  <2> HIDE DEF jump
  <2> QED
    BY <2>2, <2>3
<1> QED
  BY <1>1, <1>2

\* A schedule gives a later instant or none.
LEMMA Later ==
    ASSUME Cadences \subseteq Walkless, NEW c \in Cadences, NEW t \in Nat
    PROVE  /\ NextRun(c, t) \in Times /\ NextRun(c, t) # BadConfig
           /\ NextRun(c, t) # NoTime => NextRun(c, t) > t
<1> SUFFICES NextRun(c, t) = NoTime \/ (NextRun(c, t) \in Nat /\ NextRun(c, t) > t)
  BY DEF Times, NoTime, BadConfig
<1>1. CASE c \in [type : {"once"}, at : Nat]
  BY <1>1 DEF NextRun
<1>2. CASE c \in [type : {"cron"}, cron : [every : Nat \ {0}, phase : Nat]]
  <2> DEFINE wait == (c.cron.phase - (t + 1)) % c.cron.every
  <2>1. wait \in Nat
    BY <1>2
  <2>2. NextRun(c, t) = t + 1 + wait
    BY <1>2 DEF NextRun, CronNext
  <2> HIDE DEF wait
  <2> QED
    BY <2>1, <2>2
<1>3. CASE c \in [type : {"interval"}, delta : [unit : {"fixed"}, n : Nat \ {0}],
                  anchor : Nat \cup {NoTime}]
  <2> DEFINE from == IF c.anchor = NoTime THEN t ELSE c.anchor
  <2>1. from \in Nat /\ c.delta.n \in Nat \ {0}
    BY <1>3
  <2>2. NextRun(c, t) = FixedStep(from, c.delta.n, t)
    BY <1>3 DEF NextRun, StepInterval
  <2> HIDE DEF from
  <2> QED
    BY <2>1, <2>2, FixedStepPasses
<1> QED
  BY <1>1, <1>2, <1>3 DEF Walkless

\* The newest of some runs is one of them.
LEMMA NewestIsOne ==
    ASSUME NEW n \in Nat, NEW S \in SUBSET (1..n), S # {}
    PROVE  Newest(S) \in S
<1> DEFINE R == {ss \in Nat \X Nat : ss[1] < ss[2]}
           D == {n - i : i \in S}
<1>1. D \subseteq Nat /\ D # {}
  <2>1. \A i \in S : n - i \in Nat
    OBVIOUS
  <2>2. PICK i \in S : TRUE
    OBVIOUS
  <2>3. n - i \in D
    OBVIOUS
  <2> QED
    BY <2>1, <2>3
<1>2. IsWellFoundedOn(R, Nat)
  BY NatLessThanWellFounded DEF OpToRel
<1>3. PICK d \in D : \A e \in D : <<e, d>> \notin R
  <2> HIDE DEF R, D
  <2> QED BY <1>1, <1>2, WFMin
<1>4. PICK i \in S : d = n - i
  BY <1>3
<1>5. \A j \in S : j <= i
  <2> TAKE j \in S
  <2>1. n - j \in D /\ n - j \in Nat /\ n - i \in Nat /\ i \in Int /\ j \in Int
    OBVIOUS
  <2>2. ~(n - j < n - i)
    BY <1>3, <1>4, <2>1
  <2> QED BY <2>1, <2>2
<1> QED
  BY <1>5 DEF Newest

\* A process at rest.
LEMMA IdleType == Idle \in Locals
BY DEF Idle, Locals, NoTask

\* A process between two jobs, or at the end of its request.
LEMMA DoneType ==
    ASSUME TypeOK, NEW p \in Procs
    PROVE  /\ Done(p) \in Locals /\ Done(p).j = NoJob /\ Done(p).queued = {}
           /\ Done(p).pc \in {"idle", "loop"}
           /\ Done(p).todo = {} \/ (Done(p).todo = proc[p].todo /\ Done(p).now = proc[p].now)
<1>1. proc[p].todo \in SUBSET (Jobs \X Row) /\ proc[p].now \in Nat
  BY DEF TypeOK, Locals
<1> QED
  BY <1>1 DEF Done, Idle, Locals, NoTask

----------------------------------------------------------------------------
(* Types, and what a process carries.                                      *)

\* The next store is typed, and no run is lost or unsettled.
StoreTyped ==
    /\ now' \in Nat /\ job' \in [Jobs -> Row] /\ run' \in Seq(Runs) /\ task' \in Seq(Tasks)
    /\ claimed' \in SUBSET [job : Jobs, for : Times, now : Nat]
    /\ faults' \in Nat /\ manual' \in Nat /\ edits' \in Nat
    /\ Len(run) <= Len(run')
    /\ \A r \in 1..Len(run) : run[r].status \in {"success", "failed"} =>
                                  run'[r].status \in {"success", "failed"}

\* A step of process p that gives it the local state l and keeps the runs it knows settled.
LEMMA StepTyped ==
    ASSUME Typed, NEW p \in Procs, NEW l \in Locals, proc' = [proc EXCEPT ![p] = l],
           l.pc \in Working \cup {"form"} => l.j \in Jobs /\ l.row \in Row,
           l.queued \subseteq 1..Len(run'),
           l.pc \in {"latest", "reflect", "mail"} =>
               l.r \in 1..Len(run') /\ run'[l.r].status \in {"success", "failed"},
           StoreTyped
    PROVE  Typed'
<1>1. proc' \in [Procs -> Locals] /\ proc'[p] = l /\ \A q \in Procs : q # p => proc'[q] = proc[q]
  BY DEF Typed, TypeOK
<1>2. TypeOK'
  BY <1>1 DEF TypeOK, StoreTyped
<1>3. LocalSane(p)'
  BY <1>1 DEF LocalSane
<1>4. ASSUME NEW q \in Procs, q # p PROVE LocalSane(q)'
  <2>1. LocalSane(q) /\ proc'[q] = proc[q]
    BY <1>1, <1>4 DEF Typed
  <2>2. run \in Seq(Runs) /\ run' \in Seq(Runs) /\ Len(run) \in Nat /\ Len(run') \in Nat
    BY DEF Typed, TypeOK, StoreTyped
  <2>3. 1..Len(run) \subseteq 1..Len(run')
    BY <2>2 DEF StoreTyped
  <2> QED
    BY <2>1, <2>3 DEF LocalSane, StoreTyped
<1> QED
  BY <1>2, <1>3, <1>4 DEF Typed

Pcs == {"idle", "loop", "guard", "skip", "enqueue", "record", "bump", "fail",
        "mark", "form", "promote", "latest", "reflect", "mail", "dead"}

\* A process moves on within what it is doing.
LEMMA GotoTyped ==
    ASSUME Typed, NEW p \in Procs, NEW s \in Pcs, NEW t \in Nat, NEW b \in BOOLEAN,
           proc' = [proc EXCEPT ![p] = [proc[p] EXCEPT !.pc = s, !.task = t, !.invalid = b]],
           s \in Working \cup {"form"} => proc[p].pc \in Working \cup {"form"},
           s \in {"latest", "reflect", "mail"} => proc[p].pc \in {"latest", "reflect", "mail"},
           StoreTyped
    PROVE  Typed'
<1> DEFINE l == [proc[p] EXCEPT !.pc = s, !.task = t, !.invalid = b]
<1>1. proc[p] \in Locals /\ LocalSane(p)
  BY DEF Typed, TypeOK
<1>2. /\ l \in Locals /\ l.pc = s /\ l.j = proc[p].j /\ l.row = proc[p].row
      /\ l.queued = proc[p].queued /\ l.r = proc[p].r
  BY <1>1, ZenonT(60) DEF Locals, Pcs
<1>3. 1..Len(run) \subseteq 1..Len(run')
  <2>1. Len(run) \in Nat /\ Len(run') \in Nat
    BY DEF Typed, TypeOK, StoreTyped
  <2> QED
    BY <2>1 DEF StoreTyped
<1> HIDE DEF l
<1>4. proc' = [proc EXCEPT ![p] = l]
  BY DEF l
<1>5. l.pc \in Working \cup {"form"} => l.j \in Jobs /\ l.row \in Row
  BY <1>1, <1>2 DEF LocalSane
<1>6. l.queued \subseteq 1..Len(run')
  BY <1>1, <1>2, <1>3 DEF LocalSane
<1>7. l.pc \in {"latest", "reflect", "mail"} =>
         l.r \in 1..Len(run') /\ run'[l.r].status \in {"success", "failed"}
  BY <1>1, <1>2, <1>3 DEF LocalSane, StoreTyped
<1> QED
  BY <1>2, <1>4, <1>5, <1>6, <1>7, StepTyped

\* A process only changes its own state.
LEMMA OwnTyped ==
    ASSUME Typed, NEW p \in Procs, NEW l \in Locals, proc' = [proc EXCEPT ![p] = l],
           l.pc \in Working \cup {"form"} => l.j \in Jobs /\ l.row \in Row,
           l.queued \subseteq 1..Len(run),
           l.pc \in {"latest", "reflect", "mail"} =>
               l.r \in 1..Len(run) /\ run[l.r].status \in {"success", "failed"},
           UNCHANGED run, StoreTyped
    PROVE  Typed'
<1>1. run' = run /\ Len(run') = Len(run)
  OBVIOUS
<1>5. l.queued \subseteq 1..Len(run')
  BY <1>1
<1>6. l.pc \in {"latest", "reflect", "mail"} =>
         l.r \in 1..Len(run') /\ run'[l.r].status \in {"success", "failed"}
  BY <1>1
<1> QED
  BY <1>5, <1>6, StepTyped

\* The store keeps its types when no run is written ...
LEMMA SameRuns ==
    ASSUME Typed, UNCHANGED run, now' \in Nat, job' \in [Jobs -> Row], task' \in Seq(Tasks),
           claimed' \in SUBSET [job : Jobs, for : Times, now : Nat],
           faults' \in Nat, manual' \in Nat, edits' \in Nat
    PROVE  StoreTyped
<1>1. run \in Seq(Runs) /\ Len(run) \in Nat /\ run' = run /\ Len(run') = Len(run)
  BY DEF Typed, TypeOK
<1> QED
  BY <1>1 DEF StoreTyped

\* ... when nothing is written ...
LEMMA SameStore ==
    ASSUME Typed, UNCHANGED <<now, job, run, task, claimed, faults, manual, edits>>
    PROVE  StoreTyped
BY SameRuns DEF Typed, TypeOK

\* ... and when a job's row is.
LEMMA JobWritten ==
    ASSUME Typed, job' \in [Jobs -> Row], UNCHANGED <<now, run, task, claimed, faults, manual, edits>>
    PROVE  StoreTyped
BY SameRuns DEF Typed, TypeOK

\* A run is recorded at the end of the history.
LEMMA NewRunTyped ==
    ASSUME Typed, NEW p \in Procs, proc[p].pc \in Working,
           NEW status \in {"queued", "skipped", "failed"}, NEW t \in Nat, NewRun(p, status, t),
           UNCHANGED <<now, job, task, claimed, faults, manual, edits>>
    PROVE  /\ StoreTyped
           /\ run' \in Seq(Runs) /\ Len(run') = Len(run) + 1 /\ Len(run) \in Nat
           /\ \A r \in 1..Len(run) : run'[r] = run[r]
           /\ run'[Len(run')] = [job |-> proc[p].j, status |-> status, for |-> proc[p].row.next,
                                 at |-> now, task |-> t, manual |-> IsManual(p), mails |-> 0]
<1> DEFINE x == [job |-> proc[p].j, status |-> status, for |-> proc[p].row.next,
                 at |-> now, task |-> t, manual |-> IsManual(p), mails |-> 0]
<1>1. proc[p].j \in Jobs /\ proc[p].row \in Row /\ now \in Nat /\ run \in Seq(Runs)
  BY DEF Typed, TypeOK, LocalSane
<1>2. x \in Runs
  <2>1. IsManual(p) \in BOOLEAN
    BY DEF IsManual
  <2>2. proc[p].row.next \in Times /\ 0 \in Nat
    BY <1>1 DEF Row
  <2> QED
    BY <1>1, <2>1, <2>2 DEF Runs
<1>3. run' = Append(run, x)
  BY DEF NewRun
<1> HIDE DEF x
<1>4. /\ run' \in Seq(Runs) /\ Len(run') = Len(run) + 1 /\ Len(run) \in Nat
      /\ \A r \in 1..Len(run) : run'[r] = run[r]
      /\ run'[Len(run')] = x
  BY <1>1, <1>2, <1>3
<1>5. StoreTyped
  <2>1. Len(run) <= Len(run')
    BY <1>4
  <2>2. \A r \in 1..Len(run) : run[r].status \in {"success", "failed"} =>
                                    run'[r].status \in {"success", "failed"}
    BY <1>4
  <2> QED
    BY <1>4, <2>1, <2>2 DEF StoreTyped, Typed, TypeOK
<1> QED
  BY <1>4, <1>5 DEF x

\* Initially everything is typed.
LEMMA TypedInit ==
    ASSUME Cadences \subseteq Walkless
    PROVE  Init => Typed
<1> SUFFICES ASSUME Init PROVE Typed
  OBVIOUS
<1>1. \A c \in Cadences : [enabled |-> TRUE, next |-> NextRun(c, 0), cadence |-> c,
                            total |-> 0, last |-> "blank"] \in Row
  <2> TAKE c \in Cadences
  <2>1. NextRun(c, 0) \in Times
    BY Later
  <2> QED
    BY <2>1 DEF Row
<1>2. job \in [Jobs -> Row]
  BY <1>1 DEF Init, Start
<1>3. proc \in [Procs -> Locals]
  BY IdleType DEF Init, Start
<1>4. \A p \in Procs : LocalSane(p)
  BY DEF Init, Start, LocalSane, Idle, Working
<1> QED
  <2>1. /\ now \in Nat /\ run \in Seq(Runs) /\ task \in Seq(Tasks)
        /\ claimed \in SUBSET [job : Jobs, for : Times, now : Nat]
        /\ faults \in Nat /\ manual \in Nat /\ edits \in Nat
    BY DEF Init, Start
  <2> QED
    BY <1>2, <1>3, <1>4, <2>1 DEF Typed, TypeOK

\* A tick starts, and takes jobs from its list.
LEMMA TickTyped ==
    ASSUME Cadences \subseteq Walkless, Typed, NEW p \in Ticks, TickStart(p) \/ Claim(p)
    PROVE  Typed'
<1>0. /\ p \in Procs /\ proc[p] \in Locals /\ proc[p].todo \subseteq Jobs \X Row
      /\ proc[p].now \in Nat /\ proc[p].queued \subseteq 1..Len(run)
  BY DEF Procs, Typed, TypeOK, LocalSane, Locals
<1>1. CASE TickStart(p)
  <2> DEFINE T == {<<j, job[j]>> : j \in {i \in Jobs : Due(i)}}
             l == [Idle EXCEPT !.pc = "loop", !.now = now, !.todo = T]
  <2>1. T \subseteq Jobs \X Row /\ now \in Nat
    BY DEF Typed, TypeOK
  <2> HIDE DEF T
  <2>2. l \in Locals /\ l.pc = "loop" /\ l.queued = {}
    BY <2>1 DEF Idle, Locals, NoTask
  <2>3. proc' = [proc EXCEPT ![p] = l] /\ UNCHANGED <<store, claimed, counts>>
    BY <1>1 DEF TickStart, T
  <2> HIDE DEF l
  <2> QED
    BY <1>0, <2>2, <2>3, SameStore, OwnTyped DEF store, counts, Working
<1>2. CASE Claim(p)
  <2>1. PICK t \in proc[p].todo :
          LET j == t[1]  row == t[2]  rest == proc[p].todo \ {t}
              new == ComputeNext(j, row.cadence, proc[p].now)
          IN \/ /\ new = BadConfig
                /\ job' = [job EXCEPT ![j].enabled = FALSE, ![j].last = "invalid"]
                /\ proc' = [proc EXCEPT ![p].todo = rest]
                /\ UNCHANGED claimed
             \/ /\ new # BadConfig /\ job[j].next # row.next
                /\ proc' = [proc EXCEPT ![p].todo = rest]
                /\ UNCHANGED <<job, claimed>>
             \/ /\ new # BadConfig /\ job[j].next = row.next
                /\ job' = [job EXCEPT ![j].next = new]
                /\ claimed' = claimed \cup {[job |-> j, for |-> row.next, now |-> proc[p].now]}
                /\ proc' = [proc EXCEPT ![p].pc = "guard", ![p].todo = rest,
                                        ![p].j = j, ![p].row = row]
    BY <1>2 DEF Claim
  <2>2. PICK j, row : t = <<j, row>> /\ j \in Jobs /\ row \in Row
    BY <1>0, <2>1
  <2>3. PICK rest, new : /\ rest = proc[p].todo \ {t}
                         /\ new = ComputeNext(j, row.cadence, proc[p].now)
    OBVIOUS
  <2>4. \/ /\ job' = [job EXCEPT ![j].enabled = FALSE, ![j].last = "invalid"]
           /\ proc' = [proc EXCEPT ![p].todo = rest]
           /\ UNCHANGED claimed
        \/ /\ proc' = [proc EXCEPT ![p].todo = rest]
           /\ UNCHANGED <<job, claimed>>
        \/ /\ new # BadConfig
           /\ job' = [job EXCEPT ![j].next = new]
           /\ claimed' = claimed \cup {[job |-> j, for |-> row.next, now |-> proc[p].now]}
           /\ proc' = [proc EXCEPT ![p].pc = "guard", ![p].todo = rest,
                                   ![p].j = j, ![p].row = row]
    BY <2>1, <2>2, <2>3
  <2>5. proc[p].pc = "loop" /\ UNCHANGED <<now, run, task, counts>>
    BY <1>2 DEF Claim
  <2>6. \A x \in Row : [x EXCEPT !.enabled = FALSE, !.last = "invalid"] \in Row
    BY DEF Row
  <2>7. CASE job' \in [Jobs -> Row] /\ proc' = [proc EXCEPT ![p].todo = rest] /\ UNCHANGED claimed
    <3> DEFINE l == [proc[p] EXCEPT !.todo = rest]
    <3>1. l \in Locals /\ l.pc = "loop" /\ l.queued \subseteq 1..Len(run)
      BY <1>0, <2>3, <2>5 DEF Locals
    <3>2. proc' = [proc EXCEPT ![p] = l]
      BY <2>7
    <3> HIDE DEF l
    <3> QED
      <4>1. StoreTyped
        BY <2>5, <2>7, SameRuns DEF counts, Typed, TypeOK
      <4> QED
        BY <1>0, <2>5, <3>1, <3>2, <4>1, OwnTyped DEF Working
  <2>8. CASE /\ new # BadConfig
             /\ job' = [job EXCEPT ![j].next = new]
             /\ claimed' = claimed \cup {[job |-> j, for |-> row.next, now |-> proc[p].now]}
             /\ proc' = [proc EXCEPT ![p].pc = "guard", ![p].todo = rest,
                                     ![p].j = j, ![p].row = row]
    <3> DEFINE l == [proc[p] EXCEPT !.pc = "guard", !.todo = rest, !.j = j, !.row = row]
    <3>1. /\ l \in Locals /\ l.pc = "guard" /\ l.queued \subseteq 1..Len(run)
          /\ l.j \in Jobs /\ l.row \in Row
      BY <1>0, <2>2, <2>3 DEF Locals
    <3>2. proc' = [proc EXCEPT ![p] = l]
      BY <2>8
    <3>3. row.cadence \in Cadences /\ row.next \in Times
      BY <2>2 DEF Row
    <3>4. new \in Times
      BY <1>0, <2>3, <2>8, <3>3, Later DEF ComputeNext
    <3>5. \A x \in Row : [x EXCEPT !.next = new] \in Row
      BY <3>4 DEF Row
    <3>6. job' \in [Jobs -> Row]
      BY <2>2, <2>8, <3>5 DEF Typed, TypeOK
    <3>7. claimed' \in SUBSET [job : Jobs, for : Times, now : Nat]
      BY <1>0, <2>2, <2>8, <3>3 DEF Typed, TypeOK
    <3> HIDE DEF l
    <3> QED
      <4>1. StoreTyped
        BY <2>5, <3>6, <3>7, SameRuns DEF counts, Typed, TypeOK
      <4> QED
        BY <1>0, <2>5, <3>1, <3>2, <4>1, OwnTyped
  <2>9. [job EXCEPT ![j].enabled = FALSE, ![j].last = "invalid"] \in [Jobs -> Row] /\ job \in [Jobs -> Row]
    BY <2>2, <2>6 DEF Typed, TypeOK
  <2> QED
    BY <2>4, <2>7, <2>8, <2>9
<1> QED
  BY <1>1, <1>2

\* What every step of a process in a given place may take for granted.
LEMMA Known ==
    ASSUME Typed, NEW p \in Procs
    PROVE  /\ now \in Nat /\ job \in [Jobs -> Row] /\ run \in Seq(Runs) /\ task \in Seq(Tasks)
           /\ claimed \in SUBSET [job : Jobs, for : Times, now : Nat]
           /\ faults \in Nat /\ manual \in Nat /\ edits \in Nat
           /\ Len(run) \in Nat /\ Len(task) \in Nat
           /\ proc \in [Procs -> Locals] /\ proc[p] \in Locals /\ LocalSane(p)
           /\ proc[p].task \in Nat /\ proc[p].invalid \in BOOLEAN
BY DEF Typed, TypeOK, Locals

\* A step that only moves p on keeps the types.
LEMMA MoveTyped ==
    ASSUME Typed, NEW p \in Procs, NEW s \in Pcs,
           proc' = [proc EXCEPT ![p].pc = s],
           s \in Working \cup {"form"} => proc[p].pc \in Working \cup {"form"},
           s \in {"latest", "reflect", "mail"} => proc[p].pc \in {"latest", "reflect", "mail"},
           StoreTyped
    PROVE  Typed'
<1>1. proc[p] \in Locals /\ proc[p].task \in Nat /\ proc[p].invalid \in BOOLEAN
  BY Known
<1>2. [proc[p] EXCEPT !.pc = s] = [proc[p] EXCEPT !.pc = s, !.task = proc[p].task, !.invalid = proc[p].invalid]
  BY <1>1 DEF Locals
<1>3. proc' = [proc EXCEPT ![p] = [proc[p] EXCEPT !.pc = s, !.task = proc[p].task,
                                                 !.invalid = proc[p].invalid]]
  BY <1>2, Known
<1> QED
  BY <1>1, <1>3, GotoTyped, ZenonT(60)

\* A step that ends p's work on a job keeps the types.
LEMMA DoneTyped ==
    ASSUME Typed, NEW p \in Procs, proc' = [proc EXCEPT ![p] = Done(p)],
           StoreTyped
    PROVE  Typed'
<1>1. Done(p) \in Locals /\ Done(p).queued = {} /\ Done(p).pc \in {"idle", "loop"}
  BY DoneType DEF Typed
<1>2. Done(p).pc \notin Working \cup {"form"} /\ Done(p).pc \notin {"latest", "reflect", "mail"}
  BY <1>1 DEF Working
<1> QED
  BY <1>1, <1>2, StepTyped

\* The steps of a fire.
LEMMA FireTyped ==
    ASSUME Typed, NEW p \in Procs, Guard(p) \/ RecordSkip(p) \/ FireStep(p)
    PROVE  Typed'
<1>0. /\ now \in Nat /\ job \in [Jobs -> Row] /\ run \in Seq(Runs) /\ task \in Seq(Tasks)
      /\ claimed \in SUBSET [job : Jobs, for : Times, now : Nat]
      /\ faults \in Nat /\ manual \in Nat /\ edits \in Nat
      /\ Len(run) \in Nat /\ Len(task) \in Nat
      /\ proc \in [Procs -> Locals] /\ proc[p] \in Locals /\ LocalSane(p)
      /\ proc[p].task \in Nat /\ proc[p].invalid \in BOOLEAN
  BY Known
<1>1. ASSUME NEW s \in Working, proc[p].pc \in Working, proc' = [proc EXCEPT ![p].pc = s],
             UNCHANGED <<now, job, run, task, claimed, faults, manual, edits>>
      PROVE  Typed'
  <2>1. s \in Pcs /\ s \notin {"latest", "reflect", "mail"}
    BY DEF Working, Pcs
  <2> QED
    BY <1>1, <2>1, SameStore, MoveTyped
<1>2. CASE Guard(p)
  <2>1. proc[p].pc \in Working /\ UNCHANGED <<now, job, run, task, claimed, faults, manual, edits>>
    BY <1>2 DEF Guard, Working, store, counts
  <2>2. \E s \in {"skip", "enqueue"} : proc' = [proc EXCEPT ![p].pc = s]
    BY <1>2 DEF Guard, Goto
  <2>3. {"skip", "enqueue"} \subseteq Working
    BY DEF Working
  <2> QED
    BY <1>1, <2>1, <2>2, <2>3
<1>3. CASE RecordSkip(p)
  <2>1. proc[p].pc \in Working /\ NewRun(p, "skipped", NoTask) /\ NoTask \in Nat
    BY <1>3 DEF RecordSkip, Working, NoTask
  <2>2. StoreTyped
    BY <1>3, <2>1, NewRunTyped DEF RecordSkip, counts
  <2> QED
    BY <1>3, <2>2, DoneTyped DEF RecordSkip
<1>4. CASE Enqueue(p)
  <2>1. proc[p].pc \in Working
    BY <1>4 DEF Enqueue, Working
  <2>2. proc[p].j \in Jobs /\ proc[p].row \in Row
    BY <1>0, <2>1 DEF LocalSane
  <2>3. [job |-> proc[p].j, for |-> proc[p].row.next, status |-> "live", manual |-> IsManual(p)] \in Tasks
    <3>1. IsManual(p) \in BOOLEAN
      BY DEF IsManual
    <3>2. proc[p].row.next \in Times
      BY <2>2 DEF Row
    <3> QED
      BY <2>2, <3>1, <3>2 DEF Tasks
  <2>4. task' \in Seq(Tasks) /\ Len(task') \in Nat
    BY <1>0, <1>4, <2>3 DEF Enqueue
  <2>5. proc' = [proc EXCEPT ![p] = [proc[p] EXCEPT !.pc = "record", !.task = Len(task'),
                                                   !.invalid = proc[p].invalid]]
    <3>1. [proc[p] EXCEPT !.pc = "record", !.task = Len(task')]
            = [proc[p] EXCEPT !.pc = "record", !.task = Len(task'), !.invalid = proc[p].invalid]
      BY <1>0 DEF Locals
    <3>2. proc' = [proc EXCEPT ![p].pc = "record", ![p].task = Len(task')]
      BY <1>4 DEF Enqueue
    <3> QED
      BY <1>0, <3>1, <3>2
  <2>6. "record" \in Pcs /\ "record" \in Working
    BY DEF Pcs, Working
  <2> QED
    <3>1. StoreTyped
      BY <1>0, <1>4, <2>4, SameRuns DEF Enqueue, counts
    <3> QED
      BY <1>0, <2>1, <2>4, <2>5, <2>6, <3>1, GotoTyped
<1>5. CASE EnqueueUnresolvable(p)
  <2>1. proc[p].pc \in Working /\ UNCHANGED <<now, job, run, task, claimed, faults, manual, edits>>
    BY <1>5 DEF EnqueueUnresolvable, Working, store, counts
  <2>2. CASE IsManual(p)
    <3>1. proc' = [proc EXCEPT ![p] = Done(p)]
      BY <1>5, <2>2 DEF EnqueueUnresolvable, Done
    <3> QED
      BY <2>1, <3>1, SameStore, DoneTyped
  <2>3. CASE ~IsManual(p)
    <3>1. proc' = [proc EXCEPT ![p] = [proc[p] EXCEPT !.pc = "fail", !.task = proc[p].task, !.invalid = TRUE]]
      <4>1. [proc[p] EXCEPT !.pc = "fail", !.invalid = TRUE]
              = [proc[p] EXCEPT !.pc = "fail", !.task = proc[p].task, !.invalid = TRUE]
        BY <1>0 DEF Locals
      <4> QED
        BY <1>5, <2>3, <4>1 DEF EnqueueUnresolvable
    <3>2. "fail" \in Pcs /\ "fail" \in Working
      BY DEF Pcs, Working
    <3> QED
      BY <1>0, <2>1, <3>1, <3>2, SameStore, GotoTyped
  <2> QED
    BY <2>2, <2>3
<1>6. CASE RecordQueued(p)
  <2>1. proc[p].pc \in Working /\ NewRun(p, "queued", proc[p].task)
    BY <1>6 DEF RecordQueued, Working
  <2>2. StoreTyped
    BY <1>0, <1>6, <2>1, NewRunTyped DEF RecordQueued, counts
  <2>3. "bump" \in Pcs /\ "bump" \in Working
    BY DEF Pcs, Working
  <2> QED
    BY <1>6, <2>1, <2>2, <2>3, MoveTyped DEF RecordQueued, Goto
<1>7. CASE RecordFailure(p)
  <2>1. proc[p].pc \in Working /\ NewRun(p, "failed", NoTask) /\ NoTask \in Nat
    BY <1>7 DEF RecordFailure, Working, NoTask
  <2>2. StoreTyped
    BY <1>7, <2>1, NewRunTyped DEF RecordFailure, counts
  <2>3. "mark" \in Pcs /\ "mark" \in Working
    BY DEF Pcs, Working
  <2> QED
    BY <1>7, <2>1, <2>2, <2>3, MoveTyped DEF RecordFailure, Goto
<1>8. \A x \in Row, n \in Nat : [x EXCEPT !.last = "queued", !.total = n] \in Row
  BY DEF Row
<1>9. CASE Bump(p)
  <2>1. proc[p].j \in Jobs
    BY <1>0, <1>9 DEF Bump, LocalSane, Working
  <2>2. job[proc[p].j] \in Row /\ job[proc[p].j].total \in Nat
    BY <1>0, <2>1 DEF Row
  <2>3. [job[proc[p].j] EXCEPT !.last = "queued", !.total = @ + 1] \in Row
    <3>1. job[proc[p].j].total + 1 \in Nat
      BY <2>2
    <3> QED
      BY <1>8, <2>2, <3>1
  <2>4. job' \in [Jobs -> Row]
    BY <1>0, <1>9, <2>1, <2>3 DEF Bump
  <2> QED
    BY <1>9, <2>4, JobWritten, DoneTyped DEF Bump, counts
<1>10. CASE MarkFailure(p)
  <2>1. proc[p].j \in Jobs
    BY <1>0, <1>10 DEF MarkFailure, LocalSane, Working
  <2>2. job[proc[p].j] \in Row
    BY <1>0, <2>1
  <2>3. /\ [job[proc[p].j] EXCEPT !.enabled = FALSE, !.last = "invalid"] \in Row
        /\ [job[proc[p].j] EXCEPT !.last = "failed"] \in Row
    BY <2>2 DEF Row
  <2>4. job' \in [Jobs -> Row]
    BY <1>0, <1>10, <2>1, <2>3 DEF MarkFailure
  <2> QED
    BY <1>10, <2>4, JobWritten, DoneTyped DEF MarkFailure, counts
<1> QED
  BY <1>2, <1>3, <1>4, <1>5, <1>6, <1>7, <1>9, <1>10 DEF FireStep

\* The reconcile pass.
LEMMA ReconcileTyped ==
    ASSUME Typed, NEW p \in Procs,
           \/ ListQueued(p) \/ ReconcileDone(p) \/ Promote(p) \/ CheckLatest(p)
           \/ Reflect(p) \/ MailFailure(p)
    PROVE  Typed'
<1>0. /\ now \in Nat /\ job \in [Jobs -> Row] /\ run \in Seq(Runs) /\ task \in Seq(Tasks)
      /\ claimed \in SUBSET [job : Jobs, for : Times, now : Nat]
      /\ faults \in Nat /\ manual \in Nat /\ edits \in Nat
      /\ Len(run) \in Nat /\ Len(task) \in Nat
      /\ proc \in [Procs -> Locals] /\ proc[p] \in Locals /\ LocalSane(p)
  BY Known
<1>1. \A s \in {"idle", "promote", "latest", "reflect", "mail"} : s \notin Working \cup {"form"} /\ s \in Pcs
  BY DEF Working, Pcs
<1>2. CASE ListQueued(p)
  <2> DEFINE Q == {r \in 1..Len(run) : run[r].status = "queued" /\ run[r].task # NoTask}
             l == [Idle EXCEPT !.pc = "promote", !.queued = Q]
  <2>1. Q \subseteq 1..Len(run) /\ Q \subseteq Nat
    BY <1>0
  <2> HIDE DEF Q
  <2>2. l \in Locals /\ l.pc = "promote" /\ l.queued = Q
    BY <2>1 DEF Idle, Locals, NoTask
  <2>3. proc' = [proc EXCEPT ![p] = l]
    BY <1>2 DEF ListQueued, Q
  <2>4. StoreTyped /\ UNCHANGED run
    BY <1>2, SameStore DEF ListQueued, store, counts
  <2> HIDE DEF l
  <2> QED
    BY <1>1, <2>1, <2>2, <2>3, <2>4, OwnTyped
<1>3. CASE ReconcileDone(p)
  <2>1. Idle.pc = "idle" /\ Idle.queued = {}
    BY DEF Idle
  <2>2. StoreTyped /\ UNCHANGED run
    BY <1>3, SameStore DEF ReconcileDone, store, counts
  <2> QED
    BY <1>1, <1>3, <2>1, <2>2, IdleType, OwnTyped DEF ReconcileDone
<1>4. CASE Promote(p)
  <2>1. PICK r, st : r = Newest(proc[p].queued) /\ st = task[run[r].task].status
    OBVIOUS
  <2>2. proc[p].pc = "promote" /\ proc[p].queued # {} /\ proc[p].queued \subseteq 1..Len(run)
    BY <1>0, <1>4 DEF Promote, LocalSane
  <2>3. r \in proc[p].queued /\ r \in 1..Len(run) /\ r \in Nat
    <3>1. proc[p].queued \in SUBSET (1..Len(run))
      BY <2>2
    <3>2. Newest(proc[p].queued) \in proc[p].queued
      BY <1>0, <2>2, <3>1, NewestIsOne
    <3> QED
      BY <1>0, <2>1, <3>1, <3>2
  <2>4. UNCHANGED <<now, job, task, claimed, faults, manual, edits>>
    BY <1>4 DEF Promote, counts
  <2>5. CASE st \in DOMAIN Terminal
    <3> DEFINE l == [proc[p] EXCEPT !.pc = "latest", !.r = r, !.queued = @ \ {r}]
    <3>1. Terminal[st] \in {"success", "failed"}
      BY <2>5 DEF Terminal
    <3>2. run' = [run EXCEPT ![r].status = Terminal[st]]
      BY <1>4, <2>1, <2>5 DEF Promote
    <3>3. [run[r] EXCEPT !.status = Terminal[st]] \in Runs
          /\ [run[r] EXCEPT !.status = Terminal[st]].status = Terminal[st]
      <4>1. run[r] \in Runs
        BY <1>0, <2>3
      <4> QED
        BY <3>1, <4>1 DEF Runs
    <3>4. run' \in Seq(Runs) /\ Len(run') = Len(run)
      BY <1>0, <2>3, <3>2, <3>3
    <3>5. run'[r].status \in {"success", "failed"} /\ \A s \in 1..Len(run) : s # r => run'[s] = run[s]
      BY <1>0, <2>3, <3>1, <3>2, <3>3
    <3>6. StoreTyped
      <4>1. \A s \in 1..Len(run) : run[s].status \in {"success", "failed"} =>
                                        run'[s].status \in {"success", "failed"}
        BY <3>5
      <4> QED
        BY <1>0, <2>4, <3>4, <4>1 DEF StoreTyped
    <3>7. /\ l \in Locals /\ l.pc = "latest" /\ l.r = r /\ l.queued = proc[p].queued \ {r}
      BY <1>0, <2>3 DEF Locals
    <3>8. proc' = [proc EXCEPT ![p] = l]
      BY <1>0, <1>4, <2>1, <2>5 DEF Promote
    <3> HIDE DEF l
    <3>9. l.queued \subseteq 1..Len(run') /\ l.r \in 1..Len(run')
      BY <2>2, <2>3, <3>4, <3>7
    <3> QED
      BY <1>1, <3>5, <3>6, <3>7, <3>8, <3>9, StepTyped
  <2>6. CASE st \notin DOMAIN Terminal
    <3> DEFINE l == [proc[p] EXCEPT !.queued = @ \ {r}]
    <3>1. l \in Locals /\ l.pc = "promote" /\ l.queued \subseteq 1..Len(run)
      BY <1>0, <2>2 DEF Locals
    <3>2. proc' = [proc EXCEPT ![p] = l] /\ UNCHANGED run
      BY <1>0, <1>4, <2>1, <2>6 DEF Promote
    <3>3. StoreTyped
      BY <2>4, <3>2, SameStore
    <3> HIDE DEF l
    <3> QED
      BY <1>1, <3>1, <3>2, <3>3, OwnTyped
  <2> QED
    BY <2>5, <2>6
<1>5. CASE CheckLatest(p)
  <2>1. StoreTyped /\ proc[p].pc = "latest"
    BY <1>5, SameStore DEF CheckLatest, store, counts
  <2>2. \E s \in {"reflect", "mail", "promote"} : proc' = [proc EXCEPT ![p].pc = s]
    BY <1>5 DEF CheckLatest, Goto, AfterReflect
  <2> QED
    BY <1>1, <2>1, <2>2, MoveTyped
<1>6. CASE Reflect(p)
  <2>1. proc[p].r \in 1..Len(run) /\ run[proc[p].r].status \in {"success", "failed"} /\ proc[p].pc = "reflect"
    BY <1>0, <1>6 DEF Reflect, LocalSane
  <2>2. run[proc[p].r].job \in Jobs
    <3>1. run[proc[p].r] \in Runs
      BY <1>0, <2>1
    <3> QED
      BY <3>1 DEF Runs
  <2>3. \A x \in Row, s \in {"success", "failed"} : [x EXCEPT !.last = s] \in Row
    BY DEF Row
  <2>4. job' \in [Jobs -> Row]
    BY <1>0, <1>6, <2>1, <2>2, <2>3 DEF Reflect
  <2>5. StoreTyped
    BY <1>6, <2>4, JobWritten DEF Reflect, counts
  <2>6. \E s \in {"mail", "promote"} : proc' = [proc EXCEPT ![p].pc = s]
    BY <1>6 DEF Reflect, Goto, AfterReflect
  <2> QED
    BY <1>1, <2>1, <2>5, <2>6, MoveTyped
<1>7. CASE MailFailure(p)
  <2>1. PICK r : r = proc[p].r
    OBVIOUS
  <2>2. r \in 1..Len(run) /\ run[r].status \in {"success", "failed"} /\ proc[p].pc = "mail"
    BY <1>0, <1>7, <2>1 DEF MailFailure, LocalSane
  <2>3. run[r] \in Runs /\ run' = [run EXCEPT ![r] = [run[r] EXCEPT !.mails = @ + 1]]
    BY <1>0, <1>7, <2>1, <2>2 DEF MailFailure
  <2>4. /\ [run[r] EXCEPT !.mails = @ + 1] \in Runs
        /\ [run[r] EXCEPT !.mails = @ + 1].status = run[r].status
    BY <2>3 DEF Runs
  <2>5. run' \in Seq(Runs) /\ Len(run') = Len(run)
    BY <1>0, <2>2, <2>3, <2>4
  <2>6. \A s \in 1..Len(run) : run'[s].status = run[s].status
    BY <1>0, <2>2, <2>3, <2>4
  <2>7. StoreTyped
    BY <1>0, <1>7, <2>5, <2>6 DEF MailFailure, StoreTyped, counts
  <2> QED
    BY <1>1, <1>7, <2>7, MoveTyped DEF MailFailure, Goto
<1> QED
  BY <1>2, <1>3, <1>4, <1>5, <1>6, <1>7

\* Run-now and the edit form.
LEMMA OperatorTyped ==
    ASSUME Cadences \subseteq Walkless, Typed, NEW p \in Procs,
           \/ EditSave(p)
           \/ \E j \in Jobs : RunNow(p, j)
           \/ \E j \in Jobs, e \in BOOLEAN, c \in Cadences : EditLoad(p, j, e, c)
    PROVE  Typed'
<1>0. /\ now \in Nat /\ job \in [Jobs -> Row] /\ run \in Seq(Runs) /\ task \in Seq(Tasks)
      /\ claimed \in SUBSET [job : Jobs, for : Times, now : Nat]
      /\ faults \in Nat /\ manual \in Nat /\ edits \in Nat
      /\ proc \in [Procs -> Locals] /\ LocalSane(p)
  BY Known
<1>1. ASSUME NEW s \in {"enqueue", "form"}, NEW j \in Jobs, NEW row \in Row,
             proc' = [proc EXCEPT ![p] = [Idle EXCEPT !.pc = s, !.j = j, !.row = row]],
             manual' \in Nat, edits' \in Nat, UNCHANGED <<store, claimed, faults>>
      PROVE  Typed'
  <2> DEFINE l == [Idle EXCEPT !.pc = s, !.j = j, !.row = row]
  <2>1. l \in Locals /\ l.pc = s /\ l.j = j /\ l.row = row /\ l.queued = {}
    BY DEF Idle, Locals, NoTask
  <2>2. StoreTyped /\ UNCHANGED run
    BY <1>0, <1>1, SameRuns DEF store
  <2> HIDE DEF l
  <2>3. proc' = [proc EXCEPT ![p] = l]
    BY <1>1 DEF l
  <2> QED
    BY <2>1, <2>2, <2>3, OwnTyped
<1>2. ASSUME NEW j \in Jobs, RunNow(p, j) PROVE Typed'
  <2>1. [job[j] EXCEPT !.next = now] \in Row
    <3>1. job[j] \in Row /\ now \in Times
      BY <1>0 DEF Times
    <3> QED
      BY <3>1 DEF Row
  <2>2. manual' \in Nat /\ edits' \in Nat /\ UNCHANGED <<store, claimed, faults>>
    <3>1. UNCHANGED <<store, claimed, faults>>
      BY <1>2 DEF RunNow
    <3>2. manual' = manual + 1 \/ manual' = manual
      BY <1>2 DEF RunNow
    <3>3. edits' = edits + 1 \/ edits' = edits
      BY <1>2 DEF RunNow
    <3> QED
      BY <1>0, <3>1, <3>2, <3>3
  <2> QED
    BY <1>1, <1>2, <2>1, <2>2 DEF RunNow
<1>3. ASSUME NEW j \in Jobs, NEW e \in BOOLEAN, NEW c \in Cadences, EditLoad(p, j, e, c) PROVE Typed'
  <2>1. [job[j] EXCEPT !.enabled = e, !.cadence = c] \in Row
    <3>1. job[j] \in Row
      BY <1>0
    <3> QED
      BY <3>1 DEF Row
  <2>2. manual' \in Nat /\ edits' \in Nat /\ UNCHANGED <<store, claimed, faults>>
    <3>1. UNCHANGED <<store, claimed, faults>>
      BY <1>3 DEF EditLoad
    <3>2. manual' = manual + 1 \/ manual' = manual
      BY <1>3 DEF EditLoad
    <3>3. edits' = edits + 1 \/ edits' = edits
      BY <1>3 DEF EditLoad
    <3> QED
      BY <1>0, <3>1, <3>2, <3>3
  <2> QED
    BY <1>1, <1>3, <2>1, <2>2 DEF EditLoad
<1>4. CASE EditSave(p)
  <2>1. PICK j, row, n : /\ j = proc[p].j /\ row = proc[p].row
                         /\ n = IF row.enabled /\ (row.next = NoTime \/ job[j].cadence # row.cadence)
                                THEN IF ComputeNext(j, row.cadence, now) = BadConfig THEN NoTime
                                     ELSE ComputeNext(j, row.cadence, now)
                                ELSE row.next
    OBVIOUS
  <2>2. j \in Jobs /\ row \in Row
    BY <1>0, <1>4, <2>1 DEF EditSave, LocalSane
  <2>3. n \in Times
    <3>1. row.next \in Times /\ row.cadence \in Cadences /\ NoTime \in Times
      BY <2>2 DEF Row, Times
    <3>2. ComputeNext(j, row.cadence, now) = BadConfig \/ ComputeNext(j, row.cadence, now) \in Times
      BY <1>0, <3>1, Later DEF ComputeNext
    <3> QED
      BY <2>1, <3>1, <3>2
  <2>4. [row EXCEPT !.next = n] \in Row
    BY <2>2, <2>3 DEF Row
  <2>5. job' = [job EXCEPT ![j] = [row EXCEPT !.next = n]]
    BY <1>4, <2>1 DEF EditSave
  <2>6. job' \in [Jobs -> Row]
    BY <1>0, <2>2, <2>4, <2>5
  <2>7. StoreTyped /\ UNCHANGED run
    BY <1>4, <2>6, JobWritten DEF EditSave, counts
  <2>8. Idle.pc = "idle" /\ Idle.queued = {} /\ Idle.pc \notin Working \cup {"form"}
    BY DEF Idle, Working
  <2> QED
    BY <1>4, <2>7, <2>8, IdleType, OwnTyped DEF EditSave
<1> QED
  BY <1>2, <1>3, <1>4

\* Failures and the environment.
LEMMA WorldTyped ==
    ASSUME Typed,
           \/ \E p \in Procs : StatementFails(p) \/ Die(p)
           \/ \E t \in 1..Len(task) : TaskEnds(t)
           \/ Tock \/ UNCHANGED vars
    PROVE  Typed'
<1>0. /\ now \in Nat /\ job \in [Jobs -> Row] /\ run \in Seq(Runs) /\ task \in Seq(Tasks)
      /\ claimed \in SUBSET [job : Jobs, for : Times, now : Nat]
      /\ faults \in Nat /\ manual \in Nat /\ edits \in Nat
  BY DEF Typed, TypeOK
<1>1. ASSUME NEW p \in Procs, StatementFails(p) PROVE Typed'
  <2>1. StoreTyped
    BY <1>0, <1>1, SameRuns DEF StatementFails, store
  <2>2. CASE proc' = [proc EXCEPT ![p] = Done(p)]
    BY <2>1, <2>2, DoneTyped
  <2>3. CASE /\ proc[p].pc \in {"enqueue", "record", "bump"}
             /\ proc' = [proc EXCEPT ![p] = [proc[p] EXCEPT !.pc = "fail"]]
    <3>1. "fail" \in Pcs /\ proc[p].pc \in Working
      BY <2>3 DEF Pcs, Working
    <3> QED
      BY <2>1, <2>3, <3>1, MoveTyped
  <2> QED
    BY <1>1, <2>2, <2>3 DEF StatementFails
<1>2. ASSUME NEW p \in Procs, Die(p) PROVE Typed'
  <2>1. StoreTyped /\ proc' = [proc EXCEPT ![p].pc = "dead"]
    BY <1>0, <1>2, SameRuns DEF Die, store
  <2>2. "dead" \in Pcs /\ "dead" \notin Working \cup {"form"}
    BY DEF Pcs, Working
  <2> QED
    BY <2>1, <2>2, MoveTyped
<1>3. ASSUME NEW t \in 1..Len(task), TaskEnds(t) PROVE Typed'
  <2>1. PICK st \in {"SUCCESSFUL", "FAILED"} : task' = [task EXCEPT ![t].status = st]
    BY <1>3 DEF TaskEnds
  <2>2. [task[t] EXCEPT !.status = st] \in Tasks
    <3>1. task[t] \in Tasks
      BY <1>0
    <3> QED
      BY <3>1 DEF Tasks
  <2>3. task' \in Seq(Tasks)
    BY <1>0, <2>1, <2>2
  <2> QED
    BY <1>3, <2>3 DEF TaskEnds, counts, Typed, TypeOK, LocalSane
<1>4. CASE Tock
  BY <1>0, <1>4 DEF Tock, counts, Typed, TypeOK, LocalSane
<1>5. CASE UNCHANGED vars
  BY <1>5 DEF vars, Typed, TypeOK, LocalSane
<1> QED
  BY <1>1, <1>2, <1>3, <1>4, <1>5

\* Every step keeps the types.
LEMMA TypedKept ==
    ASSUME Cadences \subseteq Walkless
    PROVE  Typed /\ [Next]_vars => Typed'
<1>1. Ticks \subseteq Procs /\ Operators \subseteq Procs
  BY DEF Procs
<1> QED
  BY <1>1, TickTyped, FireTyped, ReconcileTyped, OperatorTyped, WorldTyped
     DEF Next, TickStep, OperatorStep

\* Every variable keeps its type, edits included (models.py, services.py).
THEOREM TypeCorrect ==
    ASSUME Cadences \subseteq Walkless
    PROVE  Spec => []TypeOK
<1>1. Init => Typed
  BY TypedInit
<1>2. Typed /\ [Next]_vars => Typed'
  BY TypedKept
<1>3. Typed => TypeOK
  BY DEF Typed
<1> QED
  BY <1>1, <1>2, <1>3, PTL DEF Spec

----------------------------------------------------------------------------
(* Fires happen once.                                                      *)

\* The rows a tick has listed were due.
AllDue(l) == \A t \in l.todo : t[2].next \in Nat /\ t[2].next <= l.now

\* Process p goes to l without a new fire in hand.
Calm(p, l) ==
    /\ proc' = [proc EXCEPT ![p] = l]
    /\ p \in Ticks =>
          /\ l.pc \in Working \cup {"dead"} => l.j = proc[p].j /\ l.row = proc[p].row
          /\ l.pc \in Working => proc[p].pc \in Working
          /\ l.pc \in Unfired => proc[p].pc \in Unfired
          /\ l.pc \notin Working \cup {"dead"} =>
                l.j = NoJob \/ (l.j = proc[p].j /\ proc[p].pc \notin Working \cup {"dead"})
          /\ AllDue(l)

\* No tick's task is new.
SameTasks ==
    \A t \in 1..Len(task') : ~task'[t].manual =>
        /\ t \in 1..Len(task) /\ ~task[t].manual
        /\ task'[t].job = task[t].job /\ task'[t].for = task[t].for

SameCursors == \A j \in Jobs : job'[j].next = job[j].next

\* What Calm says of every tick.
LEMMA CalmTicks ==
    ASSUME Typed, FireInv, NEW p \in Procs, NEW l, Calm(p, l), NEW q \in Ticks
    PROVE  /\ proc'[q].pc \in Working \cup {"dead"} =>
                 proc'[q].j = proc[q].j /\ proc'[q].row = proc[q].row
           /\ proc'[q].pc \in Working => proc[q].pc \in Working
           /\ proc'[q].pc \in Unfired => proc[q].pc \in Unfired
           /\ AllDue(proc'[q])
<1>1. q \in Procs /\ proc \in [Procs -> Locals]
  BY DEF Procs, Typed, TypeOK
<1>2. CASE q = p
  BY <1>1, <1>2 DEF Calm
<1>3. CASE q # p
  <2>1. proc'[q] = proc[q]
    BY <1>1, <1>3 DEF Calm
  <2> QED
    BY <2>1 DEF FireInv, ListsDue, AllDue
<1> QED
  BY <1>2, <1>3

\* Such a step, without a claim or a task, keeps the invariant.
LEMMA FireFrame ==
    ASSUME Typed, FireInv, SameTasks, SameCursors, UNCHANGED claimed,
           \A q \in Ticks :
               /\ proc'[q].pc \in Working \cup {"dead"} =>
                     proc'[q].j = proc[q].j /\ proc'[q].row = proc[q].row
               /\ proc'[q].pc \in Working => proc[q].pc \in Working
               /\ proc'[q].pc \in Unfired => proc[q].pc \in Unfired
               /\ AllDue(proc'[q])
    PROVE  FireInv'
<1>1. CursorAhead'
  BY DEF FireInv, CursorAhead, SameCursors, Typed, TypeOK
<1>2. NoBackfill'
  BY DEF FireInv, NoBackfill
<1>3. ListsDue'
  BY DEF ListsDue, AllDue
<1>4. \A j, f : Claims(j, f)' = Claims(j, f)
  BY DEF Claims
<1>5. \A j, f : TasksOf(j, f) = {} => TasksOf(j, f)' = {}
  BY DEF TasksOf, SameTasks
<1>6. HandsClaimed'
  BY <1>4 DEF FireInv, HandsClaimed, Hand
<1>7. TasksClaimed'
  <2>1. ASSUME NEW t \in 1..Len(task'), ~task'[t].manual
        PROVE  (Claims(task[t].job, task[t].for) # {})'
    <3>1. /\ t \in 1..Len(task) /\ ~task[t].manual
          /\ task'[t].job = task[t].job /\ task'[t].for = task[t].for
      BY <2>1 DEF SameTasks
    <3>2. Claims(task[t].job, task[t].for) # {}
      BY <3>1 DEF FireInv, TasksClaimed
    <3> QED
      BY <3>1, <3>2 DEF Claims
  <2>2. ASSUME NEW q \in Ticks, proc'[q].pc \in Unfired
        PROVE  (TasksOf(proc[q].j, proc[q].row.next) = {})'
    <3>1. proc[q].pc \in Unfired /\ proc'[q].j = proc[q].j /\ proc'[q].row = proc[q].row
      BY <2>2 DEF Unfired, Working
    <3>2. TasksOf(proc[q].j, proc[q].row.next) = {}
      BY <3>1 DEF FireInv, TasksClaimed
    <3> QED
      BY <3>1, <3>2 DEF TasksOf, SameTasks
  <2> QED
    BY <2>1, <2>2 DEF TasksClaimed
<1>8. FiresOnce'
  BY DEF FireInv, FiresOnce, SameTasks
<1> QED
  BY <1>1, <1>2, <1>3, <1>6, <1>7, <1>8 DEF FireInv

\* Tick p wins the claim on the fire it has listed in row, at its time t, and the cursor moves
\* on to new.
Wins(p, j, row, new, t, l) ==
    /\ row.next \in Nat /\ row.next <= t /\ job[j].next = row.next
    /\ job' = [job EXCEPT ![j].next = new]
    /\ new = NoTime \/ new > t
    /\ claimed' = claimed \cup {[job |-> j, for |-> row.next, now |-> t]}
    /\ proc[p].pc = "loop" /\ proc' = [proc EXCEPT ![p] = l]
    /\ l.pc = "guard" /\ l.j = j /\ l.row = row /\ AllDue(l)
    /\ UNCHANGED <<now, run, task, faults, manual, edits>>

\* Nobody has claimed a fire that the cursor still stands at.
LEMMA ClaimIsNew ==
    ASSUME Typed, CursorAhead, NEW j \in Jobs, job[j].next # NoTime
    PROVE  /\ Claims(j, job[j].next) = {}
           /\ \A c \in claimed : c.job = j => c.now < job[j].next
<1>1. \A c \in claimed : c.job = j => c.now < job[j].next /\ c.for <= c.now /\ c.for \in Nat
  BY DEF CursorAhead
<1>2. \A c \in claimed : c.now \in Nat
  BY DEF Typed, TypeOK
<1>3. job[j].next \in Nat
  BY DEF Typed, TypeOK, Row, Times, NoTime
<1>4. \A c \in claimed : c.job = j => c.for # job[j].next
  BY <1>1, <1>2, <1>3
<1> QED
  BY <1>1, <1>4 DEF Claims

\* Winning a claim keeps the invariant.
LEMMA WinFires ==
    ASSUME Typed, Typed', FireInv, NEW p \in Ticks, NEW j \in Jobs, NEW row, NEW new \in Times,
           NEW t \in Nat, NEW l, Wins(p, j, row, new, t, l)
    PROVE  FireInv'
<1> DEFINE c0 == [job |-> j, for |-> row.next, now |-> t]
<1>0. /\ p \in Procs /\ proc \in [Procs -> Locals] /\ job \in [Jobs -> Row]
      /\ claimed \in SUBSET [job : Jobs, for : Times, now : Nat]
  BY DEF Procs, Typed, TypeOK
<1>1. proc'[p] = l /\ \A q \in Ticks : q # p => proc'[q] = proc[q]
  BY <1>0 DEF Wins, Procs
<1>2. job[j].next = row.next /\ row.next # NoTime /\ row.next \in Nat /\ row.next <= t
  BY DEF Wins, NoTime
<1>3. Claims(j, row.next) = {} /\ \A c \in claimed : c.job = j => c.now < row.next
  BY <1>2, ClaimIsNew DEF FireInv
<1>4. claimed' = claimed \cup {c0} /\ c0.job = j /\ c0.for = row.next /\ c0.now = t
  BY DEF Wins
<1>5. job'[j].next = new /\ \A i \in Jobs : i # j => job'[i] = job[i]
  <2>1. job[j] \in Row
    BY <1>0
  <2> QED
    BY <1>0, <2>1 DEF Wins, Row
<1> HIDE DEF c0
<1>6. CursorAhead'
  <2> SUFFICES ASSUME NEW c \in claimed'
               PROVE  /\ c.for \in Nat /\ c.for <= c.now
                      /\ job'[c.job].next = NoTime \/ c.now < job'[c.job].next
    BY DEF CursorAhead
  <2>1. new = NoTime \/ new > t
    BY DEF Wins
  <2>2. CASE c = c0
    BY <1>2, <1>4, <1>5, <2>1, <2>2
  <2>3. CASE c \in claimed
    <3>1. c.for \in Nat /\ c.for <= c.now /\ c.now \in Nat /\ c.job \in Jobs
      BY <1>0, <2>3 DEF FireInv, CursorAhead
    <3>2. CASE c.job # j
      BY <1>5, <2>3, <3>1, <3>2 DEF FireInv, CursorAhead
    <3>3. CASE c.job = j
      <4>1. c.now < row.next /\ row.next <= t
        BY <1>2, <1>3, <2>3, <3>3
      <4>2. new = NoTime \/ (new \in Nat /\ c.now < new)
        BY <1>2, <2>1, <3>1, <4>1 DEF Times
      <4> QED
        BY <1>5, <3>1, <3>3, <4>2
    <3> QED
      BY <3>2, <3>3
  <2> QED
    BY <1>4, <2>2, <2>3
<1>7. NoBackfill'
  <2> SUFFICES ASSUME NEW c \in claimed', NEW d \in claimed', c.job = d.job, c.for < d.for
               PROVE  c.now < d.for
    BY DEF NoBackfill
  <2>1. CASE c \in claimed /\ d \in claimed
    BY <2>1 DEF FireInv, NoBackfill
  <2>2. CASE c \in claimed /\ d = c0
    BY <1>3, <1>4, <2>2
  <2>3. CASE c = c0 /\ d \in claimed
    <3>1. d.now < row.next /\ d.for <= d.now /\ d.now \in Nat /\ d.for \in Nat
      BY <1>0, <1>3, <1>4, <2>3 DEF FireInv, CursorAhead
    <3> QED
      BY <1>2, <1>4, <2>3, <3>1
  <2>4. CASE c = c0 /\ d = c0
    BY <1>2, <1>4, <2>4
  <2> QED
    BY <1>4, <2>1, <2>2, <2>3, <2>4
<1>8. ListsDue'
  BY <1>1 DEF Wins, FireInv, ListsDue, AllDue
<1>9. \A i, f : Claims(i, f) \subseteq Claims(i, f)'
  BY <1>4 DEF Claims
<1>10. c0 \in Claims(j, row.next)'
  BY <1>4 DEF Claims
<1>11. l.pc = "guard" /\ l.j = j /\ l.row = row /\ task' = task
  BY DEF Wins
<1>12. HandsClaimed'
  <2>1. ASSUME NEW q \in Ticks, proc'[q].pc \in Working
        PROVE  (Claims(proc[q].j, proc[q].row.next) # {})'
    <3>1. CASE q = p
      BY <1>1, <1>10, <1>11, <3>1 DEF Claims
    <3>2. CASE q # p
      <4>1. proc'[q] = proc[q]
        BY <1>1, <3>2
      <4>2. Claims(proc[q].j, proc[q].row.next) # {}
        BY <2>1, <4>1 DEF FireInv, HandsClaimed
      <4> QED
        BY <1>4, <4>1, <4>2 DEF Claims
    <3> QED
      BY <3>1, <3>2
  <2>2. ASSUME NEW q \in Ticks, proc[q].pc \in Working PROVE Hand(q) # <<j, row.next>>
    <3>1. Claims(proc[q].j, proc[q].row.next) # {}
      BY <2>2 DEF FireInv, HandsClaimed
    <3> QED
      BY <1>3, <3>1 DEF Hand
  <2>3. ASSUME NEW q \in Ticks, NEW r \in Ticks, proc'[q].pc \in Working, proc'[r].pc \in Working,
               Hand(q)' = Hand(r)'
        PROVE  q = r
    <3>1. CASE q # p /\ r # p
      <4>1. proc'[q] = proc[q] /\ proc'[r] = proc[r]
        BY <1>1, <3>1
      <4> QED
        BY <2>3, <4>1 DEF FireInv, HandsClaimed, Hand
    <3>2. CASE q = p /\ r # p
      <4>1. proc'[r] = proc[r] /\ Hand(p)' = <<j, row.next>>
        BY <1>1, <1>11, <3>2 DEF Hand
      <4> QED
        BY <2>2, <2>3, <3>2, <4>1 DEF Hand
    <3>3. CASE q # p /\ r = p
      <4>1. proc'[q] = proc[q] /\ Hand(p)' = <<j, row.next>>
        BY <1>1, <1>11, <3>3 DEF Hand
      <4> QED
        BY <2>2, <2>3, <3>3, <4>1 DEF Hand
    <3> QED
      BY <3>1, <3>2, <3>3
  <2> QED
    BY <2>1, <2>3 DEF HandsClaimed
<1>13. TasksClaimed'
  <2>1. ASSUME NEW i \in 1..Len(task'), ~task'[i].manual
        PROVE  (Claims(task[i].job, task[i].for) # {})'
    <3>1. Claims(task[i].job, task[i].for) # {}
      BY <1>11, <2>1 DEF FireInv, TasksClaimed
    <3> QED
      BY <1>4, <1>11, <3>1 DEF Claims
  <2>2. ASSUME NEW q \in Ticks, proc'[q].pc \in Unfired
        PROVE  (TasksOf(proc[q].j, proc[q].row.next) = {})'
    <3>1. CASE q = p
      <4>1. TasksOf(j, row.next) = {}
        <5> SUFFICES ASSUME NEW i \in TasksOf(j, row.next) PROVE FALSE
          OBVIOUS
        <5>1. i \in 1..Len(task) /\ ~task[i].manual /\ task[i].job = j /\ task[i].for = row.next
          BY DEF TasksOf
        <5>2. Claims(j, row.next) # {}
          BY <5>1 DEF FireInv, TasksClaimed
        <5> QED
          BY <1>3, <5>2
      <4>2. proc'[q].j = j /\ proc'[q].row = row
        BY <1>1, <1>11, <3>1
      <4> QED
        BY <1>11, <4>1, <4>2 DEF TasksOf
    <3>2. CASE q # p
      <4>1. proc'[q] = proc[q]
        BY <1>1, <3>2
      <4>2. TasksOf(proc[q].j, proc[q].row.next) = {}
        BY <2>2, <4>1 DEF FireInv, TasksClaimed
      <4> QED
        BY <1>11, <4>1, <4>2 DEF TasksOf
    <3> QED
      BY <3>1, <3>2
  <2> QED
    BY <2>1, <2>2 DEF TasksClaimed
<1>14. FiresOnce'
  BY <1>11 DEF FireInv, FiresOnce
<1> QED
  BY <1>6, <1>7, <1>8, <1>12, <1>13, <1>14 DEF FireInv

\* Enqueueing the fire in hand keeps the invariant.
LEMMA EnqueueFires ==
    ASSUME Typed, FireInv, NEW p \in Ticks, Enqueue(p)
    PROVE  FireInv'
<1>0. /\ p \in Procs /\ proc \in [Procs -> Locals] /\ task \in Seq(Tasks) /\ ~IsManual(p)
      /\ proc[p] \in Locals /\ Len(task) \in Nat
  BY ProcsAssumption DEF Procs, Typed, TypeOK, IsManual
<1> DEFINE n == Len(task) + 1
           x == [job |-> proc[p].j, for |-> proc[p].row.next, status |-> "live", manual |-> IsManual(p)]
<1>1. /\ task' = Append(task, x) /\ x.job = proc[p].j /\ x.for = proc[p].row.next /\ ~x.manual
      /\ proc[p].pc = "enqueue" /\ UNCHANGED <<now, job, run, claimed>>
  BY <1>0 DEF Enqueue
<1>2. proc'[p] = [proc[p] EXCEPT !.pc = "record", !.task = Len(task')]
  BY <1>0 DEF Enqueue
<1>3. /\ proc'[p].pc = "record" /\ proc'[p].j = proc[p].j /\ proc'[p].row = proc[p].row
      /\ proc'[p].todo = proc[p].todo /\ proc'[p].now = proc[p].now
      /\ \A q \in Ticks : q # p => proc'[q] = proc[q]
  BY <1>0, <1>2 DEF Enqueue, Locals, Procs
<1> HIDE DEF x
<1>4. /\ Len(task') = n /\ n \in Nat /\ task'[n] = x
      /\ \A t \in 1..Len(task) : task'[t] = task[t]
      /\ \A t \in 1..Len(task') : t = n \/ t \in 1..Len(task)
  BY <1>0, <1>1
<1> HIDE DEF n
<1>5. TasksOf(proc[p].j, proc[p].row.next) = {} /\ Claims(proc[p].j, proc[p].row.next) # {}
  BY <1>1 DEF FireInv, TasksClaimed, HandsClaimed, Unfired, Working
<1>6. CursorAhead' /\ NoBackfill'
  BY <1>1 DEF FireInv, CursorAhead, NoBackfill
<1>7. ListsDue'
  BY <1>3 DEF FireInv, ListsDue
<1>8. HandsClaimed'
  <2>1. \A q \in Ticks : /\ proc'[q].pc \in Working => proc[q].pc \in Working
                         /\ proc'[q].j = proc[q].j /\ proc'[q].row = proc[q].row
    BY <1>1, <1>3 DEF Working
  <2> QED
    BY <1>1, <2>1 DEF FireInv, HandsClaimed, Claims, Hand
<1>9. TasksClaimed'
  <2>1. ASSUME NEW t \in 1..Len(task'), ~task'[t].manual
        PROVE  (Claims(task[t].job, task[t].for) # {})'
    <3>1. CASE t = n
      <4>1. task'[t].job = proc[p].j /\ task'[t].for = proc[p].row.next
        BY <1>1, <1>4, <3>1
      <4> QED
        BY <1>1, <1>5, <4>1 DEF Claims
    <3>2. CASE t \in 1..Len(task)
      <4>1. task'[t] = task[t]
        BY <1>4, <3>2
      <4>2. Claims(task[t].job, task[t].for) # {}
        BY <2>1, <3>2, <4>1 DEF FireInv, TasksClaimed
      <4> QED
        BY <1>1, <4>1, <4>2 DEF Claims
    <3> QED
      BY <1>4, <3>1, <3>2
  <2>2. ASSUME NEW q \in Ticks, proc'[q].pc \in Unfired
        PROVE  (TasksOf(proc[q].j, proc[q].row.next) = {})'
    <3>1. q # p /\ proc'[q] = proc[q]
      BY <1>3, <2>2 DEF Unfired
    <3>2. TasksOf(proc[q].j, proc[q].row.next) = {}
      BY <2>2, <3>1 DEF FireInv, TasksClaimed
    <3>3. Hand(q) # Hand(p)
      BY <1>1, <2>2, <3>1 DEF FireInv, HandsClaimed, Unfired, Working
    <3>4. ~(task'[n].job = proc[q].j /\ task'[n].for = proc[q].row.next)
      BY <1>1, <1>4, <3>3 DEF Hand
    <3> QED
      BY <1>4, <3>1, <3>2, <3>4 DEF TasksOf
  <2> QED
    BY <2>1, <2>2 DEF TasksClaimed
<1>10. FiresOnce'
  <2> SUFFICES ASSUME NEW s \in 1..Len(task'), NEW t \in 1..Len(task'),
                      ~task'[s].manual, ~task'[t].manual,
                      task'[s].job = task'[t].job, task'[s].for = task'[t].for
               PROVE  s = t
    BY DEF FiresOnce
  <2>1. ASSUME NEW i \in 1..Len(task), ~task'[i].manual,
               task'[i].job = task'[n].job, task'[i].for = task'[n].for
        PROVE  FALSE
    BY <1>1, <1>4, <1>5, <2>1 DEF TasksOf
  <2>2. CASE s \in 1..Len(task) /\ t \in 1..Len(task)
    BY <1>4, <2>2 DEF FireInv, FiresOnce
  <2> QED
    BY <1>4, <2>1, <2>2
<1> QED
  BY <1>6, <1>7, <1>8, <1>9, <1>10 DEF FireInv

----------------------------------------------------------------------------
(* What each step does to the fire in hand.                                *)

\* No run is lost and no tick's run is new.
SameRows ==
    /\ \A r \in 1..Len(run) :
          /\ r \in 1..Len(run') /\ run'[r].job = run[r].job /\ run'[r].for = run[r].for
          /\ run'[r].manual <=> run[r].manual
    /\ \A r \in 1..Len(run') : ~run'[r].manual => r \in 1..Len(run)

\* Process p leaves no fire without a row and writes none.
Trail(p, l) ==
    /\ SameRows
    /\ l.pc \in Untraced => proc[p].pc \in Untraced
    /\ l.pc \in {"bump", "mark"} => proc[p].pc \in {"bump", "mark"}
    /\ l.pc \notin Working \cup {"dead"} => proc[p].pc \notin Untraced \cup {"dead"}

\* Process p writes the row of the fire in its hands.
WritesRow(p, l) ==
    /\ proc[p].pc \in Untraced /\ l.pc \notin Untraced \cup {"dead"}
    /\ Len(run) \in Nat /\ Len(run') = Len(run) + 1
    /\ \A r \in 1..Len(run) : run'[r] = run[r]
    /\ ~run'[Len(run')].manual
    /\ run'[Len(run')].job = proc[p].j /\ run'[Len(run')].for = proc[p].row.next

\* The statements whose failure loses a fire's row, or gives it a second one, do not fail.
RowsReliable == ErrorsAt \cap {"guard", "skip", "bump", "fail"} = {}

\* Process p neither claims nor enqueues, and keeps or writes the row.
Quiet(p, l) ==
    /\ Calm(p, l) /\ SameTasks /\ SameCursors /\ UNCHANGED claimed
    /\ RowsReliable => Trail(p, l) \/ WritesRow(p, l)

\* No request has an edit form open.
NoForm == \A p \in Operators : proc[p].pc # "form"

\* Nothing the ticks depend on changes.
Aside ==
    /\ SameTasks /\ SameCursors /\ SameRows /\ UNCHANGED claimed
    /\ \A q \in Ticks : proc'[q] = proc[q]
    /\ NoForm'

\* The tables that are left alone.
LEMMA SameTables ==
    /\ UNCHANGED run => SameRows
    /\ UNCHANGED task => SameTasks
    /\ UNCHANGED job => SameCursors
BY DEF SameRows, SameTasks, SameCursors

\* A step that only moves p on.
LEMMA MoveQuiet ==
    ASSUME Typed, FireInv, NEW p \in Procs, NEW s \in Pcs, NEW b \in BOOLEAN,
           proc' = [proc EXCEPT ![p] = [proc[p] EXCEPT !.pc = s, !.invalid = b]],
           s \in Working => proc[p].pc \in Working, s \in Unfired => proc[p].pc \in Unfired,
           s \notin Working \cup {"dead"} => proc[p].pc \notin Working \cup {"dead"}
    PROVE  \E l : Calm(p, l) /\ l.pc = s
<1> DEFINE l == [proc[p] EXCEPT !.pc = s, !.invalid = b]
<1>1. proc[p] \in Locals
  BY DEF Typed, TypeOK
<1>2. /\ l.pc = s /\ l.j = proc[p].j /\ l.row = proc[p].row
      /\ l.todo = proc[p].todo /\ l.now = proc[p].now
  BY <1>1 DEF Locals
<1>3. proc' = [proc EXCEPT ![p] = l]
  OBVIOUS
<1> HIDE DEF l
<1>4. p \in Ticks => AllDue(l)
  BY <1>2 DEF FireInv, ListsDue, AllDue
<1> QED
  BY <1>2, <1>3, <1>4 DEF Calm

\* A step that ends p's work on a job.
LEMMA DoneCalm ==
    ASSUME Typed, FireInv, NEW p \in Procs, proc' = [proc EXCEPT ![p] = Done(p)]
    PROVE  Calm(p, Done(p)) /\ Done(p).pc \notin Working \cup {"dead"}
<1>1. /\ Done(p).j = NoJob /\ Done(p).pc \in {"idle", "loop"}
      /\ Done(p).todo = {} \/ (Done(p).todo = proc[p].todo /\ Done(p).now = proc[p].now)
  BY DoneType DEF Typed
<1>2. Done(p).pc \notin Working \cup {"dead"} /\ Done(p).pc \notin Unfired
  BY <1>1 DEF Working, Unfired
<1>3. p \in Ticks => AllDue(Done(p))
  BY <1>1 DEF FireInv, ListsDue, AllDue
<1> QED
  BY <1>1, <1>2, <1>3 DEF Calm

\* A step of p at rest that gives it nothing in hand.
LEMMA IdleCalm ==
    ASSUME NEW p \in Procs, NEW s \in {"idle", "promote"}, NEW Q,
           proc' = [proc EXCEPT ![p] = [Idle EXCEPT !.pc = s, !.queued = Q]]
    PROVE  \E l : Calm(p, l) /\ l.pc = s
<1> DEFINE l == [Idle EXCEPT !.pc = s, !.queued = Q]
<1>1. l.pc = s /\ l.j = NoJob /\ l.todo = {}
  BY DEF Idle
<1>2. proc' = [proc EXCEPT ![p] = l]
  OBVIOUS
<1> HIDE DEF l
<1>3. s \notin Working \cup {"dead"} /\ s \notin Unfired
  BY DEF Working, Unfired
<1> QED
  BY <1>1, <1>2, <1>3 DEF Calm, AllDue

\* A row a tick writes.
LEMMA TickWrites ==
    ASSUME Typed, NEW p \in Ticks, proc[p].pc \in Untraced,
           NEW status \in {"queued", "skipped", "failed"}, NEW t \in Nat, NewRun(p, status, t),
           UNCHANGED <<now, job, task, claimed, faults, manual, edits>>,
           NEW l, l.pc \notin Untraced \cup {"dead"}
    PROVE  WritesRow(p, l)
<1>1. p \in Procs /\ proc[p].pc \in Working /\ ~IsManual(p)
  BY ProcsAssumption DEF Procs, IsManual, Untraced, Working
<1>2. /\ Len(run') = Len(run) + 1 /\ Len(run) \in Nat
      /\ \A r \in 1..Len(run) : run'[r] = run[r]
      /\ run'[Len(run')] = [job |-> proc[p].j, status |-> status, for |-> proc[p].row.next,
                            at |-> now, task |-> t, manual |-> IsManual(p), mails |-> 0]
  BY <1>1, NewRunTyped
<1> QED
  BY <1>1, <1>2 DEF WritesRow

\* A claim: the list gets shorter, or the claim is won.
LEMMA ClaimOutcome ==
    ASSUME Cadences \subseteq Walkless, Typed, FireInv, NEW p \in Ticks, Claim(p)
    PROVE  \/ \E l : Quiet(p, l)
           \/ \E j \in Jobs, row \in Row, new \in Times, t \in Nat : \E l : Wins(p, j, row, new, t, l)
<1>0. /\ p \in Procs /\ proc \in [Procs -> Locals] /\ job \in [Jobs -> Row]
      /\ proc[p] \in Locals /\ proc[p].todo \subseteq Jobs \X Row
      /\ proc[p].now \in Nat
  BY DEF Procs, Typed, TypeOK, Locals
<1>1. PICK t \in proc[p].todo :
        LET j == t[1]  row == t[2]  rest == proc[p].todo \ {t}
            new == ComputeNext(j, row.cadence, proc[p].now)
        IN \/ /\ new = BadConfig
              /\ job' = [job EXCEPT ![j].enabled = FALSE, ![j].last = "invalid"]
              /\ proc' = [proc EXCEPT ![p].todo = rest]
              /\ UNCHANGED claimed
           \/ /\ new # BadConfig /\ job[j].next # row.next
              /\ proc' = [proc EXCEPT ![p].todo = rest]
              /\ UNCHANGED <<job, claimed>>
           \/ /\ new # BadConfig /\ job[j].next = row.next
              /\ job' = [job EXCEPT ![j].next = new]
              /\ claimed' = claimed \cup {[job |-> j, for |-> row.next, now |-> proc[p].now]}
              /\ proc' = [proc EXCEPT ![p].pc = "guard", ![p].todo = rest,
                                      ![p].j = j, ![p].row = row]
  BY DEF Claim
<1>2. PICK j, row : t = <<j, row>> /\ j \in Jobs /\ row \in Row
  BY <1>0, <1>1
<1>3. PICK rest, new, at : /\ rest = proc[p].todo \ {t} /\ at = proc[p].now
                           /\ new = ComputeNext(j, row.cadence, at)
  OBVIOUS
<1>4. \/ /\ job' = [job EXCEPT ![j].enabled = FALSE, ![j].last = "invalid"]
         /\ proc' = [proc EXCEPT ![p].todo = rest]
         /\ UNCHANGED claimed
      \/ /\ proc' = [proc EXCEPT ![p].todo = rest]
         /\ UNCHANGED <<job, claimed>>
      \/ /\ new # BadConfig /\ job[j].next = row.next
         /\ job' = [job EXCEPT ![j].next = new]
         /\ claimed' = claimed \cup {[job |-> j, for |-> row.next, now |-> at]}
         /\ proc' = [proc EXCEPT ![p].pc = "guard", ![p].todo = rest,
                                 ![p].j = j, ![p].row = row]
  BY <1>1, <1>2, <1>3
<1>5. proc[p].pc = "loop" /\ UNCHANGED <<now, run, task, faults, manual, edits>>
  BY DEF Claim, counts
<1>6. \A x \in proc[p].todo : x[2].next \in Nat /\ x[2].next <= at
  BY <1>3 DEF FireInv, ListsDue
<1>7. row.next \in Nat /\ row.next <= at /\ \A x \in rest : x[2].next \in Nat /\ x[2].next <= at
  BY <1>2, <1>3, <1>6
<1>8. CASE SameCursors /\ proc' = [proc EXCEPT ![p].todo = rest] /\ UNCHANGED claimed
  <2> DEFINE l == [proc[p] EXCEPT !.todo = rest]
  <2>1. l.pc = "loop" /\ l.todo = rest /\ l.now = at /\ l.j = proc[p].j
    BY <1>0, <1>3, <1>5 DEF Locals
  <2>2. proc' = [proc EXCEPT ![p] = l]
    BY <1>8
  <2> HIDE DEF l
  <2>3. "loop" \notin Working \cup {"dead"} /\ "loop" \notin Unfired /\ "loop" \notin Untraced
    BY DEF Working, Unfired, Untraced
  <2>4. AllDue(l)
    BY <1>7, <2>1 DEF AllDue
  <2>5. Calm(p, l)
    BY <1>5, <2>1, <2>2, <2>3, <2>4 DEF Calm
  <2>6. SameRows /\ SameTasks
    BY <1>5, SameTables
  <2>7. Trail(p, l)
    BY <1>5, <2>1, <2>3, <2>6 DEF Trail
  <2> QED
    BY <1>8, <2>5, <2>6, <2>7 DEF Quiet
<1>9. CASE /\ new # BadConfig /\ job[j].next = row.next
           /\ job' = [job EXCEPT ![j].next = new]
           /\ claimed' = claimed \cup {[job |-> j, for |-> row.next, now |-> at]}
           /\ proc' = [proc EXCEPT ![p].pc = "guard", ![p].todo = rest,
                                   ![p].j = j, ![p].row = row]
  <2> DEFINE l == [proc[p] EXCEPT !.pc = "guard", !.todo = rest, !.j = j, !.row = row]
  <2>1. l.pc = "guard" /\ l.todo = rest /\ l.now = at /\ l.j = j /\ l.row = row
    BY <1>0, <1>3 DEF Locals
  <2>2. proc' = [proc EXCEPT ![p] = l]
    BY <1>9
  <2> HIDE DEF l
  <2>3. AllDue(l)
    BY <1>7, <2>1 DEF AllDue
  <2>4. row.cadence \in Cadences /\ at \in Nat
    BY <1>0, <1>2, <1>3 DEF Row
  <2>5. new \in Times /\ (new = NoTime \/ new > at)
    BY <1>3, <1>9, <2>4, Later DEF ComputeNext
  <2>6. Wins(p, j, row, new, at, l)
    BY <1>5, <1>7, <1>9, <2>1, <2>2, <2>3, <2>5 DEF Wins
  <2> QED
    BY <1>2, <2>4, <2>5, <2>6
<1>10. (job' = [job EXCEPT ![j].enabled = FALSE, ![j].last = "invalid"]) => SameCursors
  <2> SUFFICES ASSUME job' = [job EXCEPT ![j].enabled = FALSE, ![j].last = "invalid"], NEW i \in Jobs
               PROVE  job'[i].next = job[i].next
    BY DEF SameCursors
  <2>1. job[i] \in Row /\ job[j] \in Row
    BY <1>0, <1>2
  <2> QED
    BY <1>0, <1>2, <2>1 DEF Row
<1> QED
  BY <1>4, <1>8, <1>9, <1>10, SameTables

\* The steps of a fire that neither claim nor enqueue.
LEMMA FireOutcome ==
    ASSUME Typed, FireInv, NEW p \in Ticks,
           \/ Guard(p) \/ RecordSkip(p) \/ EnqueueUnresolvable(p) \/ RecordQueued(p)
           \/ Bump(p) \/ RecordFailure(p) \/ MarkFailure(p)
    PROVE  \E l : Quiet(p, l)
<1>0. /\ p \in Procs /\ proc \in [Procs -> Locals] /\ job \in [Jobs -> Row]
      /\ proc[p] \in Locals /\ LocalSane(p) /\ ~IsManual(p)
      /\ proc[p].task \in Nat /\ proc[p].invalid \in BOOLEAN
  BY ProcsAssumption, Known DEF Procs, IsManual
<1>1. UNCHANGED claimed
  BY DEF Guard, RecordSkip, EnqueueUnresolvable, RecordQueued, Bump, RecordFailure, MarkFailure
<1>2. ASSUME NEW s \in Working, NEW b \in BOOLEAN, proc[p].pc \in Working,
             s \in Unfired => proc[p].pc \in Unfired,
             proc' = [proc EXCEPT ![p] = [proc[p] EXCEPT !.pc = s, !.invalid = b]]
      PROVE  \E l : Calm(p, l) /\ l.pc = s
  <2>1. s \in Pcs
    BY <1>2 DEF Working, Pcs
  <2> QED
    BY <1>0, <1>2, <2>1, MoveQuiet
<1>3. ASSUME NEW s \in Working, proc[p].pc \in Working,
             s \in Unfired => proc[p].pc \in Unfired, proc' = [proc EXCEPT ![p].pc = s]
      PROVE  \E l : Calm(p, l) /\ l.pc = s
  <2>1. proc' = [proc EXCEPT ![p] = [proc[p] EXCEPT !.pc = s, !.invalid = proc[p].invalid]]
    <3>1. [proc[p] EXCEPT !.pc = s] = [proc[p] EXCEPT !.pc = s, !.invalid = proc[p].invalid]
      BY <1>0 DEF Locals
    <3> QED
      BY <1>0, <1>3, <3>1
  <2> QED
    BY <1>0, <1>2, <1>3, <2>1
<1>4. CASE Guard(p)
  <2>1. proc[p].pc = "guard" /\ UNCHANGED <<job, run, task>>
    BY <1>4 DEF Guard, store
  <2>2. PICK s \in {"skip", "enqueue"} : proc' = [proc EXCEPT ![p].pc = s]
    BY <1>4 DEF Guard, Goto
  <2>3. PICK l : Calm(p, l) /\ l.pc = s
    BY <1>3, <2>1, <2>2 DEF Working, Unfired
  <2>4. Trail(p, l)
    BY <2>1, <2>3, SameTables DEF Trail, Untraced, Working
  <2> QED
    BY <1>1, <2>1, <2>3, <2>4, SameTables DEF Quiet
<1>5. CASE RecordSkip(p)
  <2>1. /\ proc[p].pc = "skip" /\ NewRun(p, "skipped", NoTask) /\ NoTask \in Nat
        /\ UNCHANGED <<now, job, task, claimed, faults, manual, edits>>
        /\ proc' = [proc EXCEPT ![p] = Done(p)]
    BY <1>5 DEF RecordSkip, NoTask, counts
  <2>2. Calm(p, Done(p)) /\ Done(p).pc \notin Working \cup {"dead"}
    BY <1>0, <2>1, DoneCalm
  <2>3. Done(p).pc \notin Untraced \cup {"dead"} /\ proc[p].pc \in Untraced
    BY <2>1, <2>2 DEF Working, Untraced
  <2>4. WritesRow(p, Done(p))
    BY <2>1, <2>3, TickWrites
  <2> QED
    BY <1>1, <2>1, <2>2, <2>4, SameTables DEF Quiet
<1>6. CASE EnqueueUnresolvable(p)
  <2>1. proc[p].pc = "enqueue" /\ UNCHANGED <<job, run, task>>
    BY <1>6 DEF EnqueueUnresolvable, store
  <2>2. proc' = [proc EXCEPT ![p] = [proc[p] EXCEPT !.pc = "fail", !.invalid = TRUE]]
    BY <1>0, <1>6 DEF EnqueueUnresolvable
  <2>3. PICK l : Calm(p, l) /\ l.pc = "fail"
    BY <1>2, <2>1, <2>2 DEF Working, Unfired
  <2>4. Trail(p, l)
    BY <2>1, <2>3, SameTables DEF Trail, Untraced, Working
  <2> QED
    BY <1>1, <2>1, <2>3, <2>4, SameTables DEF Quiet
<1>7. CASE RecordQueued(p)
  <2>1. /\ proc[p].pc = "record" /\ NewRun(p, "queued", proc[p].task)
        /\ UNCHANGED <<now, job, task, claimed, faults, manual, edits>>
        /\ proc' = [proc EXCEPT ![p].pc = "bump"]
    BY <1>7 DEF RecordQueued, Goto, counts
  <2>2. PICK l : Calm(p, l) /\ l.pc = "bump"
    BY <1>3, <2>1 DEF Working, Unfired
  <2>3. l.pc \notin Untraced \cup {"dead"} /\ proc[p].pc \in Untraced
    BY <2>1, <2>2 DEF Untraced
  <2>4. WritesRow(p, l)
    BY <1>0, <2>1, <2>3, TickWrites
  <2> QED
    BY <1>1, <2>1, <2>2, <2>4, SameTables DEF Quiet
<1>8. CASE RecordFailure(p)
  <2>1. /\ proc[p].pc = "fail" /\ NewRun(p, "failed", NoTask) /\ NoTask \in Nat
        /\ UNCHANGED <<now, job, task, claimed, faults, manual, edits>>
        /\ proc' = [proc EXCEPT ![p].pc = "mark"]
    BY <1>8 DEF RecordFailure, Goto, counts, NoTask
  <2>2. PICK l : Calm(p, l) /\ l.pc = "mark"
    BY <1>3, <2>1 DEF Working, Unfired
  <2>3. l.pc \notin Untraced \cup {"dead"} /\ proc[p].pc \in Untraced
    BY <2>1, <2>2 DEF Untraced
  <2>4. WritesRow(p, l)
    BY <1>0, <2>1, <2>3, TickWrites
  <2> QED
    BY <1>1, <2>1, <2>2, <2>4, SameTables DEF Quiet
<1>9. ASSUME proc[p].pc \in {"bump", "mark"}, proc' = [proc EXCEPT ![p] = Done(p)],
             UNCHANGED <<run, task>>, SameCursors
      PROVE  Quiet(p, Done(p))
  <2>1. Calm(p, Done(p)) /\ Done(p).pc \notin Working \cup {"dead"}
    BY <1>0, <1>9, DoneCalm
  <2>2. Trail(p, Done(p))
    BY <1>9, <2>1, SameTables DEF Trail, Untraced, Working
  <2> QED
    BY <1>1, <1>9, <2>1, <2>2, SameTables DEF Quiet
<1>10. CASE Bump(p)
  <2>1. proc[p].pc = "bump" /\ proc[p].j \in Jobs
    BY <1>0, <1>10 DEF Bump, LocalSane, Working
  <2>2. \A i \in Jobs : job'[i].next = job[i].next
    <3> SUFFICES ASSUME NEW i \in Jobs PROVE job'[i].next = job[i].next
      OBVIOUS
    <3>1. job[i] \in Row
      BY <1>0
    <3> QED
      BY <1>0, <1>10, <2>1, <3>1 DEF Bump, Row
  <2> QED
    BY <1>9, <1>10, <2>1, <2>2 DEF Bump, SameCursors
<1>11. CASE MarkFailure(p)
  <2>1. proc[p].pc = "mark" /\ proc[p].j \in Jobs
    BY <1>0, <1>11 DEF MarkFailure, LocalSane, Working
  <2>2. \A i \in Jobs : job'[i].next = job[i].next
    <3> SUFFICES ASSUME NEW i \in Jobs PROVE job'[i].next = job[i].next
      OBVIOUS
    <3>1. job[i] \in Row
      BY <1>0
    <3> QED
      BY <1>0, <1>11, <2>1, <3>1 DEF MarkFailure, Row
  <2> QED
    BY <1>9, <1>11, <2>1, <2>2 DEF MarkFailure, SameCursors
<1> QED
  BY <1>4, <1>5, <1>6, <1>7, <1>8, <1>10, <1>11

\* A run's status or mails change.
LEMMA RunTouched ==
    ASSUME Typed, NEW r \in 1..Len(run), NEW x \in Runs, run' = [run EXCEPT ![r] = x],
           x.job = run[r].job, x.for = run[r].for, x.manual <=> run[r].manual
    PROVE  SameRows
<1>1. run \in Seq(Runs) /\ Len(run) \in Nat
  BY DEF Typed, TypeOK
<1>2. Len(run') = Len(run) /\ \A i \in 1..Len(run) : run'[i] = IF i = r THEN x ELSE run[i]
  BY <1>1
<1> QED
  BY <1>2 DEF SameRows

\* Process p goes from one place without a fire to another.
AtRest(p, l) ==
    /\ l.pc \in {"idle", "loop", "promote", "latest", "reflect", "mail"}
    /\ l.j = NoJob \/ l.j = proc[p].j
    /\ proc' = [proc EXCEPT ![p] = l]

\* The start of a tick and its reconcile pass.
LEMMA PassOutcome ==
    ASSUME Typed, FireInv, NEW p \in Ticks,
           \/ TickStart(p) \/ ListQueued(p) \/ ReconcileDone(p) \/ Promote(p) \/ CheckLatest(p)
           \/ Reflect(p) \/ MailFailure(p)
    PROVE  \E l : Quiet(p, l)
<1>0. /\ p \in Procs /\ proc \in [Procs -> Locals] /\ job \in [Jobs -> Row]
      /\ proc[p] \in Locals /\ LocalSane(p) /\ run \in Seq(Runs) /\ Len(run) \in Nat /\ now \in Nat
  BY Known DEF Procs
<1>1. UNCHANGED <<task, claimed>>
  BY DEF TickStart, ListQueued, ReconcileDone, Promote, CheckLatest, Reflect, MailFailure, store
<1>2. proc[p].pc \in {"idle", "loop", "promote", "latest", "reflect", "mail"}
  <2>1. TickStart(p) => proc[p].pc = "idle"
    BY DEF TickStart, Idle
  <2>2. ListQueued(p) => proc[p].pc = "loop"
    BY DEF ListQueued
  <2>3. ReconcileDone(p) \/ Promote(p) => proc[p].pc = "promote"
    BY DEF ReconcileDone, Promote
  <2>4. CheckLatest(p) => proc[p].pc = "latest"
    BY DEF CheckLatest
  <2>5. Reflect(p) \/ MailFailure(p) => proc[p].pc \in {"reflect", "mail"}
    BY DEF Reflect, MailFailure
  <2> QED BY <2>1, <2>2, <2>3, <2>4, <2>5
<1>3. \A s \in {"idle", "loop", "promote", "latest", "reflect", "mail"} :
          s \notin Working \cup {"dead"} /\ s \notin Unfired /\ s \notin Untraced \cup {"dead"}
  BY DEF Working, Unfired, Untraced
<1>4. ASSUME NEW l, AtRest(p, l), AllDue(l), SameCursors, SameRows
      PROVE  Quiet(p, l)
  <2>1. Calm(p, l)
    BY <1>2, <1>3, <1>4 DEF Calm, AtRest
  <2>2. Trail(p, l)
    BY <1>2, <1>3, <1>4 DEF Trail, AtRest
  <2> QED
    BY <1>1, <1>4, <2>1, <2>2, SameTables DEF Quiet
<1>5. ASSUME NEW l, AtRest(p, l), l.todo = proc[p].todo, l.now = proc[p].now
      PROVE  AllDue(l)
  BY <1>5 DEF FireInv, ListsDue, AllDue
<1>6. ASSUME NEW s \in {"promote", "latest", "reflect", "mail"}, proc' = [proc EXCEPT ![p].pc = s],
             SameCursors, SameRows
      PROVE  \E l : Quiet(p, l)
  <2> DEFINE l == [proc[p] EXCEPT !.pc = s]
  <2>1. l.pc = s /\ l.j = proc[p].j /\ l.todo = proc[p].todo /\ l.now = proc[p].now
    BY <1>0 DEF Locals
  <2>2. proc' = [proc EXCEPT ![p] = l]
    BY <1>6
  <2> HIDE DEF l
  <2>3. AtRest(p, l)
    BY <2>1, <2>2 DEF AtRest
  <2> QED
    BY <1>4, <1>5, <1>6, <2>1, <2>3
<1>7. CASE TickStart(p)
  <2> DEFINE T == {<<j, job[j]>> : j \in {i \in Jobs : Due(i)}}
             l == [Idle EXCEPT !.pc = "loop", !.now = now, !.todo = T]
  <2>1. l.pc = "loop" /\ l.j = NoJob /\ l.now = now /\ l.todo = T
    BY DEF Idle
  <2>2. proc' = [proc EXCEPT ![p] = l] /\ UNCHANGED <<job, run>>
    BY <1>7 DEF TickStart, store
  <2> HIDE DEF l
  <2>3. AllDue(l)
    <3> SUFFICES ASSUME NEW t \in T PROVE t[2].next \in Nat /\ t[2].next <= now
      BY <2>1 DEF AllDue
    <3>1. PICK j \in Jobs : t = <<j, job[j]>> /\ Due(j)
      OBVIOUS
    <3>2. job[j].next \in Times
      BY <1>0 DEF Row
    <3> QED
      BY <3>1, <3>2 DEF Due, Times, NoTime
  <2>4. AtRest(p, l)
    BY <2>1, <2>2 DEF AtRest
  <2> QED
    BY <1>4, <2>2, <2>3, <2>4, SameTables
<1>8. CASE ListQueued(p)
  <2> DEFINE l == [Idle EXCEPT !.pc = "promote",
                     !.queued = {r \in 1..Len(run) : run[r].status = "queued" /\ run[r].task # NoTask}]
  <2>1. l.pc = "promote" /\ l.j = NoJob /\ l.todo = {}
    BY DEF Idle
  <2>2. proc' = [proc EXCEPT ![p] = l] /\ UNCHANGED <<job, run>>
    BY <1>8 DEF ListQueued, store
  <2> HIDE DEF l
  <2>3. AtRest(p, l) /\ AllDue(l)
    BY <2>1, <2>2 DEF AtRest, AllDue
  <2> QED
    BY <1>4, <2>2, <2>3, SameTables
<1>9. CASE ReconcileDone(p)
  <2>1. Idle.pc = "idle" /\ Idle.j = NoJob /\ Idle.todo = {}
    BY DEF Idle
  <2>2. proc' = [proc EXCEPT ![p] = Idle] /\ UNCHANGED <<job, run>>
    BY <1>9 DEF ReconcileDone, store
  <2>3. AtRest(p, Idle) /\ AllDue(Idle)
    BY <2>1, <2>2 DEF AtRest, AllDue
  <2> QED
    BY <1>4, <2>2, <2>3, SameTables
<1>10. CASE Promote(p)
  <2>1. PICK r, st : r = Newest(proc[p].queued) /\ st = task[run[r].task].status
    OBVIOUS
  <2>2. proc[p].pc = "promote" /\ proc[p].queued \in SUBSET (1..Len(run)) /\ proc[p].queued # {}
    BY <1>0, <1>10 DEF Promote, LocalSane
  <2>3. r \in 1..Len(run)
    BY <1>0, <2>1, <2>2, NewestIsOne
  <2>4. UNCHANGED job
    BY <1>10 DEF Promote
  <2>5. CASE st \in DOMAIN Terminal
    <3> DEFINE l == [proc[p] EXCEPT !.pc = "latest", !.r = r, !.queued = @ \ {r}]
    <3>1. l.pc = "latest" /\ l.j = proc[p].j /\ l.todo = proc[p].todo /\ l.now = proc[p].now
      BY <1>0 DEF Locals
    <3>2. proc' = [proc EXCEPT ![p] = l]
      BY <1>0, <1>10, <2>1, <2>5 DEF Promote
    <3> HIDE DEF l
    <3>3. PICK x : x = [run[r] EXCEPT !.status = Terminal[st]]
      OBVIOUS
    <3>4. x \in Runs /\ x.job = run[r].job /\ x.for = run[r].for /\ (x.manual <=> run[r].manual)
      <4>1. run[r] \in Runs /\ Terminal[st] \in {"success", "failed"}
        BY <1>0, <2>3, <2>5 DEF Terminal
      <4> QED
        BY <3>3, <4>1 DEF Runs
    <3>5. run' = [run EXCEPT ![r] = x]
      BY <1>10, <2>1, <2>5, <3>3 DEF Promote
    <3>6. SameRows
      BY <2>3, <3>4, <3>5, RunTouched
    <3>7. AtRest(p, l)
      BY <3>1, <3>2 DEF AtRest
    <3> QED
      BY <1>4, <1>5, <2>4, <3>1, <3>6, <3>7, SameTables
  <2>6. CASE st \notin DOMAIN Terminal
    <3> DEFINE l == [proc[p] EXCEPT !.queued = @ \ {r}]
    <3>1. l.pc = "promote" /\ l.j = proc[p].j /\ l.todo = proc[p].todo /\ l.now = proc[p].now
      BY <1>0, <2>2 DEF Locals
    <3>2. proc' = [proc EXCEPT ![p] = l] /\ UNCHANGED run
      BY <1>0, <1>10, <2>1, <2>6 DEF Promote
    <3> HIDE DEF l
    <3>3. AtRest(p, l)
      BY <3>1, <3>2 DEF AtRest
    <3> QED
      BY <1>4, <1>5, <2>4, <3>1, <3>2, <3>3, SameTables
  <2> QED
    BY <2>5, <2>6
<1>11. CASE CheckLatest(p)
  <2>1. \E s \in {"reflect", "mail", "promote"} : proc' = [proc EXCEPT ![p].pc = s]
    BY <1>11 DEF CheckLatest, Goto, AfterReflect
  <2>2. UNCHANGED <<job, run>>
    BY <1>11 DEF CheckLatest, store
  <2> QED
    BY <1>6, <2>1, <2>2, SameTables
<1>12. CASE Reflect(p)
  <2>1. \E s \in {"mail", "promote"} : proc' = [proc EXCEPT ![p].pc = s]
    BY <1>12 DEF Reflect, Goto, AfterReflect
  <2>2. proc[p].r \in 1..Len(run)
    BY <1>0, <1>12 DEF Reflect, LocalSane
  <2>3. PICK k \in Jobs : k = run[proc[p].r].job
    <3>1. run[proc[p].r] \in Runs
      BY <1>0, <2>2
    <3> QED
      BY <3>1 DEF Runs
  <2>4. \A i \in Jobs : job'[i].next = job[i].next
    <3> SUFFICES ASSUME NEW i \in Jobs PROVE job'[i].next = job[i].next
      OBVIOUS
    <3>1. job[i] \in Row
      BY <1>0
    <3> QED
      BY <1>0, <1>12, <2>3, <3>1 DEF Reflect, Row
  <2>5. UNCHANGED run
    BY <1>12 DEF Reflect
  <2> QED
    BY <1>6, <2>1, <2>4, <2>5, SameTables DEF SameCursors
<1>13. CASE MailFailure(p)
  <2>1. PICK r : r = proc[p].r
    OBVIOUS
  <2>2. r \in 1..Len(run)
    BY <1>0, <1>13, <2>1 DEF MailFailure, LocalSane
  <2>3. PICK x : x = [run[r] EXCEPT !.mails = @ + 1]
    OBVIOUS
  <2>4. x \in Runs /\ x.job = run[r].job /\ x.for = run[r].for /\ (x.manual <=> run[r].manual)
    <3>1. run[r] \in Runs
      BY <1>0, <2>2
    <3> QED
      BY <2>3, <3>1 DEF Runs
  <2>5. run' = [run EXCEPT ![r] = x]
    BY <1>0, <1>13, <2>1, <2>2, <2>3 DEF MailFailure
  <2>6. SameRows
    BY <2>2, <2>4, <2>5, RunTouched
  <2>7. UNCHANGED job /\ proc' = [proc EXCEPT ![p].pc = "promote"]
    BY <1>13 DEF MailFailure, Goto
  <2> QED
    BY <1>6, <2>6, <2>7, SameTables
<1> QED
  BY <1>7, <1>8, <1>9, <1>10, <1>11, <1>12, <1>13

\* A statement of a tick fails, or the tick is killed.
LEMMA FailureOutcome ==
    ASSUME Typed, FireInv, NEW p \in Ticks, StatementFails(p) \/ Die(p)
    PROVE  \E l : Quiet(p, l)
<1>0. /\ p \in Procs /\ proc \in [Procs -> Locals] /\ proc[p] \in Locals /\ ~IsManual(p)
      /\ proc[p].invalid \in BOOLEAN
  BY ProcsAssumption, Known DEF Procs, IsManual
<1>1. UNCHANGED <<now, job, run, task, claimed>>
  BY DEF StatementFails, Die, store
<1>2. SameTasks /\ SameCursors /\ SameRows /\ UNCHANGED claimed
  BY <1>1, SameTables
<1>3. ASSUME NEW s \in {"fail", "dead"}, proc' = [proc EXCEPT ![p].pc = s],
             s = "fail" => proc[p].pc \in {"enqueue", "record", "bump"}
      PROVE  \E l : Calm(p, l) /\ l.pc = s
  <2>1. proc' = [proc EXCEPT ![p] = [proc[p] EXCEPT !.pc = s, !.invalid = proc[p].invalid]]
    <3>1. [proc[p] EXCEPT !.pc = s] = [proc[p] EXCEPT !.pc = s, !.invalid = proc[p].invalid]
      BY <1>0 DEF Locals
    <3> QED
      BY <1>0, <1>3, <3>1
  <2>2. /\ s \in Pcs /\ s \notin Unfired /\ s \in Working \cup {"dead"}
        /\ s \in Working => proc[p].pc \in Working
    BY <1>3 DEF Pcs, Unfired, Working
  <2> QED
    BY <1>0, <2>1, <2>2, MoveQuiet
<1>4. CASE Die(p)
  <2>1. PICK l : Calm(p, l) /\ l.pc = "dead"
    BY <1>3, <1>4 DEF Die
  <2>2. Trail(p, l)
    BY <1>2, <2>1 DEF Trail, Untraced, Working
  <2> QED
    BY <1>2, <2>1, <2>2 DEF Quiet
<1>5. CASE StatementFails(p) /\ proc[p].pc \in {"enqueue", "record", "bump"}
  <2>1. proc' = [proc EXCEPT ![p].pc = "fail"] /\ proc[p].pc \in ErrorsAt
    BY <1>0, <1>5 DEF StatementFails
  <2>2. PICK l : Calm(p, l) /\ l.pc = "fail"
    BY <1>3, <1>5, <2>1
  <2>3. RowsReliable => Trail(p, l)
    BY <1>2, <1>5, <2>1, <2>2 DEF Trail, Untraced, Working, RowsReliable
  <2> QED
    BY <1>2, <2>2, <2>3 DEF Quiet
<1>6. CASE StatementFails(p) /\ proc[p].pc \notin {"enqueue", "record", "bump"}
  <2>1. proc' = [proc EXCEPT ![p] = Done(p)] /\ proc[p].pc \in ErrorsAt
    BY <1>0, <1>6 DEF StatementFails
  <2>2. Calm(p, Done(p)) /\ Done(p).pc \notin Working \cup {"dead"}
    BY <1>0, <2>1, DoneCalm
  <2>3. proc[p].pc \in {"guard", "skip", "fail", "mark", "die"}
    BY <1>6, <2>1, BoundsAssumption
  <2>4. RowsReliable => Trail(p, Done(p))
    BY <1>2, <2>1, <2>2, <2>3 DEF Trail, Untraced, Working, RowsReliable
  <2> QED
    BY <1>2, <2>2, <2>4 DEF Quiet
<1> QED
  BY <1>4, <1>5, <1>6

\* A request's own step.
OwnStep(p) == \E l : l.pc # "form" /\ proc' = [proc EXCEPT ![p] = l]

\* What a request does, while nobody may edit.
LEMMA RequestAside ==
    ASSUME Typed, NoForm, MaxEdits = 0, NEW p \in Operators,
           \/ OperatorStep(p)
           \/ \E j \in Jobs : RunNow(p, j)
           \/ \E j \in Jobs, e \in BOOLEAN, c \in Cadences : EditLoad(p, j, e, c)
           \/ StatementFails(p) \/ Die(p)
    PROVE  Aside
<1>0. /\ p \in Procs /\ proc \in [Procs -> Locals] /\ job \in [Jobs -> Row]
      /\ proc[p] \in Locals /\ LocalSane(p) /\ IsManual(p) /\ edits \in Nat
      /\ task \in Seq(Tasks) /\ Len(task) \in Nat /\ proc[p].task \in Nat
  BY ProcsAssumption, Known DEF Procs, IsManual
<1>1. ASSUME OwnStep(p), SameTasks, SameCursors, SameRows, UNCHANGED claimed
      PROVE  Aside
  <2>1. PICK l : l.pc # "form" /\ proc' = [proc EXCEPT ![p] = l]
    BY <1>1 DEF OwnStep
  <2>2. proc'[p] = l /\ \A q \in Procs : q # p => proc'[q] = proc[q]
    BY <1>0, <2>1
  <2>3. \A q \in Ticks : q \in Procs /\ q # p
    BY ProcsAssumption DEF Procs
  <2>4. \A q \in Operators : q \in Procs
    BY DEF Procs
  <2> QED
    BY <1>1, <2>1, <2>2, <2>3, <2>4 DEF Aside, NoForm
<1>2. ASSUME NEW l, l.pc # "form", proc' = [proc EXCEPT ![p] = l] PROVE OwnStep(p)
  BY <1>2 DEF OwnStep
<1>3. ASSUME NEW s \in {"record", "bump", "mark", "dead"}, proc' = [proc EXCEPT ![p].pc = s]
      PROVE  OwnStep(p)
  <2>1. [proc[p] EXCEPT !.pc = s].pc = s
    BY <1>0 DEF Locals
  <2> QED
    BY <1>3, <2>1 DEF OwnStep
<1>4. Idle.pc # "form" /\ Done(p) = Idle
  BY <1>0 DEF Idle, Done
<1>5. ASSUME proc' = [proc EXCEPT ![p] = Idle] PROVE OwnStep(p)
  BY <1>4, <1>5 DEF OwnStep
<1>6. ASSUME NEW status \in {"queued", "skipped", "failed"}, NEW t \in Nat, NewRun(p, status, t),
             proc[p].pc \in Working, UNCHANGED <<now, job, task, claimed, faults, manual, edits>>
      PROVE  SameRows
  <2>1. /\ Len(run') = Len(run) + 1 /\ Len(run) \in Nat
        /\ \A r \in 1..Len(run) : run'[r] = run[r]
        /\ run'[Len(run')] = [job |-> proc[p].j, status |-> status, for |-> proc[p].row.next,
                              at |-> now, task |-> t, manual |-> IsManual(p), mails |-> 0]
    BY <1>0, <1>6, NewRunTyped
  <2>2. run'[Len(run')].manual
    BY <1>0, <2>1
  <2> QED
    BY <2>1, <2>2 DEF SameRows
<1>7. CASE Enqueue(p)
  <2>1. OwnStep(p)
    <3>1. [proc[p] EXCEPT !.pc = "record", !.task = Len(task')].pc = "record"
      BY <1>0 DEF Locals
    <3>2. proc' = [proc EXCEPT ![p] = [proc[p] EXCEPT !.pc = "record", !.task = Len(task')]]
      BY <1>7 DEF Enqueue
    <3> QED
      BY <3>1, <3>2 DEF OwnStep
  <2>2. PICK x : /\ x = [job |-> proc[p].j, for |-> proc[p].row.next, status |-> "live",
                         manual |-> IsManual(p)]
                 /\ task' = Append(task, x)
    BY <1>7 DEF Enqueue
  <2>3. x.manual
    BY <1>0, <2>2
  <2>4. /\ Len(task') = Len(task) + 1 /\ task'[Len(task) + 1] = x
        /\ \A t \in 1..Len(task) : task'[t] = task[t]
        /\ \A t \in 1..Len(task') : t = Len(task) + 1 \/ t \in 1..Len(task)
    BY <1>0, <2>2
  <2>5. SameTasks
    BY <2>3, <2>4 DEF SameTasks
  <2> QED
    BY <1>1, <1>7, <2>1, <2>5, SameTables DEF Enqueue
<1>8. CASE EnqueueUnresolvable(p)
  BY <1>0, <1>1, <1>5, <1>8, SameTables DEF EnqueueUnresolvable, store
<1>9. CASE RecordQueued(p)
  <2>1. SameRows
    BY <1>0, <1>6, <1>9 DEF RecordQueued, Working, counts
  <2> QED
    BY <1>1, <1>3, <1>9, <2>1, SameTables DEF RecordQueued, Goto
<1>10. CASE RecordFailure(p)
  <2>1. SameRows
    BY <1>0, <1>6, <1>10 DEF RecordFailure, Working, counts, NoTask
  <2> QED
    BY <1>1, <1>3, <1>10, <2>1, SameTables DEF RecordFailure, Goto
<1>11. ASSUME NEW i \in Jobs, Bump(p) \/ MarkFailure(p) PROVE job'[i].next = job[i].next
  <2>1. job[i] \in Row /\ proc[p].j \in Jobs
    BY <1>0, <1>11 DEF Bump, MarkFailure, LocalSane, Working
  <2>2. CASE Bump(p)
    BY <1>0, <2>1, <2>2 DEF Bump, Row
  <2>3. CASE MarkFailure(p)
    BY <1>0, <2>1, <2>3 DEF MarkFailure, Row
  <2> QED
    BY <1>11, <2>2, <2>3
<1>12. CASE Bump(p) \/ MarkFailure(p)
  <2>1. SameCursors
    BY <1>11, <1>12 DEF SameCursors
  <2> QED
    BY <1>1, <1>4, <1>5, <1>12, <2>1, SameTables DEF Bump, MarkFailure
<1>13. ASSUME NEW j \in Jobs, RunNow(p, j) PROVE Aside
  <2>1. OwnStep(p)
    <3>1. [Idle EXCEPT !.pc = "enqueue", !.j = j, !.row = [job[j] EXCEPT !.next = now]].pc = "enqueue"
      BY DEF Idle
    <3> QED
      BY <1>13, <3>1 DEF RunNow, OwnStep
  <2> QED
    BY <1>1, <1>13, <2>1, SameTables DEF RunNow, store
<1>14. ~\E j \in Jobs, e \in BOOLEAN, c \in Cadences : EditLoad(p, j, e, c)
  <2> SUFFICES ASSUME NEW j \in Jobs, NEW e \in BOOLEAN, NEW c \in Cadences, EditLoad(p, j, e, c)
               PROVE  FALSE
    OBVIOUS
  <2>1. edits < MaxEdits
    BY DEF EditLoad
  <2> QED
    BY <1>0, <2>1
<1>15. ~EditSave(p)
  BY DEF EditSave, NoForm
<1>16. CASE StatementFails(p)
  <2>1. proc' = [proc EXCEPT ![p] = Done(p)]
    BY <1>0, <1>16 DEF StatementFails
  <2> QED
    BY <1>1, <1>4, <1>5, <1>16, <2>1, SameTables DEF StatementFails, store
<1>17. CASE Die(p)
  BY <1>1, <1>3, <1>17, SameTables DEF Die, store
<1> QED
  BY <1>7, <1>8, <1>9, <1>10, <1>12, <1>13, <1>14, <1>15, <1>16, <1>17 DEF OperatorStep, FireStep

\* The environment.
LEMMA WorldAside ==
    ASSUME Typed, NoForm,
           (\E t \in 1..Len(task) : TaskEnds(t)) \/ Tock \/ UNCHANGED vars
    PROVE  Aside
<1>1. UNCHANGED <<job, run, proc, claimed>>
  BY DEF TaskEnds, Tock, vars
<1>2. SameTasks
  <2>1. ASSUME NEW t \in 1..Len(task), TaskEnds(t) PROVE SameTasks
    <3>1. task \in Seq(Tasks) /\ Len(task) \in Nat /\ task[t] \in Tasks
      BY DEF Typed, TypeOK
    <3>2. PICK st \in {"SUCCESSFUL", "FAILED"} : task' = [task EXCEPT ![t].status = st]
      BY <2>1 DEF TaskEnds
    <3>3. PICK x : x = [task[t] EXCEPT !.status = st]
      OBVIOUS
    <3>4. x.job = task[t].job /\ x.for = task[t].for /\ (x.manual <=> task[t].manual)
      BY <3>1, <3>3 DEF Tasks
    <3>5. task' = [task EXCEPT ![t] = x]
      BY <3>2, <3>3
    <3>6. Len(task') = Len(task) /\ \A i \in 1..Len(task) : task'[i] = IF i = t THEN x ELSE task[i]
      BY <3>1, <3>5
    <3> QED
      BY <3>4, <3>6 DEF SameTasks
  <2> QED
    BY <2>1, SameTables DEF Tock, vars
<1> QED
  BY <1>1, <1>2, SameTables DEF Aside, NoForm

\* Every step either leaves the ticks alone or is one of four kinds of a tick's step.
LEMMA StepKinds ==
    ASSUME Cadences \subseteq Walkless, MaxEdits = 0, Typed, NoForm, FireInv, [Next]_vars
    PROVE  \/ Aside
           \/ \E p \in Ticks :
                 \/ \E l : Quiet(p, l)
                 \/ Enqueue(p)
                 \/ \E j \in Jobs, row \in Row, new \in Times, t \in Nat : \E l :
                       Wins(p, j, row, new, t, l)
<1>1. ASSUME NEW p \in Ticks, TickStart(p) \/ TickStep(p) \/ StatementFails(p) \/ Die(p)
      PROVE  \/ \E l : Quiet(p, l)
             \/ Enqueue(p)
             \/ \E j \in Jobs, row \in Row, new \in Times, t \in Nat : \E l :
                   Wins(p, j, row, new, t, l)
  <2>1. CASE Claim(p)
    BY <1>1, <2>1, ClaimOutcome
  <2>2. CASE \/ Guard(p) \/ RecordSkip(p) \/ EnqueueUnresolvable(p) \/ RecordQueued(p)
             \/ Bump(p) \/ RecordFailure(p) \/ MarkFailure(p)
    BY <1>1, <2>2, FireOutcome
  <2>3. CASE \/ TickStart(p) \/ ListQueued(p) \/ ReconcileDone(p) \/ Promote(p) \/ CheckLatest(p)
             \/ Reflect(p) \/ MailFailure(p)
    BY <1>1, <2>3, PassOutcome
  <2>4. CASE StatementFails(p) \/ Die(p)
    BY <1>1, <2>4, FailureOutcome
  <2> QED
    BY <1>1, <2>1, <2>2, <2>3, <2>4 DEF TickStep, FireStep
<1>2. ASSUME NEW p \in Operators,
             \/ OperatorStep(p)
             \/ \E j \in Jobs : RunNow(p, j)
             \/ \E j \in Jobs, e \in BOOLEAN, c \in Cadences : EditLoad(p, j, e, c)
             \/ StatementFails(p) \/ Die(p)
      PROVE  Aside
  BY <1>2, RequestAside
<1> QED
  BY <1>1, <1>2, WorldAside DEF Next, Procs

\* No form is opened.
LEMMA NoFormKept ==
    ASSUME Cadences \subseteq Walkless, MaxEdits = 0, Typed, NoForm, FireInv, [Next]_vars
    PROVE  NoForm'
<1>1. ASSUME NEW p \in Ticks, NEW l, proc' = [proc EXCEPT ![p] = l] PROVE NoForm'
  <2>1. \A q \in Operators : q # p /\ q \in Procs
    BY ProcsAssumption DEF Procs
  <2>2. proc \in [Procs -> Locals]
    BY DEF Typed, TypeOK
  <2> QED
    BY <1>1, <2>1, <2>2 DEF NoForm
<1>2. ASSUME NEW p \in Ticks, NEW l, Quiet(p, l) PROVE NoForm'
  BY <1>1, <1>2 DEF Quiet, Calm
<1>3. ASSUME NEW p \in Ticks, Enqueue(p) PROVE NoForm'
  <2>1. proc' = [proc EXCEPT ![p] = [proc[p] EXCEPT !.pc = "record", !.task = Len(task')]]
    BY <1>3 DEF Enqueue
  <2> QED
    BY <1>1, <2>1
<1>4. ASSUME NEW p \in Ticks, NEW j, NEW row, NEW new, NEW t, NEW l, Wins(p, j, row, new, t, l) PROVE NoForm'
  BY <1>1, <1>4 DEF Wins
<1> QED
  BY <1>2, <1>3, <1>4, StepKinds DEF Aside

\* Every step keeps the invariant behind the fires.
LEMMA FireKept ==
    ASSUME Cadences \subseteq Walkless, MaxEdits = 0, Typed, Typed', NoForm, FireInv, [Next]_vars
    PROVE  FireInv'
<1>1. ASSUME Aside PROVE FireInv'
  <2>1. \A q \in Ticks : proc'[q] = proc[q] /\ AllDue(proc'[q])
    BY <1>1 DEF Aside, AllDue, FireInv, ListsDue
  <2>2. SameTasks /\ SameCursors /\ UNCHANGED claimed
    BY <1>1 DEF Aside
  <2> QED
    BY <2>1, <2>2, FireFrame
<1>2. ASSUME NEW p \in Ticks, NEW l, Quiet(p, l) PROVE FireInv'
  <2>1. p \in Procs /\ Calm(p, l) /\ SameTasks /\ SameCursors /\ UNCHANGED claimed
    BY <1>2 DEF Quiet, Procs
  <2> QED
    BY <2>1, CalmTicks, FireFrame
<1>3. ASSUME NEW p \in Ticks, Enqueue(p) PROVE FireInv'
  BY <1>3, EnqueueFires
<1>4. ASSUME NEW p \in Ticks, NEW j \in Jobs, NEW row \in Row, NEW new \in Times, NEW t \in Nat, NEW l,
             Wins(p, j, row, new, t, l)
      PROVE  FireInv'
  BY <1>4, WinFires
<1> QED
  BY <1>1, <1>2, <1>3, <1>4, StepKinds

\* The invariant holds from the start.
LEMMA FireInit ==
    Init => NoForm /\ FireInv
<1> SUFFICES ASSUME Init PROVE NoForm /\ FireInv
  OBVIOUS
<1>1. claimed = {} /\ task = <<>> /\ \A p \in Procs : proc[p] = Idle
  BY DEF Init, Start
<1>2. \A p \in Procs : proc[p].pc = "idle" /\ proc[p].todo = {}
  BY <1>1 DEF Idle
<1>3. Ticks \subseteq Procs /\ Operators \subseteq Procs
  BY DEF Procs
<1>4. "idle" \notin Working /\ "idle" \notin Unfired
  BY DEF Working, Unfired
<1>5. CursorAhead /\ NoBackfill /\ FiresOnce
  BY <1>1 DEF CursorAhead, NoBackfill, FiresOnce
<1>6. ListsDue /\ HandsClaimed /\ TasksClaimed /\ NoForm
  BY <1>1, <1>2, <1>3, <1>4 DEF ListsDue, HandsClaimed, TasksClaimed, NoForm
<1> QED
  BY <1>5, <1>6 DEF FireInv

\* services.py: "two concurrent ticks can never double-fire the same schedule".  However
\* ticks, Run-now requests, failed statements and kills interleave, a due time of a job
\* is enqueued at most once, if nobody saves an edit form.
THEOREM NeverFiresTwice ==
    ASSUME Cadences \subseteq Walkless, MaxEdits = 0
    PROVE  Spec => []FiresOnce
<1> DEFINE I == Typed /\ NoForm /\ FireInv
<1>1. Init => I
  BY TypedInit, FireInit
<1>2. I /\ [Next]_vars => I'
  BY TypedKept, NoFormKept, FireKept
<1>3. I => FiresOnce
  BY DEF FireInv
<1> QED
  BY <1>1, <1>2, <1>3, PTL DEF Spec

\* docs/skills/scheduler.md: "Neither backfills".  However late the ticks are, of two fires
\* of a job the later one was not yet due when a tick claimed the earlier one.
THEOREM NothingBackfilled ==
    ASSUME Cadences \subseteq Walkless, MaxEdits = 0
    PROVE  Spec => []NoBackfill
<1> DEFINE I == Typed /\ NoForm /\ FireInv
<1>1. Init => I
  BY TypedInit, FireInit
<1>2. I /\ [Next]_vars => I'
  BY TypedKept, NoFormKept, FireKept
<1>3. I => NoBackfill
  BY DEF FireInv
<1> QED
  BY <1>1, <1>2, <1>3, PTL DEF Spec

----------------------------------------------------------------------------
(* Each fire leaves one row.                                               *)

\* The rows of a fire are numbers of runs.
LEMMA RunsOfStep ==
    ASSUME SameRows, NEW j, NEW f
    PROVE  RunsOf(j, f) = RunsOf(j, f)'
BY DEF RunsOf, SameRows

\* A step that keeps the rows keeps the invariant.
LEMMA TraceFrame ==
    ASSUME Typed, TraceInv, SameRows, UNCHANGED claimed,
           \A q \in Ticks :
               \/ proc'[q] = proc[q]
               \/ /\ proc'[q].pc \in Working \cup {"dead"} =>
                        proc'[q].j = proc[q].j /\ proc'[q].row = proc[q].row
                  /\ proc'[q].pc \in Untraced => proc[q].pc \in Untraced
                  /\ proc'[q].pc \in {"bump", "mark"} => proc[q].pc \in {"bump", "mark"}
                  /\ proc'[q].pc \notin Working \cup {"dead"} =>
                        proc[q].pc \notin Untraced \cup {"dead"} /\ proc'[q].j = NoJob
    PROVE  TraceInv'
<1>1. \A j, f : RunsOf(j, f)' = RunsOf(j, f)
  BY RunsOfStep
<1>2. \A j, f : Claims(j, f)' = Claims(j, f)
  BY DEF Claims
<1>3. ASSUME NEW q \in Ticks
      PROVE  /\ proc'[q].pc \in Untraced => (RunsOf(proc[q].j, proc[q].row.next) = {})'
             /\ proc'[q].pc \in {"bump", "mark"} => (RunsOf(proc[q].j, proc[q].row.next) # {})'
             /\ proc'[q].pc \notin Working \cup {"dead"} => proc'[q].j = NoJob
  <2>1. ASSUME proc'[q].pc \in Untraced
        PROVE  /\ proc[q].pc \in Untraced
               /\ proc'[q].j = proc[q].j /\ proc'[q].row = proc[q].row
    BY <2>1 DEF Untraced, Working
  <2>2. ASSUME proc'[q].pc \in {"bump", "mark"}
        PROVE  /\ proc[q].pc \in {"bump", "mark"}
               /\ proc'[q].j = proc[q].j /\ proc'[q].row = proc[q].row
    BY <2>2 DEF Working
  <2>3. proc'[q].pc \notin Working \cup {"dead"} => proc'[q].j = NoJob
    BY DEF TraceInv
  <2>4. proc[q].pc \in Untraced => RunsOf(proc[q].j, proc[q].row.next) = {}
    BY DEF TraceInv
  <2>5. proc[q].pc \in {"bump", "mark"} => RunsOf(proc[q].j, proc[q].row.next) # {}
    BY DEF TraceInv
  <2>6. proc'[q].pc \in Untraced => (RunsOf(proc[q].j, proc[q].row.next) = {})'
    BY <1>1, <2>1, <2>4
  <2>7. proc'[q].pc \in {"bump", "mark"} => (RunsOf(proc[q].j, proc[q].row.next) # {})'
    BY <1>1, <2>2, <2>5
  <2> QED
    BY <2>3, <2>6, <2>7
<1>4. (\A r \in 1..Len(run) : ~run[r].manual => Claims(run[r].job, run[r].for) # {})'
  <2> SUFFICES ASSUME NEW r \in 1..Len(run'), ~run'[r].manual
               PROVE  (Claims(run[r].job, run[r].for) # {})'
    OBVIOUS
  <2>1. r \in 1..Len(run) /\ ~run[r].manual /\ run'[r].job = run[r].job /\ run'[r].for = run[r].for
    BY DEF SameRows
  <2>2. Claims(run[r].job, run[r].for) # {}
    BY <2>1 DEF TraceInv
  <2> QED
    BY <1>2, <2>1, <2>2
<1>5. OneRowPerFire'
  BY DEF TraceInv, OneTracePerFire, OneRowPerFire, SameRows
<1>6. FireLeavesTrace'
  <2> SUFFICES ASSUME NEW c \in claimed
               PROVE  \/ InHand(c.job, c.for)'
                      \/ \E r \in 1..Len(run') : run'[r].job = c.job /\ run'[r].for = c.for
    BY DEF FireLeavesTrace
  <2>1. ASSUME NEW r \in 1..Len(run), run[r].job = c.job, run[r].for = c.for
        PROVE  r \in 1..Len(run') /\ run'[r].job = c.job /\ run'[r].for = c.for
    BY <2>1 DEF SameRows
  <2>2. CASE \E r \in 1..Len(run) : run[r].job = c.job /\ run[r].for = c.for
    BY <2>1, <2>2
  <2>3. CASE InHand(c.job, c.for)
    <3>1. PICK q \in Ticks : proc[q].j = c.job /\ proc[q].row.next = c.for
      BY <2>3 DEF InHand
    <3>2. CASE proc'[q] = proc[q] \/ proc'[q].pc \in Working \cup {"dead"}
      <4>1. proc'[q].j = proc[q].j /\ proc'[q].row = proc[q].row
        BY <3>2
      <4> QED
        BY <3>1, <4>1 DEF InHand
    <3>3. CASE proc'[q] # proc[q] /\ proc'[q].pc \notin Working \cup {"dead"}
      <4>1. proc[q].pc \notin Untraced \cup {"dead"}
        BY <3>3
      <4>2. c.job # NoJob
        BY ProcsAssumption DEF Typed, TypeOK
      <4>3. proc[q].pc \in Working
        BY <3>1, <4>1, <4>2 DEF TraceInv
      <4>4. proc[q].pc \in {"bump", "mark"}
        BY <4>1, <4>3 DEF Untraced, Working
      <4>5. RunsOf(c.job, c.for) # {}
        BY <3>1, <4>4 DEF TraceInv
      <4> QED
        BY <2>2, <4>5 DEF RunsOf
    <3> QED
      BY <3>2, <3>3
  <2> QED
    BY <2>2, <2>3 DEF TraceInv, OneTracePerFire, FireLeavesTrace
<1> QED
  BY <1>3, <1>4, <1>5, <1>6 DEF TraceInv, OneTracePerFire

\* Writing the row of the fire in hand keeps the invariant.
LEMMA RowWritten ==
    ASSUME Typed, FireInv, TraceInv, NEW p \in Ticks, NEW l, Calm(p, l), WritesRow(p, l),
           UNCHANGED claimed
    PROVE  TraceInv'
<1> DEFINE n == Len(run')
           f == proc[p].row.next
<1>0. p \in Procs /\ proc \in [Procs -> Locals]
  BY DEF Procs, Typed, TypeOK
<1>1. proc'[p] = l /\ \A q \in Ticks : q # p => proc'[q] = proc[q]
  BY <1>0 DEF Calm, Procs
<1>2. /\ n = Len(run) + 1 /\ Len(run) \in Nat /\ ~run'[n].manual
      /\ run'[n].job = proc[p].j /\ run'[n].for = f
      /\ \A r \in 1..Len(run) : run'[r] = run[r] /\ r \in 1..Len(run')
      /\ n \in 1..Len(run') /\ \A r \in 1..Len(run') : r = n \/ r \in 1..Len(run)
  BY DEF WritesRow
<1> HIDE DEF n
<1>3. proc[p].pc \in Untraced /\ proc[p].pc \in Working /\ l.pc \notin Untraced \cup {"dead"}
  BY DEF WritesRow, Untraced, Working
<1>4. RunsOf(proc[p].j, f) = {} /\ Claims(proc[p].j, f) # {}
  BY <1>3 DEF TraceInv, FireInv, HandsClaimed
<1>5. \A j, g : Claims(j, g)' = Claims(j, g)
  BY DEF Claims
<1>6. \A q \in Ticks :
         /\ proc'[q].pc \in Untraced => (RunsOf(proc[q].j, proc[q].row.next) = {})'
         /\ proc'[q].pc \in {"bump", "mark"} => (RunsOf(proc[q].j, proc[q].row.next) # {})'
         /\ proc'[q].pc \notin Working \cup {"dead"} => proc'[q].j = NoJob
  <2> TAKE q \in Ticks
  <2>1. CASE q = p
    <3>1. proc'[q].pc \notin Untraced
      BY <1>1, <1>3, <2>1
    <3>2. ASSUME proc'[q].pc \in {"bump", "mark"}
          PROVE  (RunsOf(proc[q].j, proc[q].row.next) # {})'
      <4>1. l.j = proc[p].j /\ l.row = proc[p].row
        BY <1>1, <2>1, <3>2 DEF Calm, Working
      <4>2. n \in RunsOf(proc[q].j, proc[q].row.next)'
        BY <1>1, <1>2, <2>1, <4>1 DEF RunsOf
      <4> QED
        BY <4>2
    <3>3. proc'[q].pc \notin Working \cup {"dead"} => proc'[q].j = NoJob
      BY <1>1, <1>3, <2>1 DEF Calm
    <3> QED
      BY <3>1, <3>2, <3>3
  <2>2. CASE q # p
    <3>1. proc'[q] = proc[q]
      BY <1>1, <2>2
    <3>2. ASSUME proc[q].pc \in Untraced PROVE (RunsOf(proc[q].j, proc[q].row.next) = {})'
      <4>1. Hand(q) # Hand(p)
        BY <1>3, <2>2, <3>2 DEF FireInv, HandsClaimed, Untraced, Working
      <4>2. ~(run'[n].job = proc[q].j /\ run'[n].for = proc[q].row.next)
        BY <1>2, <4>1 DEF Hand
      <4>3. RunsOf(proc[q].j, proc[q].row.next) = {}
        BY <3>2 DEF TraceInv
      <4> QED
        BY <1>2, <3>1, <4>2, <4>3 DEF RunsOf
    <3>3. ASSUME proc[q].pc \in {"bump", "mark"} PROVE (RunsOf(proc[q].j, proc[q].row.next) # {})'
      <4>1. PICK r : r \in RunsOf(proc[q].j, proc[q].row.next)
        BY <3>3 DEF TraceInv
      <4>2. r \in RunsOf(proc[q].j, proc[q].row.next)'
        BY <1>2, <3>1, <4>1 DEF RunsOf
      <4> QED
        BY <4>2
    <3>4. proc'[q].pc \notin Working \cup {"dead"} => proc'[q].j = NoJob
      BY <3>1 DEF TraceInv
    <3> QED
      BY <3>1, <3>2, <3>3, <3>4
  <2> QED
    BY <2>1, <2>2
<1>7. (\A r \in 1..Len(run) : ~run[r].manual => Claims(run[r].job, run[r].for) # {})'
  <2> SUFFICES ASSUME NEW r \in 1..Len(run'), ~run'[r].manual
               PROVE  (Claims(run[r].job, run[r].for) # {})'
    OBVIOUS
  <2>1. Claims(run'[r].job, run'[r].for) # {}
    <3>1. CASE r = n
      BY <1>2, <1>4, <3>1
    <3>2. CASE r \in 1..Len(run)
      <4>1. run'[r] = run[r]
        BY <1>2, <3>2
      <4> QED
        BY <2>1, <3>2, <4>1 DEF TraceInv
    <3> QED
      BY <1>2, <3>1, <3>2
  <2> QED
    BY <1>5, <2>1
<1>8. OneRowPerFire'
  <2> SUFFICES ASSUME NEW r \in 1..Len(run'), NEW s \in 1..Len(run'),
                      ~run'[r].manual, ~run'[s].manual,
                      run'[r].job = run'[s].job, run'[r].for = run'[s].for
               PROVE  r = s
    BY DEF OneRowPerFire
  <2>1. ASSUME NEW i \in 1..Len(run), ~run'[i].manual,
               run'[i].job = run'[n].job, run'[i].for = run'[n].for
        PROVE  FALSE
    BY <1>2, <1>4, <2>1 DEF RunsOf
  <2>2. CASE r \in 1..Len(run) /\ s \in 1..Len(run)
    BY <1>2, <2>2 DEF TraceInv, OneTracePerFire, OneRowPerFire
  <2> QED
    BY <1>2, <2>1, <2>2
<1>9. FireLeavesTrace'
  <2> SUFFICES ASSUME NEW c \in claimed
               PROVE  \/ InHand(c.job, c.for)'
                      \/ \E r \in 1..Len(run') : run'[r].job = c.job /\ run'[r].for = c.for
    BY DEF FireLeavesTrace
  <2>1. CASE \E r \in 1..Len(run) : run[r].job = c.job /\ run[r].for = c.for
    BY <1>2, <2>1
  <2>2. CASE InHand(c.job, c.for)
    <3>1. PICK q \in Ticks : proc[q].j = c.job /\ proc[q].row.next = c.for
      BY <2>2 DEF InHand
    <3>2. CASE q = p
      BY <1>2, <3>1, <3>2
    <3>3. CASE q # p
      BY <1>1, <3>1, <3>3 DEF InHand
    <3> QED
      BY <3>2, <3>3
  <2> QED
    BY <2>1, <2>2 DEF TraceInv, OneTracePerFire, FireLeavesTrace
<1> QED
  BY <1>6, <1>7, <1>8, <1>9 DEF TraceInv, OneTracePerFire

\* Winning a claim puts the fire in the tick's hand; no run is its row yet.
LEMMA WinTraces ==
    ASSUME Typed, FireInv, TraceInv, NEW p \in Ticks, NEW j \in Jobs, NEW row, NEW new \in Times,
           NEW t \in Nat, NEW l, Wins(p, j, row, new, t, l)
    PROVE  TraceInv'
<1> DEFINE c0 == [job |-> j, for |-> row.next, now |-> t]
<1>0. p \in Procs /\ proc \in [Procs -> Locals]
  BY DEF Procs, Typed, TypeOK
<1>1. proc'[p] = l /\ \A q \in Ticks : q # p => proc'[q] = proc[q]
  BY <1>0 DEF Wins, Procs
<1>2. job[j].next = row.next /\ row.next # NoTime
  BY DEF Wins, NoTime
<1>3. Claims(j, row.next) = {}
  BY <1>2, ClaimIsNew DEF FireInv
<1>4. claimed' = claimed \cup {c0} /\ c0.job = j /\ c0.for = row.next
  BY DEF Wins
<1> HIDE DEF c0
<1>5. l.pc = "guard" /\ l.j = j /\ l.row = row /\ run' = run /\ proc[p].pc = "loop"
  BY DEF Wins
<1>6. RunsOf(j, row.next) = {}
  <2> SUFFICES ASSUME NEW r \in RunsOf(j, row.next) PROVE FALSE
    OBVIOUS
  <2>1. r \in 1..Len(run) /\ ~run[r].manual /\ run[r].job = j /\ run[r].for = row.next
    BY DEF RunsOf
  <2>2. Claims(j, row.next) # {}
    BY <2>1 DEF TraceInv
  <2> QED
    BY <1>3, <2>2
<1>7. \A q \in Ticks :
         /\ proc'[q].pc \in Untraced => (RunsOf(proc[q].j, proc[q].row.next) = {})'
         /\ proc'[q].pc \in {"bump", "mark"} => (RunsOf(proc[q].j, proc[q].row.next) # {})'
         /\ proc'[q].pc \notin Working \cup {"dead"} => proc'[q].j = NoJob
  <2> TAKE q \in Ticks
  <2>1. CASE q = p
    BY <1>1, <1>5, <1>6, <2>1 DEF Working, RunsOf
  <2>2. CASE q # p
    <3>1. proc'[q] = proc[q]
      BY <1>1, <2>2
    <3> QED
      BY <1>5, <3>1 DEF TraceInv, RunsOf
  <2> QED
    BY <2>1, <2>2
<1>8. (\A r \in 1..Len(run) : ~run[r].manual => Claims(run[r].job, run[r].for) # {})'
  <2> SUFFICES ASSUME NEW r \in 1..Len(run), ~run[r].manual
               PROVE  (Claims(run[r].job, run[r].for) # {})'
    BY <1>5
  <2>1. Claims(run[r].job, run[r].for) # {}
    BY DEF TraceInv
  <2> QED
    BY <1>4, <1>5, <2>1 DEF Claims
<1>9. OneRowPerFire'
  BY <1>5 DEF TraceInv, OneTracePerFire, OneRowPerFire
<1>10. FireLeavesTrace'
  <2> SUFFICES ASSUME NEW c \in claimed'
               PROVE  \/ InHand(c.job, c.for)'
                      \/ \E r \in 1..Len(run') : run'[r].job = c.job /\ run'[r].for = c.for
    BY DEF FireLeavesTrace
  <2>1. CASE c = c0
    BY <1>1, <1>4, <1>5, <2>1 DEF InHand
  <2>2. CASE c \in claimed /\ InHand(c.job, c.for)
    <3>1. PICK q \in Ticks : proc[q].j = c.job /\ proc[q].row.next = c.for
      BY <2>2 DEF InHand
    <3>2. q # p
      <4>1. c.job # NoJob
        BY <2>2, ProcsAssumption DEF Typed, TypeOK
      <4>2. proc[p].j = NoJob
        BY <1>5 DEF TraceInv, Working
      <4> QED
        BY <3>1, <4>1, <4>2
    <3> QED
      BY <1>1, <3>1, <3>2 DEF InHand
  <2>3. CASE c \in claimed /\ \E r \in 1..Len(run) : run[r].job = c.job /\ run[r].for = c.for
    BY <1>5, <2>3
  <2> QED
    BY <1>4, <2>1, <2>2, <2>3 DEF TraceInv, OneTracePerFire, FireLeavesTrace
<1> QED
  BY <1>7, <1>8, <1>9, <1>10 DEF TraceInv, OneTracePerFire

\* Every step keeps the invariant behind the rows.
LEMMA TraceKept ==
    ASSUME Cadences \subseteq Walkless, MaxEdits = 0, RowsReliable,
           Typed, Typed', NoForm, FireInv, TraceInv, [Next]_vars
    PROVE  TraceInv'
<1>1. ASSUME Aside PROVE TraceInv'
  BY <1>1, TraceFrame DEF Aside
<1>2. ASSUME NEW p \in Ticks, NEW l, Quiet(p, l) PROVE TraceInv'
  <2>1. Calm(p, l) /\ UNCHANGED claimed /\ (Trail(p, l) \/ WritesRow(p, l))
    BY <1>2 DEF Quiet
  <2>2. CASE WritesRow(p, l)
    BY <2>1, <2>2, RowWritten
  <2>3. CASE Trail(p, l)
    <3>1. proc \in [Procs -> Locals] /\ p \in Procs
      BY DEF Typed, TypeOK, Procs
    <3>2. proc'[p] = l /\ \A q \in Ticks : q # p => proc'[q] = proc[q]
      BY <2>1, <3>1 DEF Calm, Procs
    <3>3. /\ l.pc \in Working \cup {"dead"} => l.j = proc[p].j /\ l.row = proc[p].row
          /\ l.pc \in Untraced => proc[p].pc \in Untraced
          /\ l.pc \in {"bump", "mark"} => proc[p].pc \in {"bump", "mark"}
          /\ l.pc \notin Working \cup {"dead"} =>
                proc[p].pc \notin Untraced \cup {"dead"} /\ l.j = NoJob
      BY <2>1, <2>3 DEF Calm, Trail, TraceInv
    <3>4. SameRows
      BY <2>3 DEF Trail
    <3> QED
      BY <2>1, <3>2, <3>3, <3>4, TraceFrame
  <2> QED
    BY <2>1, <2>2, <2>3
<1>3. ASSUME NEW p \in Ticks, Enqueue(p) PROVE TraceInv'
  <2>1. proc \in [Procs -> Locals] /\ p \in Procs /\ proc[p] \in Locals
    BY DEF Typed, TypeOK, Procs
  <2>2. PICK l : l = [proc[p] EXCEPT !.pc = "record", !.task = Len(task')]
    OBVIOUS
  <2>3. l.pc = "record" /\ l.j = proc[p].j /\ l.row = proc[p].row
    BY <2>1, <2>2 DEF Locals
  <2>4. proc' = [proc EXCEPT ![p] = l] /\ proc[p].pc = "enqueue" /\ UNCHANGED <<run, claimed>>
    BY <1>3, <2>2 DEF Enqueue
  <2>5. proc'[p] = l /\ \A q \in Ticks : q # p => proc'[q] = proc[q]
    BY <2>1, <2>4 DEF Procs
  <2>6. /\ l.pc \in Untraced => proc[p].pc \in Untraced
        /\ l.pc \notin {"bump", "mark"} /\ l.pc \in Working \cup {"dead"}
    BY <2>3, <2>4 DEF Untraced, Working
  <2> QED
    BY <2>3, <2>4, <2>5, <2>6, SameTables, TraceFrame
<1>4. ASSUME NEW p \in Ticks, NEW j \in Jobs, NEW row \in Row, NEW new \in Times, NEW t \in Nat, NEW l,
             Wins(p, j, row, new, t, l)
      PROVE  TraceInv'
  BY <1>4, WinTraces
<1> QED
  BY <1>1, <1>2, <1>3, <1>4, StepKinds

\* services.py: "so without a FAILED run + last_status this fire is lost", and models.py:
\* "Append-only record of one tick's decision for a job."  A claimed fire is in hand or has
\* its row, and one row only, whatever enqueueing, recording or marking fails and whichever
\* processes are killed, if nobody saves an edit form and no statement fails between the
\* claim and the enqueueing, while a skip or a failure is recorded, or after the row.
THEOREM OneRowForEachFire ==
    ASSUME Cadences \subseteq Walkless, MaxEdits = 0, RowsReliable
    PROVE  Spec => []OneTracePerFire
<1> DEFINE I == Typed /\ NoForm /\ FireInv /\ TraceInv
<1>1. Init => TraceInv
  <2> SUFFICES ASSUME Init PROVE TraceInv
    OBVIOUS
  <2>1. claimed = {} /\ run = <<>> /\ \A p \in Ticks : proc[p] = Idle
    BY DEF Init, Start, Procs
  <2>2. \A p \in Ticks : proc[p].pc = "idle" /\ proc[p].j = NoJob
    BY <2>1 DEF Idle
  <2>3. OneTracePerFire
    BY <2>1 DEF OneTracePerFire, FireLeavesTrace, OneRowPerFire
  <2> QED
    BY <2>1, <2>2, <2>3 DEF TraceInv, Untraced
<1>2. Init => I
  BY <1>1, TypedInit, FireInit
<1>3. I /\ [Next]_vars => I'
  BY TypedKept, NoFormKept, FireKept, TraceKept
<1>4. I => OneTracePerFire
  BY DEF TraceInv
<1> QED
  BY <1>2, <1>3, <1>4, PTL DEF Spec

=============================================================================
