----------------------- MODULE TaskReliabilityProofs -----------------------
(***************************************************************************)
(* Proofs about TaskReliability, for any number of rows, workers, task     *)
(* paths and pinned budgets.                                               *)
(***************************************************************************)
EXTENDS TaskReliability, WellFoundedInduction, TLAPS

\* What a detection sweep still has to look at was reported by its worker.
LEMMA TodoReported ==
    ASSUME IInv, NEW p \in Threads
    PROVE  thr[p].phase = "detect" => \A u \in thr[p].todo : Reported(u)
BY DEF IInv, ThreadsSane, ThreadSane

\* The locals of a thread that is done with one task.
LEMMA DoneIsResting ==
    ASSUME IInv, NEW p \in Threads
    PROVE  /\ Done(p) \in Locals /\ Done(p).pc \in {"idle", "next"}
           /\ Done(p).phase \in {"recv", thr[p].phase} /\ Done(p).todo \in {{}, thr[p].todo}
           /\ Done(p).phase = "detect" => \A u \in Done(p).todo : Reported(u)
<1>1. thr[p] \in Locals
  BY DEF IInv, TypeOK
<1>2. /\ Done(p) \in Locals /\ Done(p).pc \in {"idle", "next"}
      /\ Done(p).phase \in {"recv", thr[p].phase} /\ Done(p).todo \in {{}, thr[p].todo}
  BY <1>1 DEF Done, Idle, Off, Locals, Pcs, Phases, Causes, NoId
<1> QED
  BY <1>2, TodoReported

\* maybe_retry's first half leaves the thread resting, or about to insert a
\* retry that its attempt's budget allows.
LEMMA ConsideringSane ==
    ASSUME IInv, NEW p \in Threads, NEW t \in Ids, NEW cause \in Causes
    PROVE  /\ Considering(p, t, cause) \in Locals
           /\ \/ Considering(p, t, cause).pc \in {"idle", "next"}
              \/ /\ Considering(p, t, cause).pc = "insert"
                 /\ Considering(p, t, cause).job = t
                 /\ Terminal(t) /\ row[t].exc # "superseded" /\ att[t].attempt < Budget(t)
           /\ Considering(p, t, cause).phase \in {"recv", thr[p].phase}
           /\ Considering(p, t, cause).todo \in {{}, thr[p].todo}
           /\ Considering(p, t, cause).phase = "detect" =>
                  \A u \in Considering(p, t, cause).todo : Reported(u)
<1>1. thr[p] \in Locals
  BY DEF IInv, TypeOK
<1>2. Classify(t, cause) \in Causes
  BY DEF Classify, Causes
<1>3. CASE Decide(t, cause)
  <2>1. Terminal(t) /\ row[t].exc # "superseded" /\ att[t].attempt < Budget(t)
    BY <1>3 DEF Decide, Terminal, Bookkeeping
  <2> QED
    BY <1>1, <1>2, <1>3, <2>1, TodoReported DEF Considering, Locals, Pcs
<1>4. CASE ~Decide(t, cause)
  BY <1>4, DoneIsResting DEF Considering
<1> QED
  BY <1>3, <1>4

\* A step that changes neither table keeps the invariant, provided each thread
\* it moves is sane where it arrives.
LEMMA TablesUnchanged ==
    ASSUME IInv, TypeOK', UNCHANGED <<row, att>>,
           \A p \in Threads : thr'[p] = thr[p] \/ ThreadSane(p)'
    PROVE  IInv'
<1>1. ThreadsSane'
  BY DEF IInv, ThreadsSane, ThreadSane, Reported, Terminal, Budget, Pinned
<1>2. RowsSane' /\ ChainsLinked'
  BY DEF IInv, RowsSane, ChainsLinked, Linked, Used, Terminal, Unrecorded
<1>3. ChainWithinBudget' /\ CancelledNeverRuns' /\ MarkersTruthful'
  BY DEF IInv, ChainWithinBudget, CancelledNeverRuns, MarkersTruthful, MarkerTruthful, Used, Budget, Pinned,
         Started, HasChild, ChildrenOf, Reported, Terminal
<1> QED
  BY <1>1, <1>2, <1>3 DEF IInv

LEMMA InvInit == Init => IInv
<1> SUFFICES ASSUME Init PROVE IInv
  OBVIOUS
<1>1. Unenqueued \in Rows
  BY PathsAssumption DEF Unenqueued, Rows, Excs
<1>2. \A t \in Ids : Unrecorded(t) \in Attempts
  BY DEF Unrecorded, Attempts, Causes, Ids, NoId
<1>3. Off \in Locals
  BY DEF Off, Locals, Pcs, Phases, Causes, NoId
<1>4. TypeOK
  BY <1>1, <1>2, <1>3 DEF Init, TypeOK
<1>5. \A t \in Ids : /\ row[t].status = "none" /\ row[t].exc = "none" /\ row[t].by = NoWorker
                     /\ att[t] = Unrecorded(t) /\ att[t].parent = NoId /\ att[t].root = t
                     /\ att[t].attempt = 1 /\ ~att[t].marked /\ ~att[t].cancelled
  BY DEF Init, Unenqueued, Unrecorded
<1>6. RowsSane /\ ChainsLinked /\ ChainWithinBudget /\ CancelledNeverRuns /\ MarkersTruthful
  BY <1>5 DEF RowsSane, ChainsLinked, Linked, ChainWithinBudget, CancelledNeverRuns, MarkersTruthful, MarkerTruthful, Used
<1>7. ThreadsSane
  BY DEF Init, ThreadsSane, ThreadSane, Off
<1> QED
  BY <1>4, <1>6, <1>7 DEF IInv

\* The process, heartbeat and clock steps that touch neither table.
LEMMA WorkerKeepsInv ==
    ASSUME IInv, NEW w \in Workers,
           \/ StartWorker(w) \/ Crash(w) \/ StopWorker(w) \/ Pause(w) \/ Resume(w)
           \/ Beat(w) \/ MissBeats(w) \/ AgeHeartbeat(w)
    PROVE  IInv'
<1> USE DEF IInv
<1>0. Main(w) \in Threads /\ BeatThread(w) \in Threads /\ Main(w) # BeatThread(w)
  BY DEF Main, BeatThread, Threads
<1>1. Off \in Locals /\ Idle \in Locals /\ [Idle EXCEPT !.pc = "boot"] \in Locals
  BY DEF Off, Idle, Locals, Pcs, Phases, Causes, NoId
<1>2. /\ Off.pc = "off" /\ Idle.pc = "idle" /\ [Idle EXCEPT !.pc = "boot"].pc = "boot"
      /\ Off.phase = "recv" /\ Idle.phase = "recv" /\ [Idle EXCEPT !.pc = "boot"].phase = "recv"
  BY DEF Off, Idle
<1>3. faults' \in Nat /\ UNCHANGED <<row, att>>
  BY DEF StartWorker, Crash, StopWorker, Pause, Resume, Beat, MissBeats, AgeHeartbeat, Fault, TypeOK
<1>4. live' \in [Workers -> {"new", "up", "paused", "down"}]
  BY DEF StartWorker, Crash, StopWorker, Pause, Resume, Beat, MissBeats, AgeHeartbeat, TypeOK
<1>5. hb' \in [Workers -> {"none", "fresh", "stale", "stopped"}] /\ missed' \in [Workers -> BOOLEAN]
  BY DEF StartWorker, Crash, StopWorker, Pause, Resume, Beat, MissBeats, AgeHeartbeat, TypeOK
<1>6. /\ thr' \in [Threads -> Locals]
      /\ \A p \in Threads : \/ thr'[p] = thr[p]
                            \/ thr'[p].pc \in {"off", "idle", "boot"} /\ thr'[p].phase = "recv"
  <2>1. CASE UNCHANGED thr
    BY <2>1 DEF TypeOK
  <2>2. CASE thr' = [thr EXCEPT ![Main(w)] = Off, ![BeatThread(w)] = Off]
    BY <2>2, <1>0, <1>1, <1>2 DEF TypeOK
  <2>3. CASE thr' = [thr EXCEPT ![Main(w)] = [Idle EXCEPT !.pc = "boot"], ![BeatThread(w)] = Idle]
    BY <2>3, <1>0, <1>1, <1>2 DEF TypeOK
  <2> QED
    BY <2>1, <2>2, <2>3 DEF StartWorker, Crash, StopWorker, Pause, Resume, Beat, MissBeats, AgeHeartbeat
<1>7. \A p \in Threads :
        thr'[p].pc \in {"off", "idle", "boot"} /\ thr'[p].phase = "recv" => ThreadSane(p)'
  BY DEF ThreadSane
<1>8. TypeOK'
  BY <1>3, <1>4, <1>5, <1>6 DEF TypeOK
<1> QED
  BY <1>3, <1>6, <1>7, <1>8, TablesUnchanged

\* Steps of a thread that only change its own locals.
LEMMA ThreadMoveKeepsInv ==
    ASSUME IInv, NEW p \in Threads, NEW l \in Locals,
           thr' = [thr EXCEPT ![p] = l],
           UNCHANGED <<row, att, live, hb, missed>>, faults' \in Nat,
           l.phase = "detect" => \A u \in l.todo : Reported(u),
           \/ l.pc \in {"idle", "next"}
           \/ l.pc = "read" /\ l.job \in Ids
           \/ /\ l.pc = "insert" /\ l.job \in Ids /\ Terminal(l.job)
              /\ row[l.job].exc # "superseded" /\ att[l.job].attempt < Budget(l.job)
    PROVE  IInv'
<1>1. TypeOK'
  BY DEF IInv, TypeOK
<1>2. thr'[p] = l /\ \A q \in Threads : q # p => thr'[q] = thr[q]
  BY DEF IInv, TypeOK
<1>3. ThreadSane(p)'
  BY <1>2 DEF ThreadSane, Reported, Terminal, Budget, Pinned
<1>4. \A q \in Threads : thr'[q] = thr[q] \/ ThreadSane(q)'
  BY <1>2, <1>3
<1> QED
  BY <1>1, <1>4, TablesUnchanged

\* A step that rewrites one enqueued row keeps the invariant if a terminal row
\* stays terminal, what a worker reported stays, a cancelled row stays, and only
\* a READY row is cancelled.
LEMMA RowRewritten ==
    ASSUME IInv, TypeOK', ThreadsSane', UNCHANGED att,
           NEW t \in Ids, NEW r \in Rows, row' = [row EXCEPT ![t] = r],
           Used(t), r.status \notin {"none", "READY"}, r.path = row[t].path,
           Terminal(t) => r.status \in {"FAILED", "SUCCESSFUL"},
           Reported(t) => r.status = row[t].status /\ r.exc = row[t].exc,
           row[t].exc = "superseded" =>
               r.exc = "superseded" /\ r.status = row[t].status /\ r.by = row[t].by,
           r.exc = "superseded" /\ row[t].exc # "superseded" =>
               row[t].status = "READY" /\ r.status = "FAILED" /\ r.by = row[t].by
    PROVE  IInv'
<1> USE DEF IInv
<1>0. row \in [Ids -> Rows] /\ att \in [Ids -> Attempts]
  BY DEF TypeOK
<1>1. row'[t] = r /\ \A u \in Ids : u # t => row'[u] = row[u]
  BY <1>0
<1>2. RowsSane'
  BY <1>1 DEF RowsSane, Used
<1>3. \A u \in Ids : (Used(u) <=> Used(u)') /\ (Terminal(u) => Terminal(u)')
                     /\ row'[u].path = row[u].path /\ (Reported(u) => Reported(u)')
  BY <1>1 DEF Used, Terminal, Reported
<1>4. \A c \in Ids : att[c].parent \in Ids \cup {NoId}
  BY <1>0 DEF Attempts
<1>5. ChainsLinked'
  BY <1>3, <1>4 DEF ChainsLinked, Linked
<1>6. ChainWithinBudget'
  BY <1>3 DEF ChainWithinBudget, Budget, Pinned
<1>7. CancelledNeverRuns'
  <2> SUFFICES ASSUME NEW u \in Ids, row'[u].exc = "superseded"
               PROVE  row'[u].status = "FAILED" /\ row'[u].by = NoWorker
                        /\ ~\E c \in Ids : att[c].parent = u
    BY DEF CancelledNeverRuns, Started, HasChild, ChildrenOf
  <2>1. CASE row[u].exc = "superseded"
    BY <2>1, <1>1 DEF CancelledNeverRuns, Started, HasChild, ChildrenOf
  <2>2. CASE row[u].exc # "superseded"
    <3>1. u = t /\ row[t].status = "READY" /\ r.status = "FAILED" /\ r.by = row[t].by
      BY <2>2, <1>1
    <3>2. row[t].by = NoWorker
      BY <3>1 DEF RowsSane
    <3>3. ~\E c \in Ids : att[c].parent = t
      BY <3>1 DEF ChainsLinked, Linked, Terminal, Ids, NoId
    <3> QED
      BY <3>1, <3>2, <3>3, <1>1
  <2> QED
    BY <2>1, <2>2
<1>8. MarkersTruthful'
  <2> SUFFICES ASSUME NEW c \in Ids
               PROVE  /\ att[c].marked => att[c].cause = "lost" /\ Reported(att[c].parent)'
                      /\ att[c].cancelled => att[c].marked /\ row'[c].exc = "superseded"
    BY DEF MarkersTruthful, MarkerTruthful
  <2>1. att[c].marked => att[c].parent \in Ids
    BY <1>4 DEF ChainsLinked, Linked
  <2> QED
    BY <2>1, <1>1, <1>3 DEF MarkersTruthful, MarkerTruthful
<1> QED
  BY <1>2, <1>5, <1>6, <1>7, <1>8

\* Under the same conditions a thread that does not move stays sane.
LEMMA RowRewrittenThread ==
    ASSUME IInv, UNCHANGED att,
           NEW t \in Ids, NEW r \in Rows, row' = [row EXCEPT ![t] = r],
           r.path = row[t].path,
           Terminal(t) => r.status \in {"FAILED", "SUCCESSFUL"},
           Reported(t) => r.status = row[t].status /\ r.exc = row[t].exc,
           row[t].exc = "superseded" => r.exc = "superseded",
           r.exc = "superseded" /\ row[t].exc # "superseded" => row[t].status = "READY",
           NEW q \in Threads, thr'[q] = thr[q],
           thr[q].pc = "run" /\ thr[q].job = t =>
               /\ r.by = row[t].by
               /\ r.status = "RUNNING" \/ (r.status = "FAILED" /\ r.exc = "lost")
    PROVE  ThreadSane(q)'
<1>0. row \in [Ids -> Rows] /\ ThreadSane(q)
  BY DEF IInv, TypeOK, ThreadsSane
<1>1. row'[t] = r /\ \A u \in Ids : u # t => row'[u] = row[u]
  BY <1>0
<1>2. \A u \in Ids : /\ Terminal(u) => Terminal(u)'
                     /\ Reported(u) => Reported(u)'
                     /\ row'[u].path = row[u].path
                     /\ row[u].exc = "superseded" => row'[u].exc = "superseded"
                     /\ Terminal(u) /\ row[u].exc # "superseded" => row'[u].exc # "superseded"
  BY <1>1 DEF Terminal, Reported
<1>3. \A u \in Ids : Budget(u)' = Budget(u)
  BY <1>2 DEF Budget, Pinned
<1> DEFINE u == thr[q].job
<1>4. thr[q].pc = "run" => /\ q[2] = "main" /\ u \in Ids /\ row'[u].by = q[1]
                           /\ \/ row'[u].status = "RUNNING"
                              \/ row'[u].status = "FAILED" /\ row'[u].exc = "lost"
  BY <1>0, <1>1 DEF ThreadSane
<1>5. /\ thr[q].pc = "late" => u \in Ids /\ Reported(u)'
      /\ thr[q].pc = "read" => u \in Ids
      /\ thr[q].pc = "insert" => /\ u \in Ids /\ Terminal(u)' /\ row'[u].exc # "superseded"
                                 /\ att[u].attempt < Budget(u)'
  BY <1>0, <1>2, <1>3 DEF ThreadSane
<1>6. thr[q].pc \in {"cancel", "flag"} =>
          /\ u \in Ids
          /\ \E c \in Ids : att[c].parent = u
          /\ \A c \in Ids : att[c].parent = u =>
                att[c].marked /\ (thr[q].pc = "flag" => row'[c].exc = "superseded")
  BY <1>0, <1>2 DEF ThreadSane
<1>7. thr[q].phase = "detect" => \A v \in thr[q].todo : Reported(v)'
  <2>1. thr[q].todo \subseteq Ids
    BY DEF IInv, TypeOK, Locals
  <2> QED
    BY <2>1, <1>0, <1>2 DEF ThreadSane
<1> QED
  BY <1>4, <1>5, <1>6, <1>7 DEF ThreadSane

\* Upstream's claim and finish, and the clocks.
LEMMA ClaimKeepsInv ==
    ASSUME IInv, NEW w \in Workers, NEW t \in Ids, Claim(w, t)
    PROVE  IInv'
<1> DEFINE r == [row[t] EXCEPT !.status = "RUNNING", !.by = w]
           l == [Idle EXCEPT !.pc = "run", !.job = t]
<1>0. row[t] \in Rows /\ thr \in [Threads -> Locals] /\ row \in [Ids -> Rows]
  BY DEF IInv, TypeOK
<1>1. r \in Rows /\ r.status = "RUNNING" /\ r.by = w /\ r.exc = row[t].exc /\ r.path = row[t].path
  BY <1>0 DEF Rows
<1>2. l \in Locals /\ l.pc = "run" /\ l.job = t /\ l.phase = "recv"
  BY DEF Idle, Off, Locals, Pcs, Phases, Causes, NoId
<1>3. Main(w) \in Threads /\ Main(w)[1] = w /\ Main(w)[2] = "main"
  BY DEF Main, Threads
<1>4. row[t].status = "READY" /\ row[t].exc = "none" /\ row[t].by = NoWorker
  BY DEF Claim, IInv, RowsSane
<1>5. row' = [row EXCEPT ![t] = r] /\ thr' = [thr EXCEPT ![Main(w)] = l] /\ UNCHANGED <<att, live, hb, missed, faults>>
  BY DEF Claim
<1>6. TypeOK'
  BY <1>0, <1>1, <1>2, <1>3, <1>5 DEF IInv, TypeOK
<1>7. ThreadsSane'
  <2> SUFFICES ASSUME NEW q \in Threads PROVE ThreadSane(q)'
    BY DEF ThreadsSane
  <2>1. CASE q = Main(w)
    BY <2>1, <1>0, <1>1, <1>2, <1>3, <1>5 DEF ThreadSane
  <2>2. CASE q # Main(w)
    <3>1. thr'[q] = thr[q]
      BY <2>2, <1>0, <1>5
    <3>2. ~(thr[q].pc = "run" /\ thr[q].job = t)
      BY <1>4 DEF IInv, ThreadsSane, ThreadSane
    <3> QED
      BY <3>1, <3>2, <1>1, <1>4, <1>5, RowRewrittenThread DEF Terminal, Reported
  <2> QED
    BY <2>1, <2>2
<1> QED
  BY <1>1, <1>4, <1>5, <1>6, <1>7, RowRewritten DEF Terminal, Reported, Used

LEMMA FinishKeepsInv ==
    ASSUME IInv, NEW w \in Workers, NEW exc \in Outcomes,
           Finish(w, exc)
    PROVE  IInv'
<1> DEFINE t == thr[Main(w)].job
           r == [row[t] EXCEPT !.status = IF exc = "none" THEN "SUCCESSFUL" ELSE "FAILED",
                               !.exc = exc, !.aged = FALSE]
           l == [thr[Main(w)] EXCEPT !.pc = "late"]
<1>3. Main(w) \in Threads /\ Main(w)[1] = w /\ Main(w)[2] = "main"
  BY DEF Main, Threads
<1>4. /\ t \in Ids /\ row[t].by = w
      /\ row[t].status = "RUNNING" \/ (row[t].status = "FAILED" /\ row[t].exc = "lost")
  BY <1>3 DEF Finish, IInv, ThreadsSane, ThreadSane
<1>0. row[t] \in Rows /\ thr \in [Threads -> Locals] /\ row \in [Ids -> Rows]
  BY <1>4 DEF IInv, TypeOK
<1>1. r \in Rows /\ r.status \in {"FAILED", "SUCCESSFUL"} /\ r.by = w /\ r.exc = exc /\ r.path = row[t].path
  BY <1>0, <1>4, OutcomesAssumption DEF Rows, Excs
<1>2. /\ l \in Locals /\ l.pc = "late" /\ l.job = t
      /\ l.phase = thr[Main(w)].phase /\ l.todo = thr[Main(w)].todo /\ l.todo \subseteq Ids
  BY <1>0, <1>3 DEF Locals, Pcs
<1>5. row' = [row EXCEPT ![t] = r] /\ thr' = [thr EXCEPT ![Main(w)] = l] /\ UNCHANGED <<att, live, hb, missed, faults>>
  BY DEF Finish
<1>6. TypeOK'
  BY <1>0, <1>1, <1>2, <1>3, <1>5 DEF IInv, TypeOK
<1>8. row[t].exc # "superseded"
  BY <1>4, WorkersAssumption DEF IInv, CancelledNeverRuns, Started
<1>9. exc # "superseded"
  BY OutcomesAssumption
<1>7. ThreadsSane'
  <2> SUFFICES ASSUME NEW q \in Threads PROVE ThreadSane(q)'
    BY DEF ThreadsSane
  <2>1. CASE q = Main(w)
    <3>1. Reported(t)'
      BY <1>0, <1>1, <1>4, <1>5, OutcomesAssumption DEF Reported, Terminal
    <3>2. \A v \in Ids : Reported(v) => Reported(v)'
      BY <3>1, <1>0, <1>5 DEF Reported, Terminal
    <3>3. thr'[q] = l
      BY <2>1, <1>0, <1>3, <1>5
    <3>4. l.phase = "detect" => \A v \in l.todo : Reported(v)'
      BY <3>2, <1>2, <1>3 DEF IInv, ThreadsSane, ThreadSane
    <3>5. thr'[q].job = t /\ thr'[q].pc = "late"
      BY <3>3, <1>2
    <3>6. Reported(thr[q].job)'
      BY <3>1, <2>1
    <3>7. thr'[q].job \in Ids
      BY <3>5, <1>4
    <3> HIDE DEF l
    <3> QED
      BY <3>3, <3>4, <3>5, <3>6, <3>7 DEF ThreadSane
  <2>2. CASE q # Main(w)
    <3>1. thr'[q] = thr[q]
      BY <2>2, <1>0, <1>5
    <3>2. ~(thr[q].pc = "run" /\ thr[q].job = t)
      BY <2>2, <1>4 DEF IInv, ThreadsSane, ThreadSane, Threads, Main
    <3> QED
      BY <3>1, <3>2, <1>1, <1>4, <1>5, <1>8, <1>9, RowRewrittenThread DEF Terminal, Reported
  <2> QED
    BY <2>1, <2>2
<1> QED
  BY <1>1, <1>4, <1>5, <1>6, <1>7, <1>8, <1>9, RowRewritten DEF Terminal, Reported, Used

LEMMA AgeRowKeepsInv ==
    ASSUME IInv, NEW t \in Ids, AgeOrphan(t) \/ AgeFailure(t)
    PROVE  IInv'
<1> DEFINE r == [row[t] EXCEPT !.aged = TRUE]
<1>0. row[t] \in Rows /\ row \in [Ids -> Rows]
  BY DEF IInv, TypeOK
<1>1. /\ r \in Rows /\ r.status = row[t].status /\ r.by = row[t].by
      /\ r.exc = row[t].exc /\ r.path = row[t].path
  BY <1>0 DEF Rows
<1>2. row' = [row EXCEPT ![t] = r] /\ UNCHANGED <<att, live, hb, missed, thr, faults>>
  BY DEF AgeOrphan, AgeFailure
<1>3. row[t].status \in {"RUNNING", "FAILED"}
  BY DEF AgeOrphan, AgeFailure
<1>4. TypeOK'
  BY <1>0, <1>1, <1>2 DEF IInv, TypeOK
<1>5. ThreadsSane'
  <2> SUFFICES ASSUME NEW q \in Threads PROVE ThreadSane(q)'
    BY DEF ThreadsSane
  <2>1. thr[q].pc = "run" /\ thr[q].job = t =>
           r.status = "RUNNING" \/ (r.status = "FAILED" /\ r.exc = "lost")
    BY <1>1 DEF IInv, ThreadsSane, ThreadSane
  <2>2. thr'[q] = thr[q] /\ UNCHANGED att
    BY <1>2
  <2>3. /\ Terminal(t) => r.status \in {"FAILED", "SUCCESSFUL"}
        /\ Reported(t) => r.status = row[t].status /\ r.exc = row[t].exc
    BY <1>1 DEF Terminal
  <2> HIDE DEF r
  <2> QED
    BY <2>1, <2>2, <2>3, <1>1, <1>2, RowRewrittenThread
<1> QED
  BY <1>1, <1>2, <1>3, <1>4, <1>5, RowRewritten DEF Terminal, Reported, Used

LEMMA ReapKeepsInv ==
    ASSUME IInv, NEW w \in Workers, NEW t \in Ids, ReapTask(w, t)
    PROVE  IInv'
<1> DEFINE p == BeatThread(w)
           r == [row[t] EXCEPT !.status = "FAILED", !.exc = "lost", !.aged = FALSE]
           l == [thr[p] EXCEPT !.pc = "read", !.job = t, !.cause = "lost", !.todo = Todo(w) \ {t}]
           m == [thr[p] EXCEPT !.todo = Todo(w) \ {t}]
<1>0. /\ row[t] \in Rows /\ thr \in [Threads -> Locals] /\ row \in [Ids -> Rows]
      /\ p \in Threads /\ p[2] = "beat"
  BY DEF IInv, TypeOK, BeatThread, Threads
<1>1. r \in Rows /\ r.status = "FAILED" /\ r.by = row[t].by /\ r.exc = "lost" /\ r.path = row[t].path
  BY <1>0 DEF Rows, Excs
<1>2. /\ l \in Locals /\ l.pc = "read" /\ l.job = t /\ m \in Locals /\ m.pc = thr[p].pc
      /\ l.phase = "reap" /\ m.phase = "reap"
  BY <1>0 DEF Locals, Pcs, Causes, Todo, ReapTask, InPhase
<1>3. CASE row[t].status = "RUNNING"
  <2>1. row' = [row EXCEPT ![t] = r] /\ thr' = [thr EXCEPT ![p] = l] /\ UNCHANGED <<att, live, hb, missed, faults>>
    BY <1>3 DEF ReapTask
  <2>2. TypeOK'
    <3> HIDE DEF r, l, p
    <3> QED
      BY <2>1, <1>0, <1>1, <1>2 DEF IInv, TypeOK
  <2>3. row[t].exc # "superseded"
    BY <1>3 DEF IInv, CancelledNeverRuns
  <2>4. ThreadsSane'
    <3> SUFFICES ASSUME NEW q \in Threads PROVE ThreadSane(q)'
      BY DEF ThreadsSane
    <3>1. CASE q = p
      BY <3>1, <2>1, <1>0, <1>2 DEF ThreadSane
    <3>2. CASE q # p
      <4>1. thr'[q] = thr[q]
        BY <3>2, <2>1, <1>0
      <4> QED
        BY <4>1, <1>1, <1>3, <2>1, <2>3, RowRewrittenThread DEF Terminal, Reported
    <3> QED
      BY <3>1, <3>2
  <2> QED
    BY <1>1, <1>3, <2>1, <2>2, <2>3, <2>4, RowRewritten DEF Terminal, Reported, Used
<1>4. CASE row[t].status # "RUNNING"
  <2>1. thr' = [thr EXCEPT ![p] = m] /\ UNCHANGED <<row, att, live, hb, missed, faults>>
    BY <1>4 DEF ReapTask
  <2>2. m.pc = "next" /\ faults' \in Nat
    BY <1>2, <2>1 DEF ReapTask, InPhase, At, IInv, TypeOK
  <2> QED
    BY <2>1, <2>2, <1>0, <1>2, ThreadMoveKeepsInv
<1> QED
  BY <1>3, <1>4

LEMMA CancelKeepsInv ==
    ASSUME IInv, NEW p \in Threads, NEW c \in Ids, CancelRetry(p, c)
    PROVE  IInv'
<1> DEFINE r == [row[c] EXCEPT !.status = "FAILED", !.exc = "superseded"]
           l == [thr[p] EXCEPT !.pc = "flag"]
<1>0. row[c] \in Rows /\ thr \in [Threads -> Locals] /\ row \in [Ids -> Rows] /\ thr[p] \in Locals
  BY DEF IInv, TypeOK
<1>1. /\ r \in Rows /\ r.status = "FAILED" /\ r.by = row[c].by
      /\ r.exc = "superseded" /\ r.path = row[c].path
  BY <1>0 DEF Rows, Excs
<1>2. /\ l \in Locals /\ l.pc = "flag" /\ l.job = thr[p].job
      /\ l.phase = thr[p].phase /\ l.todo = thr[p].todo /\ l.todo \subseteq Ids
  BY <1>0 DEF Locals, Pcs
<1>3. CASE row[c].status = "READY"
  <2>1. row' = [row EXCEPT ![c] = r] /\ thr' = [thr EXCEPT ![p] = l] /\ UNCHANGED <<att, live, hb, missed, faults>>
    BY <1>3 DEF CancelRetry
  <2>2. TypeOK'
    BY <2>1, <1>0, <1>1, <1>2 DEF IInv, TypeOK
  <2>3. ThreadsSane'
    <3> SUFFICES ASSUME NEW q \in Threads PROVE ThreadSane(q)'
      BY DEF ThreadsSane
    <3>1. CASE q = p
      <4>1. /\ thr[p].pc = "cancel" /\ thr[p].job \in Ids /\ att[c].parent = thr[p].job
            /\ \A d \in Ids : att[d].parent = thr[p].job => att[d].marked
        BY DEF CancelRetry, At, IInv, ThreadsSane, ThreadSane
      <4>2. \A d \in Ids : att[d].parent = thr[p].job => d = c
        BY <4>1 DEF IInv, ChainsLinked, Linked, Ids, NoId
      <4>3. thr'[p] = l /\ row'[c].exc = "superseded"
        BY <2>1, <1>0, <1>1
      <4>4. \A v \in Ids : Reported(v) => Reported(v)'
        BY <1>0, <1>3, <2>1 DEF Reported, Terminal
      <4>5. l.phase = "detect" => \A v \in l.todo : Reported(v)'
        BY <4>4, <1>2, TodoReported
      <4> HIDE DEF l
      <4> QED
        BY <3>1, <4>1, <4>2, <4>3, <4>5, <2>1, <1>2 DEF ThreadSane
    <3>2. CASE q # p
      <4>1. thr'[q] = thr[q]
        BY <3>2, <2>1, <1>0
      <4>2. ~(thr[q].pc = "run" /\ thr[q].job = c)
        BY <1>3 DEF IInv, ThreadsSane, ThreadSane
      <4> QED
        BY <4>1, <4>2, <1>1, <1>3, <2>1, RowRewrittenThread DEF Terminal, Reported
    <3> QED
      BY <3>1, <3>2
  <2> QED
    BY <1>1, <1>3, <2>1, <2>2, <2>3, RowRewritten DEF Terminal, Reported, Used, IInv, CancelledNeverRuns
<1>4. CASE row[c].status # "READY"
  <2>1. /\ thr' = [thr EXCEPT ![p] = Done(p)] /\ UNCHANGED <<row, att, live, hb, missed, faults>>
        /\ faults' \in Nat
    BY <1>4 DEF CancelRetry, IInv, TypeOK
  <2> QED
    BY <2>1, DoneIsResting, ThreadMoveKeepsInv
<1> QED
  BY <1>3, <1>4

\* A step that only raises flags of recorded attempts keeps the invariant if
\* what it marks was reported and what it flags cancelled was cancelled.
LEMMA FlagsRaised ==
    ASSUME IInv, TypeOK', UNCHANGED row,
           \A p \in Threads : thr'[p] = thr[p] \/ ThreadSane(p)',
           \A c \in Ids :
              /\ att'[c].root = att[c].root /\ att'[c].parent = att[c].parent
              /\ att'[c].attempt = att[c].attempt /\ att'[c].cause = att[c].cause
              /\ att'[c].pin = att[c].pin
              /\ att[c].marked => att'[c].marked
              /\ att[c].parent = NoId => (att'[c].marked <=> att[c].marked)
              /\ ~Used(c) => att'[c] = att[c]
              /\ att'[c].marked => att[c].marked \/ (att[c].cause = "lost" /\ Reported(att[c].parent))
              /\ att'[c].cancelled => att'[c].marked /\ (att[c].cancelled \/ row[c].exc = "superseded")
    PROVE  IInv'
<1> USE DEF IInv
<1>1. RowsSane'
  BY DEF RowsSane, Used, Unrecorded
<1>2. ChainsLinked'
  <2>1. \A u \in Ids \cup {NoId} : (Used(u)' <=> Used(u)) /\ (Terminal(u)' <=> Terminal(u))
    BY DEF Used, Terminal
  <2>2. \A c \in Ids : att[c].parent \in Ids \cup {NoId}
    BY DEF TypeOK, Attempts
  <2> QED
    BY <2>1, <2>2 DEF ChainsLinked, Linked
<1>3. ChainWithinBudget' /\ CancelledNeverRuns'
  BY DEF ChainWithinBudget, CancelledNeverRuns, Used, Budget, Pinned, Started, HasChild, ChildrenOf
<1>4. MarkersTruthful'
  BY DEF MarkersTruthful, MarkerTruthful, Reported, Terminal
<1>5. ThreadsSane'
  <2> SUFFICES ASSUME NEW q \in Threads, thr'[q] = thr[q] PROVE ThreadSane(q)'
    BY DEF ThreadsSane
  <2>1. ThreadSane(q)
    BY DEF ThreadsSane
  <2>2. thr[q].job \in Ids => Budget(thr[q].job)' = Budget(thr[q].job)
    BY DEF Budget, Pinned
  <2> QED
    BY <2>1, <2>2 DEF ThreadSane, Reported, Terminal
<1> QED
  BY <1>1, <1>2, <1>3, <1>4, <1>5

LEMMA AgeAttemptKeepsInv ==
    ASSUME IInv, NEW c \in Ids, AgeAttempt(c)
    PROVE  IInv'
<1> DEFINE a == [att[c] EXCEPT !.aged = TRUE]
<1>1. att \in [Ids -> Attempts] /\ att[c] \in Attempts
  BY DEF IInv, TypeOK
<1>2. /\ a \in Attempts /\ a.root = att[c].root /\ a.parent = att[c].parent /\ a.cause = att[c].cause
      /\ a.attempt = att[c].attempt /\ a.pin = att[c].pin /\ (a.marked <=> att[c].marked)
      /\ (a.cancelled <=> att[c].cancelled)
  BY <1>1 DEF Attempts
<1>3. att' = [att EXCEPT ![c] = a] /\ UNCHANGED <<row, live, hb, missed, thr, faults>>
  BY DEF AgeAttempt
<1>4. TypeOK'
  BY <1>1, <1>2, <1>3 DEF IInv, TypeOK
<1>5. Used(c)
  <2>1. att[c].cause # "first" => Used(c)
    <3>1. Unrecorded(c).cause = "first"
      BY DEF Unrecorded
    <3> QED
      BY <3>1 DEF IInv, RowsSane
  <2> QED
    BY <2>1 DEF AgeAttempt
<1>6. \A d \in Ids : att[d].cancelled => att[d].marked
  BY DEF IInv, MarkersTruthful, MarkerTruthful
<1> HIDE DEF a
<1> QED
  BY <1>1, <1>2, <1>3, <1>4, <1>5, <1>6, FlagsRaised

LEMMA MarkKeepsInv ==
    ASSUME IInv, NEW p \in Threads, NEW t \in Ids, Reported(t), MarkSuperseded(p, t)
    PROVE  IInv'
<1> DEFINE l == [thr[p] EXCEPT !.pc = "cancel", !.job = t, !.todo = thr[p].todo \ {t}]
<1>0. att \in [Ids -> Attempts] /\ thr \in [Threads -> Locals] /\ thr[p] \in Locals
  BY DEF IInv, TypeOK
<1>1. /\ l \in Locals /\ l.pc = "cancel" /\ l.job = t
      /\ l.phase = thr[p].phase /\ l.todo \subseteq thr[p].todo
  BY <1>0 DEF Locals, Pcs
<1>2. /\ att' = [c \in Ids |-> IF Markable(c, t) THEN [att[c] EXCEPT !.marked = TRUE] ELSE att[c]]
      /\ thr' = [thr EXCEPT ![p] = l] /\ UNCHANGED <<row, live, hb, missed, faults>>
  BY DEF MarkSuperseded
<1>3. \A c \in Ids : /\ att'[c] \in Attempts
                     /\ att'[c].root = att[c].root /\ att'[c].parent = att[c].parent
                     /\ att'[c].attempt = att[c].attempt /\ att'[c].cause = att[c].cause
                     /\ att'[c].pin = att[c].pin /\ (att'[c].cancelled <=> att[c].cancelled)
                     /\ att'[c].marked <=> (att[c].marked \/ Markable(c, t))
                     /\ ~Markable(c, t) => att'[c] = att[c]
  <2> SUFFICES ASSUME NEW c \in Ids
               PROVE  /\ att'[c] \in Attempts
                      /\ att'[c].root = att[c].root /\ att'[c].parent = att[c].parent
                      /\ att'[c].attempt = att[c].attempt /\ att'[c].cause = att[c].cause
                      /\ att'[c].pin = att[c].pin /\ (att'[c].cancelled <=> att[c].cancelled)
                      /\ att'[c].marked <=> (att[c].marked \/ Markable(c, t))
                      /\ ~Markable(c, t) => att'[c] = att[c]
    OBVIOUS
  <2>0. att[c] \in Attempts
    BY <1>0
  <2>1. CASE Markable(c, t)
    <3>1. att'[c] = [att[c] EXCEPT !.marked = TRUE]
      BY <2>1, <1>2
    <3> QED
      BY <2>0, <2>1, <3>1 DEF Attempts
  <2>2. CASE ~Markable(c, t)
    <3>1. att'[c] = att[c]
      BY <2>2, <1>2
    <3> QED
      BY <2>0, <2>2, <3>1
  <2> QED
    BY <2>1, <2>2
<1>4. TypeOK'
  <2>1. att' \in [Ids -> Attempts]
    BY <1>2, <1>3
  <2> HIDE DEF l
  <2> QED
    BY <2>1, <1>0, <1>1, <1>2 DEF IInv, TypeOK
<1>5. PICK c \in Ids : Markable(c, t)
  BY DEF MarkSuperseded
<1>6. \A d \in Ids : att[d].parent = t => d = c
  BY <1>5 DEF Markable, IInv, ChainsLinked, Linked, Ids, NoId
<1>7. \A d \in Ids : Markable(d, t) => Used(d) /\ att[d].parent # NoId
  BY DEF Markable, IInv, ChainsLinked, Linked, Ids, NoId
<1>8. ThreadSane(p)'
  <2>1. thr'[p] = l
    BY <1>0, <1>2
  <2>2. l.phase = "detect" => \A v \in l.todo : Reported(v)'
    BY <1>1, <1>2, TodoReported DEF Reported, Terminal
  <2> HIDE DEF l
  <2> QED
    BY <2>1, <2>2, <1>1, <1>2, <1>3, <1>5, <1>6 DEF ThreadSane, Markable
<1>9. \A q \in Threads : thr'[q] = thr[q] \/ ThreadSane(q)'
  BY <1>0, <1>2, <1>8
<1>10. \A d \in Ids : att[d].cancelled => att[d].marked
  BY DEF IInv, MarkersTruthful, MarkerTruthful
<1>11. \A d \in Ids : Markable(d, t) => att[d].cause = "lost" /\ Reported(att[d].parent)
  BY DEF Markable
<1> QED
  BY <1>2, <1>3, <1>4, <1>7, <1>9, <1>10, <1>11, FlagsRaised

LEMMA FlagKeepsInv ==
    ASSUME IInv, NEW p \in Threads, FlagCancelled(p)
    PROVE  IInv'
<1> DEFINE t == thr[p].job
<1>0. att \in [Ids -> Attempts] /\ thr \in [Threads -> Locals]
  BY DEF IInv, TypeOK
<1>1. /\ t \in Ids
      /\ \A c \in Ids : att[c].parent = t => att[c].marked /\ row[c].exc = "superseded"
  BY DEF FlagCancelled, At, IInv, ThreadsSane, ThreadSane
<1>2. /\ att' = [c \in Ids |-> IF att[c].parent = t THEN [att[c] EXCEPT !.cancelled = TRUE] ELSE att[c]]
      /\ thr' = [thr EXCEPT ![p] = Done(p)] /\ UNCHANGED <<row, live, hb, missed, faults>>
  BY DEF FlagCancelled
<1>3. \A c \in Ids : /\ att'[c] \in Attempts
                     /\ att'[c].root = att[c].root /\ att'[c].parent = att[c].parent
                     /\ att'[c].attempt = att[c].attempt /\ att'[c].cause = att[c].cause
                     /\ att'[c].pin = att[c].pin /\ (att'[c].marked <=> att[c].marked)
                     /\ att'[c].cancelled <=> (att[c].cancelled \/ att[c].parent = t)
                     /\ att[c].parent # t => att'[c] = att[c]
  <2> SUFFICES ASSUME NEW c \in Ids
               PROVE  /\ att'[c] \in Attempts
                      /\ att'[c].root = att[c].root /\ att'[c].parent = att[c].parent
                      /\ att'[c].attempt = att[c].attempt /\ att'[c].cause = att[c].cause
                      /\ att'[c].pin = att[c].pin /\ (att'[c].marked <=> att[c].marked)
                      /\ att'[c].cancelled <=> (att[c].cancelled \/ att[c].parent = t)
                      /\ att[c].parent # t => att'[c] = att[c]
    OBVIOUS
  <2>0. att[c] \in Attempts
    BY <1>0
  <2>1. CASE att[c].parent = t
    <3>1. att'[c] = [att[c] EXCEPT !.cancelled = TRUE]
      BY <2>1, <1>2
    <3> QED
      BY <2>0, <2>1, <3>1 DEF Attempts
  <2>2. CASE att[c].parent # t
    <3>1. att'[c] = att[c]
      BY <2>2, <1>2
    <3> QED
      BY <2>0, <2>2, <3>1
  <2> QED
    BY <2>1, <2>2
<1>4. /\ Done(p) \in Locals /\ Done(p).pc \in {"idle", "next"}
      /\ Done(p).phase = "detect" => \A v \in Done(p).todo : Reported(v)'
  BY <1>2, DoneIsResting DEF Reported, Terminal
<1>5. TypeOK'
  <2>1. att' \in [Ids -> Attempts]
    BY <1>2, <1>3
  <2> QED
    BY <2>1, <1>0, <1>2, <1>4 DEF IInv, TypeOK
<1>6. \A d \in Ids : att[d].parent = t => Used(d)
  BY <1>1 DEF IInv, ChainsLinked, Linked, Ids, NoId
<1>7. ThreadSane(p)'
  BY <1>0, <1>2, <1>4 DEF ThreadSane
<1>8. \A q \in Threads : thr'[q] = thr[q] \/ ThreadSane(q)'
  BY <1>0, <1>2, <1>7
<1>9. \A d \in Ids : att[d].cancelled => att[d].marked
  BY DEF IInv, MarkersTruthful, MarkerTruthful
<1> QED
  BY <1>1, <1>2, <1>3, <1>5, <1>6, <1>8, <1>9, FlagsRaised

\* Enqueueing a row that starts a chain, or that continues one at an attempt
\* which failed, has budget left and no retry yet, keeps the invariant.
LEMMA RowAdded ==
    ASSUME IInv, TypeOK', NEW n \in Ids, ~Used(n), NEW path, NEW a,
           row' = [row EXCEPT ![n] = ReadyRow(path)], att' = [att EXCEPT ![n] = a],
           ~a.marked, ~a.cancelled,
           \/ a.parent = NoId /\ a.root = n /\ a.attempt = 1
           \/ /\ a.parent \in Ids /\ Terminal(a.parent) /\ row[a.parent].exc # "superseded"
              /\ ~HasChild(a.parent)
              /\ a.root = att[a.parent].root /\ a.pin = att[a.parent].pin
              /\ path = row[a.parent].path /\ a.attempt = att[a.parent].attempt + 1
              /\ att[a.parent].attempt < Budget(a.parent),
           \A p \in Threads :
              \/ thr'[p] = thr[p]
              \/ /\ thr'[p].pc \in {"idle", "next"}
                 /\ thr'[p].phase = "detect" => \A u \in thr'[p].todo : Reported(u)
    PROVE  IInv'
<1> USE DEF IInv
<1> DEFINE r == ReadyRow(path)
<1>0. row \in [Ids -> Rows] /\ att \in [Ids -> Attempts]
  BY DEF TypeOK
<1>1. /\ row'[n] = r /\ att'[n] = a
      /\ \A u \in Ids : u # n => row'[u] = row[u] /\ att'[u] = att[u]
  BY <1>0
<1>2. r.status = "READY" /\ r.exc = "none" /\ r.by = NoWorker /\ r.path = path
  BY DEF ReadyRow
<1>3. /\ row[n].status = "none" /\ row[n].exc = "none" /\ att[n].parent = NoId
      /\ ~att[n].marked /\ ~att[n].cancelled
  <2>1. Unrecorded(n).parent = NoId /\ ~Unrecorded(n).marked /\ ~Unrecorded(n).cancelled
    BY DEF Unrecorded
  <2> QED
    BY <2>1 DEF Used, RowsSane
<1>4. /\ \A c \in Ids : att[c].parent \in Ids \cup {NoId} /\ att[c].attempt \in Nat /\ NoId \notin Ids
      /\ \A c \in Ids : att[c].parent # n
  <2>1. NoId \notin Ids
    BY DEF Ids, NoId
  <2>2. \A c \in Ids : att[c].parent \in Ids \cup {NoId} /\ att[c].attempt \in Nat
    BY <1>0 DEF Attempts
  <2>3. \A c \in Ids : att[c].parent # NoId => Terminal(att[c].parent)
    BY DEF ChainsLinked, Linked
  <2>4. ~Terminal(n)
    BY <1>3 DEF Terminal
  <2> QED
    BY <2>1, <2>2, <2>3, <2>4
<1>5. a.parent # n
  BY <1>3, <1>4 DEF Terminal
<1>6. \A u \in Ids : u # n => /\ Used(u)' <=> Used(u)
                              /\ Terminal(u)' <=> Terminal(u)
                              /\ Reported(u)' <=> Reported(u)
                              /\ Budget(u)' = Budget(u)
  BY <1>1 DEF Used, Terminal, Reported, Budget, Pinned
<1>7. Used(n)' /\ ~Terminal(n) /\ ~Reported(n)
  BY <1>1, <1>2, <1>3 DEF Used, Terminal, Reported
<1>8. RowsSane'
  <2> SUFFICES ASSUME NEW u \in Ids
               PROVE  /\ ~Used(u)' => att'[u] = Unrecorded(u) /\ row'[u].exc = "none"
                      /\ row'[u].status \in {"none", "READY"} =>
                             row'[u].by = NoWorker /\ row'[u].exc = "none"
    BY DEF RowsSane, Unrecorded
  <2>1. CASE u = n
    BY <2>1, <1>1, <1>2, <1>7
  <2>2. CASE u # n
    BY <2>2, <1>1, <1>6 DEF RowsSane
  <2> QED
    BY <2>1, <2>2
<1>9. ChainsLinked'
  <2>1. ASSUME NEW c \in Ids
        PROVE  Linked(c)'
    <3>1. CASE c = n
      <4>1. CASE a.parent = NoId
        BY <3>1, <4>1, <1>1, <1>4 DEF Linked
      <4>2. CASE a.parent # NoId
        <5>1. a.parent \in Ids /\ a.parent # n
          BY <4>2, <1>5, <1>4
        <5>2. att[a.parent].attempt >= 1
          BY <5>1, <1>4 DEF ChainsLinked, Linked
        <5> QED
          BY <3>1, <4>2, <5>1, <5>2, <1>1, <1>2, <1>6, <1>7, <1>4 DEF Linked
      <4> QED
        BY <4>1, <4>2
    <3>2. CASE c # n
      <4>1. att'[c] = att[c] /\ row'[c] = row[c]
        BY <3>2, <1>1
      <4>2. CASE att[c].parent = NoId
        BY <4>1, <4>2 DEF ChainsLinked, Linked
      <4>3. CASE att[c].parent # NoId
        BY <3>2, <4>1, <4>3, <1>1, <1>4, <1>6 DEF ChainsLinked, Linked
      <4> QED
        BY <4>2, <4>3
    <3> QED
      BY <3>1, <3>2
  <2>2. ASSUME NEW c \in Ids, NEW d \in Ids, att'[c].parent = att'[d].parent, att'[c].parent # NoId
        PROVE  c = d
    <3>1. \A u \in Ids : att[u].parent = a.parent => a.parent = NoId
      BY <1>4 DEF HasChild, ChildrenOf
    <3> QED
      BY <2>2, <3>1, <1>1 DEF ChainsLinked, Linked
  <2> QED
    BY <2>1, <2>2 DEF ChainsLinked
<1>10. ChainWithinBudget'
  <2>1. ASSUME NEW t \in Ids, Used(t)'
        PROVE  att'[t].attempt <= Budget(t)' \/ att'[t].attempt = 1
    <3>1. CASE t # n
      BY <2>1, <3>1, <1>1, <1>6 DEF ChainWithinBudget
    <3>2. CASE t = n /\ a.parent \in Ids
      <4>1. Budget(n)' = Budget(a.parent)
        BY <3>2, <1>1, <1>2, <1>4 DEF Budget, Pinned
      <4>2. Budget(a.parent) \in Nat
        BY <3>2, <1>0, PolicyAssumption DEF Budget, Pinned, Rows, Attempts, Policies
      <4> QED
        BY <3>2, <4>1, <4>2, <1>1, <1>4
    <3> QED
      BY <3>1, <3>2, <1>1
  <2>2. ASSUME NEW u \in Ids, Used(u), u # n, att[u].root = a.root, att[u].attempt = a.attempt
        PROVE  FALSE
    <3>1. CASE a.parent = NoId
      <4>1. att[u].parent = NoId
        BY <2>2, <3>1, <1>4 DEF ChainsLinked, Linked
      <4> QED
        BY <4>1, <2>2, <3>1, <1>4 DEF ChainsLinked, Linked
    <3>2. CASE a.parent \in Ids
      <4> DEFINE t == a.parent
                 v == att[u].parent
      <4>0. att[t].attempt >= 1 /\ Used(t)
        BY <3>2, <1>4 DEF ChainsLinked, Linked, Terminal, Used
      <4>1. v \in Ids /\ Terminal(v) /\ att[v].root = att[t].root /\ att[u].attempt = att[v].attempt + 1
        BY <2>2, <3>2, <4>0, <1>4 DEF ChainsLinked, Linked
      <4>2. att[v].attempt = att[t].attempt /\ Used(v)
        BY <4>1, <2>2, <3>2, <1>4 DEF Terminal, Used
      <4>3. v = t
        BY <4>0, <4>1, <4>2, <3>2 DEF ChainWithinBudget
      <4> QED
        BY <4>3, <3>2 , <1>4 DEF HasChild, ChildrenOf
    <3> QED
      BY <3>1, <3>2
  <2>3. ASSUME NEW u \in Ids, NEW v \in Ids, Used(u)', Used(v)',
               att'[u].root = att'[v].root, att'[u].attempt = att'[v].attempt
        PROVE  u = v
    BY <2>2, <2>3, <1>1, <1>6 DEF ChainWithinBudget
  <2> QED
    BY <2>1, <2>3 DEF ChainWithinBudget
<1>11. CancelledNeverRuns'
  <2> SUFFICES ASSUME NEW u \in Ids, row'[u].exc = "superseded"
               PROVE  row'[u].status = "FAILED" /\ row'[u].by = NoWorker
                        /\ \A c \in Ids : att'[c].parent # u
    BY DEF CancelledNeverRuns, Started, HasChild, ChildrenOf
  <2>1. u # n /\ row'[u] = row[u]
    BY <1>1, <1>2
  <2> QED
    BY <2>1, <1>1, <1>4 DEF CancelledNeverRuns, Started, HasChild, ChildrenOf
<1>12. MarkersTruthful'
  <2> SUFFICES ASSUME NEW c \in Ids
               PROVE  MarkerTruthful(c)'
    BY DEF MarkersTruthful
  <2>1. CASE c = n
    BY <2>1, <1>1 DEF MarkerTruthful
  <2>2. CASE c # n
    <3>1. att'[c] = att[c] /\ row'[c] = row[c]
      BY <2>2, <1>1
    <3>2. att[c].marked => att[c].parent \in Ids /\ att[c].parent # n
      BY <1>4 DEF ChainsLinked, Linked
    <3> QED
      BY <3>1, <3>2, <1>6 DEF MarkersTruthful, MarkerTruthful
  <2> QED
    BY <2>1, <2>2
<1>13. ThreadsSane'
  <2> SUFFICES ASSUME NEW q \in Threads PROVE ThreadSane(q)'
    BY DEF ThreadsSane
  <2>3. thr'[q].phase = "detect" => \A v \in thr'[q].todo : Reported(v)'
    <3>1. thr'[q].todo \subseteq Ids
      BY DEF TypeOK, Locals
    <3>2. thr'[q].phase = "detect" => \A v \in thr'[q].todo : Reported(v)
      BY TodoReported
    <3> QED
      BY <3>1, <3>2, <1>6, <1>7
  <2>4. CASE thr'[q].pc \in {"idle", "next"}
    BY <2>3, <2>4 DEF ThreadSane
  <2> SUFFICES ASSUME thr'[q] = thr[q] PROVE ThreadSane(q)'
    BY <2>4
  <2> DEFINE u == thr[q].job
  <2>0. ThreadSane(q)
    BY DEF ThreadsSane
  <2>1. thr[q].pc \in {"run", "late", "insert", "cancel", "flag"} => u \in Ids /\ u # n
    BY <2>0, <1>3, <1>4, <1>7 DEF ThreadSane
  <2>2. thr[q].pc \in {"cancel", "flag"} =>
           /\ \E c \in Ids : att'[c].parent = u
           /\ \A c \in Ids : att'[c].parent = u =>
                 att'[c].marked /\ (thr[q].pc = "flag" => row'[c].exc = "superseded")
    BY <2>0, <2>1, <1>1, <1>3, <1>4 DEF ThreadSane, HasChild, ChildrenOf
  <2> QED
    BY <2>0, <2>1, <2>2, <2>3, <1>1, <1>6 DEF ThreadSane
<1> QED
  BY <1>8, <1>9, <1>10, <1>11, <1>12, <1>13

LEMMA EnqueueKeepsInv ==
    ASSUME IInv, NEW n \in Ids, NEW path \in Paths, NEW pin \in Pins, EnqueueTask(n, path, pin)
    PROVE  IInv'
<1> DEFINE a == [Unrecorded(n) EXCEPT !.pin = pin]
<1>1. /\ a \in Attempts /\ ~a.marked /\ ~a.cancelled
      /\ a.parent = NoId /\ a.root = n /\ a.attempt = 1
  BY PinsAssumption DEF Unrecorded, Attempts, Causes, Ids, NoId
<1>2. ReadyRow(path) \in Rows
  BY DEF ReadyRow, Rows, Excs
<1>3. /\ row' = [row EXCEPT ![n] = ReadyRow(path)] /\ att' = [att EXCEPT ![n] = a]
      /\ ~Used(n) /\ UNCHANGED <<live, hb, missed, thr, faults>>
  BY DEF EnqueueTask, Fresh
<1> HIDE DEF a
<1>4. TypeOK'
  BY <1>1, <1>2, <1>3 DEF IInv, TypeOK
<1> QED
  BY <1>1, <1>3, <1>4, RowAdded

LEMMA InsertKeepsInv ==
    ASSUME IInv, NEW p \in Threads, NEW n \in Ids, InsertRetry(p, n)
    PROVE  IInv'
<1> DEFINE t == thr[p].job
           a == [Unrecorded(n) EXCEPT !.root = att[t].root, !.parent = t,
                    !.attempt = att[t].attempt + 1, !.cause = thr[p].cause, !.pin = att[t].pin]
<1>1. /\ t \in Ids /\ Terminal(t) /\ row[t].exc # "superseded"
      /\ att[t].attempt < Budget(t) /\ ~HasChild(t)
  BY DEF InsertRetry, At, IInv, ThreadsSane, ThreadSane
<1>2. /\ thr \in [Threads -> Locals] /\ thr[p] \in Locals
      /\ row[t] \in Rows /\ att[t] \in Attempts
  BY <1>1 DEF IInv, TypeOK
<1>3. /\ a \in Attempts /\ ~a.marked /\ ~a.cancelled
      /\ a.parent = t /\ a.root = att[t].root /\ a.attempt = att[t].attempt + 1 /\ a.pin = att[t].pin
  <2>1. /\ att[t].root \in Ids /\ att[t].attempt + 1 \in Nat /\ att[t].pin \in Nat
        /\ thr[p].cause \in Causes
    BY <1>2 DEF Attempts, Locals
  <2>2. Unrecorded(n) \in Attempts /\ ~Unrecorded(n).marked /\ ~Unrecorded(n).cancelled
    BY DEF Unrecorded, Attempts, Causes, Ids, NoId
  <2> HIDE DEF t
  <2> QED
    BY <1>1, <2>1, <2>2 DEF Attempts
<1>4. ReadyRow(row[t].path) \in Rows
  BY <1>2 DEF ReadyRow, Rows, Excs
<1>5. /\ row' = [row EXCEPT ![n] = ReadyRow(row[t].path)] /\ att' = [att EXCEPT ![n] = a]
      /\ thr' = [thr EXCEPT ![p] = Done(p)]
      /\ ~Used(n) /\ UNCHANGED <<live, hb, missed, faults>>
  BY DEF InsertRetry, Fresh
<1>6. /\ Done(p) \in Locals /\ Done(p).pc \in {"idle", "next"}
      /\ Done(p).phase = "detect" => \A u \in Done(p).todo : Reported(u)
  BY DoneIsResting
<1> HIDE DEF a, t
<1>7. TypeOK'
  BY <1>2, <1>3, <1>4, <1>5, <1>6 DEF IInv, TypeOK
<1>8. \A q \in Threads :
        \/ thr'[q] = thr[q]
        \/ /\ thr'[q].pc \in {"idle", "next"}
           /\ thr'[q].phase = "detect" => \A u \in thr'[q].todo : Reported(u)
  BY <1>2, <1>5, <1>6
<1> QED
  BY <1>1, <1>3, <1>5, <1>7, <1>8, RowAdded

\* Where the receiver goes when it recorded no late completion.
LEMMA NotLateSane ==
    ASSUME IInv, NEW w \in Workers, thr[Main(w)].job \in Ids
    PROVE  /\ NotLate(w) \in Locals
           /\ NotLate(w).pc = "idle" \/ (NotLate(w).pc = "read" /\ NotLate(w).job \in Ids)
           /\ NotLate(w).phase = "detect" => \A u \in NotLate(w).todo : Reported(u)
<1>0. Main(w) \in Threads
  BY DEF Main, Threads
<1>1. thr[Main(w)] \in Locals
  BY <1>0 DEF IInv, TypeOK
<1> QED
  BY <1>0, <1>1, TodoReported DEF NotLate, Idle, Off, Locals, Pcs, Phases, Causes, NoId

LEMMA ReceiverKeepsInv ==
    ASSUME IInv, NEW w \in Workers, RecordLateCompletion(w) \/ ReceiverFault(w)
    PROVE  IInv'
<1>0. Main(w) \in Threads /\ thr[Main(w)] \in Locals /\ Idle \in Locals /\ Idle.pc = "idle" /\ Idle.phase = "recv"
  BY DEF IInv, TypeOK, Main, Threads, Idle, Off, Locals, Pcs, Phases, Causes, NoId
<1>1. CASE RecordLateCompletion(w)
  <2>1. thr[Main(w)].job \in Ids /\ Reported(thr[Main(w)].job)
    BY <1>0, <1>1 DEF RecordLateCompletion, At, IInv, ThreadsSane, ThreadSane
  <2>2. CASE MarkSuperseded(Main(w), thr[Main(w)].job)
    BY <1>0, <2>1, <2>2, MarkKeepsInv
  <2>3. CASE thr' = [thr EXCEPT ![Main(w)] = NotLate(w)] /\ UNCHANGED <<row, att, live, hb, missed, faults>>
    <3>1. faults' \in Nat
      BY <2>3 DEF IInv, TypeOK
    <3> QED
      BY <1>0, <2>1, <2>3, <3>1, NotLateSane, ThreadMoveKeepsInv
  <2> QED
    BY <1>1, <2>2, <2>3 DEF RecordLateCompletion
<1>2. CASE ReceiverFault(w)
  <2>1. faults' \in Nat /\ UNCHANGED <<row, att, live, hb, missed>>
    BY <1>2 DEF ReceiverFault, Fault, IInv, TypeOK
  <2>2. CASE thr[Main(w)].pc \in {"late", "cancel", "flag"} /\ thr' = [thr EXCEPT ![Main(w)] = NotLate(w)]
    <3>1. thr[Main(w)].job \in Ids
      BY <1>0, <2>2 DEF IInv, ThreadsSane, ThreadSane
    <3> QED
      BY <1>0, <2>1, <2>2, <3>1, NotLateSane, ThreadMoveKeepsInv
  <2>3. CASE thr' = [thr EXCEPT ![Main(w)] = Idle]
    BY <1>0, <2>1, <2>3, ThreadMoveKeepsInv
  <2> QED
    BY <1>2, <2>2, <2>3 DEF ReceiverFault
<1> QED
  BY <1>1, <1>2

\* maybe_retry's read, and the insert that loses to the unique parent_id.
LEMMA RetryMoveKeepsInv ==
    ASSUME IInv, NEW p \in Threads, ReadForRetry(p) \/ InsertConflict(p)
    PROVE  IInv'
<1>0. thr[p] \in Locals /\ thr[p].cause \in Causes /\ TypeOK
  BY DEF IInv, TypeOK, Locals
<1>1. faults' \in Nat /\ UNCHANGED <<row, att, live, hb, missed>>
  BY DEF ReadForRetry, InsertConflict, IInv, TypeOK
<1>2. CASE ReadForRetry(p)
  <2> DEFINE l == Considering(p, thr[p].job, thr[p].cause)
  <2>1. thr[p].job \in Ids
    BY <1>2 DEF ReadForRetry, At, IInv, ThreadsSane, ThreadSane
  <2>2. thr' = [thr EXCEPT ![p] = l]
    BY <1>2 DEF ReadForRetry
  <2>3. /\ l \in Locals
        /\ \/ l.pc \in {"idle", "next"}
           \/ /\ l.pc = "insert" /\ l.job \in Ids /\ Terminal(l.job)
              /\ row[l.job].exc # "superseded" /\ att[l.job].attempt < Budget(l.job)
        /\ l.phase = "detect" => \A u \in l.todo : Reported(u)
    BY <1>0, <2>1, ConsideringSane
  <2> HIDE DEF l
  <2> QED
    BY <1>1, <2>2, <2>3, ThreadMoveKeepsInv
<1>3. CASE InsertConflict(p)
  BY <1>0, <1>1, <1>3, DoneIsResting, ThreadMoveKeepsInv DEF InsertConflict
<1> QED
  BY <1>2, <1>3

\* The steps of a pass that only move the heartbeat thread.
LEMMA PassMoveKeepsInv ==
    ASSUME IInv, NEW w \in Workers,
           StartPass(w) \/ StartRepair(w) \/ StartDetect(w) \/ \E t \in Ids : RepairRetry(w, t)
    PROVE  IInv'
<1> DEFINE b == BeatThread(w)
<1>0. b \in Threads /\ thr[b] \in Locals /\ TypeOK
  BY DEF IInv, TypeOK, BeatThread, Threads
<1>1. faults' \in Nat /\ UNCHANGED <<row, att, live, hb, missed>>
  BY DEF StartPass, StartRepair, StartDetect, RepairRetry, IInv, TypeOK
<1>2. LostFor(w) \subseteq Ids
  BY DEF LostFor
<1>3. CASE StartPass(w)
  <2> DEFINE l == [thr[b] EXCEPT !.pc = "next", !.phase = "reap", !.todo = LostFor(w)]
  <2>1. l \in Locals /\ l.pc = "next" /\ l.phase = "reap" /\ thr' = [thr EXCEPT ![b] = l]
    BY <1>0, <1>2, <1>3 DEF StartPass, Locals, Pcs, Phases
  <2> HIDE DEF l
  <2> QED
    BY <1>0, <1>1, <2>1, ThreadMoveKeepsInv
<1>4. CASE StartRepair(w)
  <2> DEFINE l == [thr[b] EXCEPT !.phase = "repair", !.todo = Unrepaired]
  <2>1. l \in Locals /\ l.pc = "next" /\ l.phase = "repair" /\ thr' = [thr EXCEPT ![b] = l]
    BY <1>0, <1>4 DEF StartRepair, InPhase, At, Locals, Phases, Unrepaired
  <2> HIDE DEF l
  <2> QED
    BY <1>0, <1>1, <2>1, ThreadMoveKeepsInv
<1>6. CASE StartDetect(w)
  <2> DEFINE l == [thr[b] EXCEPT !.phase = "detect", !.todo = LateUnmarked]
  <2>1. \A u \in LateUnmarked : u \in Ids /\ Reported(u)
    BY DEF LateUnmarked, Reported, IInv, CancelledNeverRuns, HasChild
  <2>2. LateUnmarked \subseteq Ids
    BY <2>1
  <2>3. l \in Locals /\ l.pc = "next" /\ l.todo = LateUnmarked /\ thr' = [thr EXCEPT ![b] = l]
    BY <1>0, <1>6, <2>2 DEF StartDetect, InPhase, At, Locals, Phases
  <2> HIDE DEF l
  <2> QED
    BY <1>0, <1>1, <2>1, <2>3, ThreadMoveKeepsInv
<1>5. ASSUME NEW t \in Ids, RepairRetry(w, t)
      PROVE  IInv'
  <2> DEFINE c == Considering(b, t, "failed")
             l == [c EXCEPT !.todo = Todo(w) \ {t}]
  <2>1. thr' = [thr EXCEPT ![b] = l] /\ thr[b].phase = "repair" /\ Todo(w) \subseteq Ids
    BY <1>0, <1>5 DEF RepairRetry, InPhase, Todo, Locals
  <2>2. /\ c \in Locals /\ c.phase \in {"recv", "repair"}
        /\ \/ c.pc \in {"idle", "next"}
           \/ /\ c.pc = "insert" /\ c.job \in Ids /\ Terminal(c.job)
              /\ row[c.job].exc # "superseded" /\ att[c.job].attempt < Budget(c.job)
    BY <1>0, <2>1, ConsideringSane DEF Causes
  <2> HIDE DEF c
  <2>3. l \in Locals /\ l.pc = c.pc /\ l.job = c.job /\ l.phase = c.phase
    BY <2>1, <2>2 DEF Locals
  <2> HIDE DEF l
  <2> QED
    BY <1>0, <1>1, <2>1, <2>2, <2>3, ThreadMoveKeepsInv
<1> QED
  BY <1>3, <1>4, <1>5, <1>6

\* detect_late_completions marks only what a worker reported: a cancelled retry
\* has no retry of its own.
LEMMA DetectKeepsInv ==
    ASSUME IInv, NEW w \in Workers, NEW t \in Ids, DetectLate(w, t)
    PROVE  IInv'
<1> DEFINE b == BeatThread(w)
           l == [thr[b] EXCEPT !.todo = Todo(w) \ {t}]
<1>0. b \in Threads /\ thr[b] \in Locals
  BY DEF IInv, TypeOK, BeatThread, Threads
<1>1. Reported(t)
  BY <1>0, TodoReported DEF DetectLate, InPhase, Todo
<1>2. CASE MarkSuperseded(b, t)
  BY <1>0, <1>1, <1>2, MarkKeepsInv
<1>3. CASE thr' = [thr EXCEPT ![b] = l] /\ UNCHANGED <<row, att, live, hb, missed, faults>>
  <2>1. l \in Locals /\ l.pc = "next" /\ l.todo \subseteq thr[b].todo /\ l.phase = thr[b].phase
    BY <1>0 DEF DetectLate, InPhase, At, Locals, Todo
  <2>2. faults' \in Nat
    BY <1>3 DEF IInv, TypeOK
  <2> HIDE DEF l
  <2> QED
    BY <1>0, <1>3, <2>1, <2>2, TodoReported, ThreadMoveKeepsInv
<1> QED
  BY <1>2, <1>3 DEF DetectLate

\* The end of a pass, and a pass that a database error cuts short.
LEMMA PassEndKeepsInv ==
    ASSUME IInv, NEW w \in Workers,
           PassFault(w) \/ \E ancient \in SUBSET Workers : EndPass(w, ancient)
    PROVE  IInv'
<1> DEFINE b == BeatThread(w)
           m == Main(w)
<1>0. /\ b \in Threads /\ m \in Threads /\ b # m
      /\ thr \in [Threads -> Locals] /\ TypeOK /\ faults \in Nat
  BY DEF IInv, TypeOK, BeatThread, Main, Threads
<1>1. Idle \in Locals /\ Idle.pc = "idle" /\ Idle.phase = "recv"
  BY DEF Idle, Off, Locals, Pcs, Phases, Causes, NoId
<1>2. /\ Done(b) \in Locals /\ Done(b).pc \in {"idle", "next"}
      /\ Done(b).phase = "detect" => \A u \in Done(b).todo : Reported(u)
  BY <1>0, DoneIsResting
<1>3. faults' \in Nat /\ UNCHANGED <<row, att, live, missed>>
  BY <1>0 DEF PassFault, EndPass, Fault
<1>4. hb' \in [Workers -> {"none", "fresh", "stale", "stopped"}]
  BY DEF PassFault, EndPass, IInv, TypeOK
<1>5. /\ thr' \in [Threads -> Locals]
      /\ \A p \in Threads :
            \/ thr'[p] = thr[p]
            \/ /\ thr'[p].pc \in {"idle", "next"}
               /\ thr'[p].phase = "detect" => \A u \in thr'[p].todo : Reported(u)
  <2>1. CASE thr' = PassOver(w)
    BY <2>1, <1>0, <1>1 DEF PassOver
  <2>2. CASE thr' = [thr EXCEPT ![b] = Done(b)]
    BY <2>2, <1>0, <1>2
  <2> QED
    BY <2>1, <2>2 DEF PassFault, EndPass
<1>6. TypeOK'
  BY <1>3, <1>4, <1>5 DEF IInv, TypeOK
<1>7. ASSUME NEW p \in Threads, thr'[p].pc \in {"idle", "next"},
             thr'[p].phase = "detect" => \A u \in thr'[p].todo : Reported(u)
      PROVE  ThreadSane(p)'
  BY <1>3, <1>7 DEF ThreadSane, Reported, Terminal
<1> QED
  BY <1>3, <1>5, <1>6, <1>7, TablesUnchanged

\* Every step keeps the invariant.
LEMMA InvStep == IInv /\ [Next]_vars => IInv'
<1> SUFFICES ASSUME IInv, [Next]_vars PROVE IInv'
  OBVIOUS
<1>1. CASE UNCHANGED vars
  <2>1. TypeOK' /\ \A p \in Threads : thr'[p] = thr[p]
    BY <1>1 DEF vars, IInv, TypeOK
  <2> QED
    BY <1>1, <2>1, TablesUnchanged DEF vars
<1>2. ASSUME NEW n \in Ids, NEW path \in Paths, NEW pin \in Pins, EnqueueTask(n, path, pin)
      PROVE  IInv'
  BY <1>2, EnqueueKeepsInv
<1>3. ASSUME NEW w \in Workers, WorkerStep(w)
      PROVE  IInv'
  <2>1. CASE \/ StartWorker(w) \/ Crash(w) \/ StopWorker(w) \/ Pause(w) \/ Resume(w)
             \/ Beat(w) \/ MissBeats(w) \/ AgeHeartbeat(w)
    BY <2>1, WorkerKeepsInv
  <2>2. CASE \E t \in Ids : Claim(w, t)
    BY <2>2, ClaimKeepsInv
  <2>3. CASE \E exc \in Outcomes : Finish(w, exc)
    BY <2>3, FinishKeepsInv
  <2>4. CASE RecordLateCompletion(w) \/ ReceiverFault(w)
    BY <2>4, ReceiverKeepsInv
  <2>5. CASE StartPass(w) \/ PassStep(w) \/ PassFault(w)
    <3>1. CASE StartPass(w) \/ StartRepair(w) \/ StartDetect(w) \/ \E t \in Ids : RepairRetry(w, t)
      BY <3>1, PassMoveKeepsInv
    <3>2. CASE \E t \in Ids : ReapTask(w, t)
      BY <3>2, ReapKeepsInv
    <3>3. CASE \E t \in Ids : DetectLate(w, t)
      BY <3>3, DetectKeepsInv
    <3>4. CASE PassFault(w) \/ \E ancient \in SUBSET Workers : EndPass(w, ancient)
      BY <3>4, PassEndKeepsInv
    <3> QED
      BY <2>5, <3>1, <3>2, <3>3, <3>4 DEF PassStep
  <2> QED
    BY <1>3, <2>1, <2>2, <2>3, <2>4, <2>5 DEF WorkerStep
<1>4. ASSUME NEW p \in Threads, ThreadStep(p)
      PROVE  IInv'
  <2>1. CASE ReadForRetry(p) \/ InsertConflict(p)
    BY <2>1, RetryMoveKeepsInv
  <2>2. CASE FlagCancelled(p)
    BY <2>2, FlagKeepsInv
  <2>3. CASE \E n \in Ids : InsertRetry(p, n)
    BY <2>3, InsertKeepsInv
  <2>4. CASE \E n \in Ids : CancelRetry(p, n)
    BY <2>4, CancelKeepsInv
  <2> QED
    BY <1>4, <2>1, <2>2, <2>3, <2>4 DEF ThreadStep
<1>5. ASSUME NEW t \in Ids, AgeOrphan(t) \/ AgeFailure(t) \/ AgeAttempt(t)
      PROVE  IInv'
  BY <1>5, AgeRowKeepsInv, AgeAttemptKeepsInv
<1> QED
  BY <1>1, <1>2, <1>3, <1>4, <1>5 DEF Next

\* The strengthened invariant holds in every reachable state, whatever the
\* number of workers, rows, paths and faults.
THEOREM InvariantHolds == Spec => []IInv
<1>1. Init => IInv
  BY InvInit
<1>2. IInv /\ [Next]_vars => IInv'
  BY InvStep
<1> QED
  BY <1>1, <1>2, PTL DEF Spec

\* Every variable keeps its type: no step of a worker, a reaper or a receiver
\* leaves a row, an attempt or a thread in a state the code does not know.
THEOREM TypeCorrect == Spec => []TypeOK
<1>1. IInv => TypeOK
  BY DEF IInv
<1> QED
  BY <1>1, InvariantHolds, PTL

\* However receivers, reapers and repair sweeps race on stale reads, the chain
\* of one request never holds more attempts than its budget, and no attempt
\* number twice (maybe_retry and the unique parent_id).
THEOREM BudgetRespected == Spec => []ChainWithinBudget
<1>1. IInv => ChainWithinBudget
  BY DEF IInv
<1> QED
  BY <1>1, InvariantHolds, PTL

\* A retry cancelled by _mark_superseded has never run and is never retried.
THEOREM CancelledStaysUnrun == Spec => []CancelledNeverRuns
<1>1. IInv => CancelledNeverRuns
  BY DEF IInv
<1> QED
  BY <1>1, InvariantHolds, PTL

\* A late-completion marker always tells the truth about the attempt that was
\* declared lost, and retry_cancelled about the retry that replaced it.
THEOREM MarkersTellTheTruth == Spec => []MarkersTruthful
<1>1. IInv => MarkersTruthful
  BY DEF IInv
<1> QED
  BY <1>1, InvariantHolds, PTL

\* A row that some worker reported on is rewritten by nobody but the clock.
LEMMA RowStep ==
    ASSUME IInv, [Next]_vars, NEW t \in Ids, Reported(t)
    PROVE  row'[t].status = row[t].status /\ row'[t].exc = row[t].exc
<1>0. row \in [Ids -> Rows] /\ row[t] \in Rows
  BY DEF IInv, TypeOK
<1>1. /\ row[t].status \in {"FAILED", "SUCCESSFUL"}
      /\ row[t].exc # "lost" /\ row[t].exc # "superseded"
  BY DEF Reported, Terminal
<1>2. CASE UNCHANGED row
  BY <1>2
<1>3. ASSUME NEW u \in Ids, NEW r, row' = [row EXCEPT ![u] = r],
             \/ u # t
             \/ r.status = row[t].status /\ r.exc = row[t].exc
      PROVE  row'[t].status = row[t].status /\ row'[t].exc = row[t].exc
  BY <1>3, <1>0
<1>4. CASE \E n \in Ids, path \in Paths, pin \in Pins : EnqueueTask(n, path, pin)
  BY <1>4, <1>1, <1>3 DEF EnqueueTask, Fresh, Used
<1>5. CASE \E w \in Workers, u \in Ids : Claim(w, u)
  BY <1>5, <1>1, <1>3 DEF Claim
<1>6. CASE \E w \in Workers, exc \in Outcomes : Finish(w, exc)
  <2>1. PICK w \in Workers, exc \in Outcomes : Finish(w, exc)
    BY <1>6
  <2>2. Main(w) \in Threads
    BY DEF Main, Threads
  <2>3. /\ thr[Main(w)].job \in Ids
        /\ \/ row[thr[Main(w)].job].status = "RUNNING"
           \/ row[thr[Main(w)].job].exc = "lost"
    BY <2>1, <2>2 DEF Finish, IInv, ThreadsSane, ThreadSane
  <2> QED
    BY <2>1, <2>3, <1>1, <1>3 DEF Finish
<1>7. CASE \E u \in Ids : AgeOrphan(u) \/ AgeFailure(u)
  <2>1. PICK u \in Ids : row' = [row EXCEPT ![u] = [row[u] EXCEPT !.aged = TRUE]]
    BY <1>7 DEF AgeOrphan, AgeFailure
  <2>2. /\ [row[u] EXCEPT !.aged = TRUE].status = row[u].status
        /\ [row[u] EXCEPT !.aged = TRUE].exc = row[u].exc
    BY <1>0 DEF Rows
  <2> QED
    BY <2>1, <2>2, <1>3
<1>8. CASE \E w \in Workers, u \in Ids : ReapTask(w, u)
  BY <1>8, <1>1, <1>2, <1>3 DEF ReapTask
<1>9. CASE \E p \in Threads, n \in Ids : InsertRetry(p, n) \/ CancelRetry(p, n)
  BY <1>9, <1>1, <1>2, <1>3 DEF InsertRetry, CancelRetry, Fresh, Used
<1>10. \/ UNCHANGED row
       \/ \E n \in Ids, path \in Paths, pin \in Pins : EnqueueTask(n, path, pin)
       \/ \E w \in Workers, u \in Ids : Claim(w, u) \/ ReapTask(w, u)
       \/ \E w \in Workers, exc \in Outcomes : Finish(w, exc)
       \/ \E u \in Ids : AgeOrphan(u) \/ AgeFailure(u)
       \/ \E p \in Threads, n \in Ids : InsertRetry(p, n) \/ CancelRetry(p, n)
  <2>1. ASSUME NEW w \in Workers, WorkerStep(w)
        PROVE  \/ UNCHANGED row
               \/ \E u \in Ids : Claim(w, u) \/ ReapTask(w, u)
               \/ \E exc \in Outcomes : Finish(w, exc)
    BY <2>1 DEF WorkerStep, PassStep, StartWorker, Crash, StopWorker, Pause, Resume, Beat,
                MissBeats, AgeHeartbeat, RecordLateCompletion, MarkSuperseded, ReceiverFault,
                StartPass, StartRepair, StartDetect, RepairRetry, DetectLate, EndPass, PassFault
  <2>2. ASSUME NEW p \in Threads, ThreadStep(p)
        PROVE  UNCHANGED row \/ \E n \in Ids : InsertRetry(p, n) \/ CancelRetry(p, n)
    BY <2>2 DEF ThreadStep, ReadForRetry, InsertConflict, FlagCancelled
  <2>3. ASSUME NEW u \in Ids, AgeAttempt(u)
        PROVE  UNCHANGED row
    BY <2>3 DEF AgeAttempt
  <2>4. CASE UNCHANGED vars
    BY <2>4 DEF vars
  <2> QED
    BY <2>1, <2>2, <2>3, <2>4 DEF Next
<1> QED
  BY <1>2, <1>4, <1>5, <1>6, <1>7, <1>8, <1>9, <1>10

\* No step of any reaper, sweep or receiver overwrites an outcome that a worker
\* reported, however late that worker was (the conditional UPDATEs of
\* reap_lost_tasks and _mark_superseded).
THEOREM ReportedOutcomeKept == Spec => GroundTruthKept
<1>1. IInv /\ [Next]_vars =>
        [\A t \in Ids : Reported(t) =>
            row'[t].status = row[t].status /\ row'[t].exc = row[t].exc]_vars
  BY RowStep
<1> QED
  BY <1>1, InvariantHolds, PTL DEF Spec, GroundTruthKept

----------------------------------------------------------------------------
(* A cancelled retry is not its chain's outcome.                           *)

\* A cancelled retry replaced an attempt that was declared lost.
LEMMA SupersededIsMarked ==
    ASSUME IInv, CancelFlagged, faults <= 1, NEW c \in Ids, row[c].exc = "superseded"
    PROVE  att[c].marked /\ att[c].cause = "lost"
<1>1. MarkerTruthful(c)
  BY DEF IInv, MarkersTruthful
<1>2. CASE att[c].cancelled
  BY <1>1, <1>2 DEF MarkerTruthful
<1>3. CASE \E p \in Threads : thr[p].pc = "flag" /\ thr[p].job = att[c].parent
  <2>1. att[c].marked
    BY <1>3 DEF IInv, ThreadsSane, ThreadSane
  <2> QED
    BY <1>1, <2>1 DEF MarkerTruthful
<1> QED
  BY <1>2, <1>3 DEF CancelFlagged

\* So nothing is cancelled before the first fault.
LEMMA NoneSuperseded ==
    ASSUME IInv, OutcomeInv, faults = 0, NEW c \in Ids
    PROVE  row[c].exc # "superseded"
BY SupersededIsMarked DEF OutcomeInv, FaultlessIsCalm, CalmRow

\* What a step may do to the tables without enqueueing anything.
KeepsRows ==
    \A t \in Ids :
        /\ Used(t)' <=> Used(t)
        /\ att'[t].parent = att[t].parent
        /\ faults = 0 => CalmRow(t)'

\* The same, without cancelling anything either.
KeepsTables ==
    /\ KeepsRows
    /\ \A t \in Ids :
          /\ att[t].cancelled => att'[t].cancelled
          /\ row'[t].exc = "superseded" => row[t].exc = "superseded"

\* A thread that the reaper has given nothing to do.
CalmLocal(l) == l.cause # "lost" /\ (l.phase = "reap" => l.todo = {})

\* A step of one thread that enqueues nothing.
LEMMA ThreadStepCalm ==
    ASSUME IInv, OutcomeInv, KeepsRows, NEW p \in Threads, NEW l,
           thr' = [thr EXCEPT ![p] = l], UNCHANGED <<live, hb, missed, faults>>,
           live[p[1]] # "new", faults = 0 => CalmLocal(l)
    PROVE  IdsInOrder' /\ Unstarted' /\ FaultlessIsCalm'
<1>0. thr \in [Threads -> Locals]
  BY DEF IInv, TypeOK
<1>1. thr'[p] = l /\ \A q \in Threads : q # p => thr'[q] = thr[q]
  BY <1>0
<1>2. IdsInOrder'
  BY DEF OutcomeInv, IdsInOrder, KeepsRows
<1>3. Unstarted'
  BY <1>1 DEF OutcomeInv, Unstarted
<1>4. FaultlessIsCalm'
  <2> SUFFICES ASSUME faults' = 0
               PROVE  /\ \A w \in Workers : CalmWorker(w)'
                      /\ \A t \in Ids : CalmRow(t)'
                      /\ \A q \in Threads : CalmThread(q)'
    BY DEF FaultlessIsCalm
  <2>1. \A w \in Workers : CalmWorker(w)'
    BY DEF OutcomeInv, FaultlessIsCalm, CalmWorker
  <2>2. \A t \in Ids : CalmRow(t)'
    BY DEF KeepsRows
  <2>3. \A q \in Threads : CalmThread(q)'
    BY <1>1 DEF OutcomeInv, FaultlessIsCalm, CalmThread, CalmLocal
  <2> QED
    BY <2>1, <2>2, <2>3
<1> QED
  BY <1>2, <1>3, <1>4

\* A step of one thread that enqueues nothing and cancels nothing.
LEMMA ThreadStepKeeps ==
    ASSUME IInv, OutcomeInv, KeepsTables, NEW p \in Threads, NEW l,
           thr' = [thr EXCEPT ![p] = l], UNCHANGED <<live, hb, missed, faults>>,
           live[p[1]] # "new", thr[p].pc # "flag", faults = 0 => CalmLocal(l)
    PROVE  OutcomeInv'
<1>1. thr'[p] = l /\ \A q \in Threads : q # p => thr'[q] = thr[q]
  BY DEF IInv, TypeOK
<1>2. IdsInOrder' /\ Unstarted' /\ FaultlessIsCalm'
  BY ThreadStepCalm DEF KeepsTables
<1>3. CancelFlagged'
  <2> SUFFICES ASSUME faults <= 1, NEW c \in Ids, row'[c].exc = "superseded"
               PROVE  \/ att'[c].cancelled
                      \/ \E q \in Threads : thr'[q].pc = "flag" /\ thr'[q].job = att'[c].parent
    BY DEF CancelFlagged
  <2>1. \/ att[c].cancelled
        \/ \E q \in Threads : thr[q].pc = "flag" /\ thr[q].job = att[c].parent
    BY DEF KeepsTables, OutcomeInv, CancelFlagged
  <2> QED
    BY <1>1, <2>1 DEF KeepsTables, KeepsRows
<1> QED
  BY <1>2, <1>3 DEF OutcomeInv

\* The tables are left alone.
LEMMA SameTablesKept ==
    ASSUME OutcomeInv, UNCHANGED <<row, att, live>>
    PROVE  KeepsTables
BY DEF KeepsTables, KeepsRows, OutcomeInv, FaultlessIsCalm, CalmRow, Used

\* What a thread knows while nothing went wrong.
LEMMA CalmLocals ==
    ASSUME IInv, OutcomeInv, faults = 0, NEW p \in Threads
    PROVE  /\ CalmLocal(thr[p]) /\ CalmLocal(Done(p)) /\ CalmLocal(Idle)
           /\ \A t \in Ids, cause \in Causes \ {"lost"} : CalmLocal(Considering(p, t, cause))
           /\ \A w \in Workers : LostFor(w) = {}
<1>1. thr[p] \in Locals
  BY DEF IInv, TypeOK
<1>2. CalmLocal(thr[p])
  BY DEF OutcomeInv, FaultlessIsCalm, CalmThread, CalmLocal
<1>3. CalmLocal(Idle)
  BY DEF CalmLocal, Idle, Off
<1>4. CalmLocal(Done(p))
  <2>1. CASE p[2] = "main"
    BY <1>3, <2>1 DEF Done
  <2>2. CASE p[2] # "main"
    BY <1>1, <1>2, <2>2 DEF Done, CalmLocal, Locals
  <2> QED
    BY <2>1, <2>2
<1>5. ASSUME NEW t \in Ids, NEW cause \in Causes \ {"lost"}
      PROVE  CalmLocal(Considering(p, t, cause))
  <2>1. Classify(t, cause) # "lost"
    BY DEF Classify, OutcomeInv, FaultlessIsCalm, CalmRow
  <2>2. CASE Decide(t, cause)
    BY <1>1, <1>2, <2>1, <2>2 DEF Considering, CalmLocal, Locals
  <2>3. CASE ~Decide(t, cause)
    BY <1>4, <2>3 DEF Considering
  <2> QED
    BY <2>2, <2>3
<1>6. ASSUME NEW w \in Workers, NEW t \in LostFor(w) PROVE FALSE
  <2>1. t \in Ids /\ row[t].status = "RUNNING"
    BY <1>6 DEF LostFor
  <2>2. row[t].by \in Workers /\ live[row[t].by] = "up"
    BY <2>1 DEF OutcomeInv, FaultlessIsCalm, CalmRow
  <2>3. hb[row[t].by] = "fresh"
    BY <2>2 DEF OutcomeInv, FaultlessIsCalm, CalmWorker
  <2> QED
    BY <1>6, <2>3 DEF LostFor
<1> QED
  BY <1>2, <1>3, <1>4, <1>5, <1>6

\* The steps of maybe_retry that enqueue nothing.
LEMMA RetryMoveKeepsOutcome ==
    ASSUME IInv, OutcomeInv, NEW p \in Threads, ReadForRetry(p) \/ InsertConflict(p)
    PROVE  OutcomeInv'
<1>0. thr[p] \in Locals /\ live[p[1]] # "new" /\ thr[p].pc \in {"read", "insert"}
  BY DEF IInv, TypeOK, ReadForRetry, InsertConflict, At
<1>1. UNCHANGED <<row, att, live, hb, missed, faults>>
  BY DEF ReadForRetry, InsertConflict
<1>2. KeepsTables
  BY <1>1, SameTablesKept
<1>3. CASE ReadForRetry(p)
  <2>1. PICK l : l = Considering(p, thr[p].job, thr[p].cause)
    OBVIOUS
  <2>2. thr[p].job \in Ids
    BY <1>3 DEF IInv, ThreadsSane, ThreadSane, ReadForRetry, At
  <2>3. faults = 0 => CalmLocal(l)
    <3> SUFFICES ASSUME faults = 0 PROVE CalmLocal(l)
      OBVIOUS
    <3>1. thr[p].cause \in Causes \ {"lost"}
      BY <1>0, CalmLocals DEF CalmLocal, Locals
    <3> QED
      BY <2>1, <2>2, <3>1, CalmLocals
  <2>4. thr' = [thr EXCEPT ![p] = l]
    BY <1>3, <2>1 DEF ReadForRetry
  <2> QED
    BY <1>0, <1>1, <1>2, <2>3, <2>4, ThreadStepKeeps
<1>4. CASE InsertConflict(p)
  <2>1. thr' = [thr EXCEPT ![p] = Done(p)]
    BY <1>4 DEF InsertConflict
  <2> QED
    BY <1>0, <1>1, <1>2, <2>1, CalmLocals, ThreadStepKeeps
<1> QED
  BY <1>3, <1>4

\* _mark_superseded's first UPDATE.
LEMMA MarkKeepsOutcome ==
    ASSUME IInv, OutcomeInv, NEW p \in Threads, NEW t \in Ids, MarkSuperseded(p, t),
           live[p[1]] # "new", thr[p].pc # "flag"
    PROVE  OutcomeInv'
<1> DEFINE l == [thr[p] EXCEPT !.pc = "cancel", !.job = t, !.todo = thr[p].todo \ {t}]
<1>0. thr[p] \in Locals /\ att \in [Ids -> Attempts]
  BY DEF IInv, TypeOK
<1>1. thr' = [thr EXCEPT ![p] = l] /\ UNCHANGED <<row, live, hb, missed, faults>>
  BY DEF MarkSuperseded
<1>2. l.cause = thr[p].cause /\ l.phase = thr[p].phase /\ l.todo = thr[p].todo \ {t}
  BY <1>0 DEF Locals
<1> HIDE DEF l
<1>3. faults = 0 => CalmLocal(l)
  BY <1>2, CalmLocals DEF CalmLocal
<1>4. ASSUME NEW c \in Ids
      PROVE  /\ att'[c].parent = att[c].parent /\ (att'[c].cancelled <=> att[c].cancelled)
             /\ att'[c].cause = att[c].cause
  <2>1. att[c] \in Attempts /\ att'[c] \in {att[c], [att[c] EXCEPT !.marked = TRUE]}
    BY <1>0 DEF MarkSuperseded
  <2> QED
    BY <2>1 DEF Attempts
<1>5. KeepsTables
  <2> SUFFICES ASSUME NEW c \in Ids
               PROVE  /\ Used(c)' <=> Used(c)
                      /\ att'[c].parent = att[c].parent
                      /\ att[c].cancelled => att'[c].cancelled
                      /\ row'[c].exc = "superseded" => row[c].exc = "superseded"
                      /\ faults = 0 => CalmRow(c)'
    BY DEF KeepsTables, KeepsRows
  <2>1. faults = 0 => CalmRow(c)'
    BY <1>1, <1>4 DEF OutcomeInv, FaultlessIsCalm, CalmRow
  <2> QED
    BY <1>1, <1>4, <2>1 DEF Used
<1> QED
  BY <1>1, <1>3, <1>5, ThreadStepKeeps

\* The receiver and the detection sweep.
LEMMA LateKeepsOutcome ==
    ASSUME IInv, OutcomeInv, NEW w \in Workers,
           RecordLateCompletion(w) \/ \E t \in Ids : DetectLate(w, t)
    PROVE  OutcomeInv'
<1>0. Main(w) \in Threads /\ BeatThread(w) \in Threads /\ Main(w)[1] = w /\ BeatThread(w)[1] = w
  BY DEF Main, BeatThread, Threads
<1>1. thr[Main(w)] \in Locals /\ thr[BeatThread(w)] \in Locals
  BY <1>0 DEF IInv, TypeOK
<1>2. CASE RecordLateCompletion(w)
  <2>1. live[w] # "new" /\ thr[Main(w)].pc = "late" /\ thr[Main(w)].job \in Ids
    BY <1>0, <1>2 DEF RecordLateCompletion, At, IInv, ThreadsSane, ThreadSane
  <2>2. CASE MarkSuperseded(Main(w), thr[Main(w)].job)
    BY <1>0, <2>1, <2>2, MarkKeepsOutcome
  <2>3. CASE thr' = [thr EXCEPT ![Main(w)] = NotLate(w)] /\ UNCHANGED <<row, att, live, hb, missed, faults>>
    <3>1. KeepsTables
      BY <2>3, SameTablesKept
    <3>2. faults = 0 => CalmLocal(NotLate(w))
      <4> SUFFICES ASSUME faults = 0 PROVE CalmLocal(NotLate(w))
        OBVIOUS
      <4>1. CalmLocal(Idle) /\ CalmLocal(thr[Main(w)])
        BY <1>0, CalmLocals
      <4> QED
        BY <1>1, <4>1 DEF NotLate, CalmLocal, Locals
    <3> QED
      BY <1>0, <2>1, <2>3, <3>1, <3>2, ThreadStepKeeps
  <2> QED
    BY <1>2, <2>2, <2>3 DEF RecordLateCompletion
<1>3. ASSUME NEW t \in Ids, DetectLate(w, t) PROVE OutcomeInv'
  <2>1. live[w] # "new" /\ thr[BeatThread(w)].pc = "next"
    BY <1>0, <1>3 DEF DetectLate, InPhase, At
  <2>2. CASE MarkSuperseded(BeatThread(w), t)
    BY <1>0, <2>1, <2>2, MarkKeepsOutcome
  <2>3. CASE /\ thr' = [thr EXCEPT ![BeatThread(w)] = [thr[BeatThread(w)] EXCEPT !.todo = Todo(w) \ {t}]]
             /\ UNCHANGED <<row, att, live, hb, missed, faults>>
    <3>1. KeepsTables
      BY <2>3, SameTablesKept
    <3>2. PICK l : l = [thr[BeatThread(w)] EXCEPT !.todo = Todo(w) \ {t}]
      OBVIOUS
    <3>3. l.cause = thr[BeatThread(w)].cause /\ l.phase = thr[BeatThread(w)].phase
          /\ l.todo = thr[BeatThread(w)].todo \ {t}
      BY <1>1, <3>2 DEF Locals, Todo
    <3>4. faults = 0 => CalmLocal(l)
      BY <1>0, <3>3, CalmLocals DEF CalmLocal
    <3>5. thr' = [thr EXCEPT ![BeatThread(w)] = l]
      BY <2>3, <3>2
    <3> QED
      BY <1>0, <2>1, <2>3, <3>1, <3>4, <3>5, ThreadStepKeeps
  <2> QED
    BY <1>3, <2>2, <2>3 DEF DetectLate
<1> QED
  BY <1>2, <1>3

\* The reaper's pass.
LEMMA PassKeepsOutcome ==
    ASSUME IInv, OutcomeInv, NEW w \in Workers,
           \/ StartPass(w) \/ StartRepair(w) \/ StartDetect(w)
           \/ \E t \in Ids : RepairRetry(w, t) \/ ReapTask(w, t)
    PROVE  OutcomeInv'
<1> DEFINE b == BeatThread(w)
<1>0. b \in Threads /\ b[1] = w /\ thr[b] \in Locals /\ row \in [Ids -> Rows]
  BY DEF BeatThread, Threads, IInv, TypeOK
<1>1. live[w] # "new" /\ thr[b].pc \in {"idle", "next"}
  BY <1>0 DEF StartPass, StartRepair, StartDetect, RepairRetry, ReapTask, InPhase, At
<1> HIDE DEF b
<1>2. ASSUME NEW l, faults = 0 => CalmLocal(l), thr' = [thr EXCEPT ![b] = l],
             KeepsTables, UNCHANGED <<live, hb, missed, faults>>
      PROVE  OutcomeInv'
  BY <1>0, <1>1, <1>2, ThreadStepKeeps
<1>3. CASE StartPass(w)
  <2>1. PICK l : l = [thr[b] EXCEPT !.pc = "next", !.phase = "reap", !.todo = LostFor(w)]
    OBVIOUS
  <2>2. faults = 0 => CalmLocal(l)
    <3>1. l.cause = thr[b].cause /\ l.todo = LostFor(w)
      BY <1>0, <2>1 DEF Locals
    <3> QED
      BY <1>0, <3>1, CalmLocals DEF CalmLocal
  <2>3. thr' = [thr EXCEPT ![b] = l] /\ UNCHANGED <<row, att, live, hb, missed, faults>>
    BY <1>3, <2>1 DEF StartPass, b
  <2> QED
    BY <1>2, <2>2, <2>3, SameTablesKept
<1>4. CASE StartRepair(w)
  <2>1. PICK l : l = [thr[b] EXCEPT !.phase = "repair", !.todo = Unrepaired]
    OBVIOUS
  <2>2. faults = 0 => CalmLocal(l)
    <3>1. l.cause = thr[b].cause /\ l.phase = "repair"
      BY <1>0, <2>1 DEF Locals
    <3> QED
      BY <1>0, <3>1, CalmLocals DEF CalmLocal
  <2>3. thr' = [thr EXCEPT ![b] = l] /\ UNCHANGED <<row, att, live, hb, missed, faults>>
    BY <1>4, <2>1 DEF StartRepair, b
  <2> QED
    BY <1>2, <2>2, <2>3, SameTablesKept
<1>5. CASE StartDetect(w)
  <2>1. PICK l : l = [thr[b] EXCEPT !.phase = "detect", !.todo = LateUnmarked]
    OBVIOUS
  <2>2. faults = 0 => CalmLocal(l)
    <3>1. l.cause = thr[b].cause /\ l.phase = "detect"
      BY <1>0, <2>1 DEF Locals
    <3> QED
      BY <1>0, <3>1, CalmLocals DEF CalmLocal
  <2>3. thr' = [thr EXCEPT ![b] = l] /\ UNCHANGED <<row, att, live, hb, missed, faults>>
    BY <1>5, <2>1 DEF StartDetect, b
  <2> QED
    BY <1>2, <2>2, <2>3, SameTablesKept
<1>6. ASSUME NEW t \in Ids, RepairRetry(w, t) PROVE OutcomeInv'
  <2>1. PICK m, l : /\ m = Considering(b, t, "failed")
                    /\ l = [m EXCEPT !.todo = Todo(w) \ {t}]
    OBVIOUS
  <2>2. m \in Locals /\ m.phase \in {"recv", thr[b].phase}
    BY <1>0, <2>1, ConsideringSane DEF Causes
  <2>3. l.cause = m.cause /\ l.phase = m.phase /\ l.todo = thr[b].todo \ {t}
    BY <2>1, <2>2 DEF Locals, Todo, b
  <2>4. faults = 0 => CalmLocal(l)
    <3> SUFFICES ASSUME faults = 0 PROVE CalmLocal(l)
      OBVIOUS
    <3>1. CalmLocal(m) /\ CalmLocal(thr[b])
      BY <1>0, <2>1, CalmLocals DEF Causes
    <3> QED
      BY <2>2, <2>3, <3>1 DEF CalmLocal
  <2>5. thr' = [thr EXCEPT ![b] = l] /\ UNCHANGED <<row, att, live, hb, missed, faults>>
    BY <1>6, <2>1 DEF RepairRetry, b
  <2> QED
    BY <1>2, <2>4, <2>5, SameTablesKept
<1>7. ASSUME NEW t \in Ids, ReapTask(w, t) PROVE OutcomeInv'
  <2>1. thr[b].phase = "reap" /\ t \in thr[b].todo
    BY <1>7 DEF ReapTask, InPhase, Todo, b
  <2>2. faults # 0
    BY <1>0, <2>1, CalmLocals DEF CalmLocal
  <2>3. CASE row[t].status = "RUNNING"
    <3>1. PICK r, l : /\ r = [row[t] EXCEPT !.status = "FAILED", !.exc = "lost", !.aged = FALSE]
                      /\ l = [thr[b] EXCEPT !.pc = "read", !.job = t, !.cause = "lost", !.todo = Todo(w) \ {t}]
      OBVIOUS
    <3>2. /\ row' = [row EXCEPT ![t] = r] /\ thr' = [thr EXCEPT ![b] = l]
          /\ UNCHANGED <<att, live, hb, missed, faults>>
      BY <1>7, <2>3, <3>1 DEF ReapTask, b
    <3>3. r.exc = "lost" /\ r.status = "FAILED"
      BY <1>0, <3>1 DEF Rows
    <3>4. KeepsTables
      BY <1>0, <2>2, <2>3, <3>2, <3>3 DEF KeepsTables, KeepsRows, Used
    <3> QED
      BY <1>2, <2>2, <3>2, <3>4
  <2>4. CASE row[t].status # "RUNNING"
    <3>1. PICK l : l = [thr[b] EXCEPT !.todo = Todo(w) \ {t}]
      OBVIOUS
    <3>2. thr' = [thr EXCEPT ![b] = l] /\ UNCHANGED <<row, att, live, hb, missed, faults>>
      BY <1>7, <2>4, <3>1 DEF ReapTask, b
    <3> QED
      BY <1>2, <2>2, <3>2, SameTablesKept
  <2> QED
    BY <2>3, <2>4
<1> QED
  BY <1>3, <1>4, <1>5, <1>6, <1>7

\* A task is claimed, or its body ends.
LEMMA RunKeepsOutcome ==
    ASSUME IInv, OutcomeInv, NEW w \in Workers,
           (\E t \in Ids : Claim(w, t)) \/ \E exc \in Outcomes : Finish(w, exc)
    PROVE  OutcomeInv'
<1> DEFINE m == Main(w)
<1>0. m \in Threads /\ m[1] = w /\ thr[m] \in Locals /\ row \in [Ids -> Rows] /\ live[w] = "up"
  BY DEF Main, Threads, IInv, TypeOK, Claim, Finish
<1> HIDE DEF m
<1>1. ASSUME NEW t \in Ids, NEW r, NEW l, faults = 0 => CalmLocal(l), thr[m].pc # "flag",
             thr' = [thr EXCEPT ![m] = l], row' = [row EXCEPT ![t] = r],
             UNCHANGED <<att, live, hb, missed, faults>>,
             Used(t), r.status # "none", r.exc \notin {"lost", "superseded"},
             r.status = "RUNNING" => r.by = w
      PROVE  OutcomeInv'
  <2>1. ASSUME NEW s \in Ids
        PROVE  /\ Used(s)' <=> Used(s)
               /\ att'[s].parent = att[s].parent
               /\ att[s].cancelled => att'[s].cancelled
               /\ row'[s].exc = "superseded" => row[s].exc = "superseded"
               /\ faults = 0 => CalmRow(s)'
    <3>1. CASE s = t
      BY <1>0, <1>1, <3>1 DEF Used, OutcomeInv, FaultlessIsCalm, CalmRow
    <3>2. CASE s # t
      <4>1. row'[s] = row[s]
        BY <1>0, <1>1, <3>2
      <4> QED
        BY <1>1, <4>1 DEF Used, OutcomeInv, FaultlessIsCalm, CalmRow
    <3> QED
      BY <3>1, <3>2
  <2>2. KeepsTables
    BY <2>1 DEF KeepsTables, KeepsRows
  <2> QED
    BY <1>0, <1>1, <2>2, ThreadStepKeeps
<1>2. ASSUME NEW t \in Ids, Claim(w, t) PROVE OutcomeInv'
  <2>1. PICK r, l : /\ r = [row[t] EXCEPT !.status = "RUNNING", !.by = w]
                    /\ l = [Idle EXCEPT !.pc = "run", !.job = t]
    OBVIOUS
  <2>2. row[t].status = "READY" /\ row[t].exc = "none" /\ row[t] \in Rows
    BY <1>0, <1>2 DEF Claim, IInv, RowsSane
  <2>3. r.status = "RUNNING" /\ r.exc = "none" /\ r.by = w
    BY <2>1, <2>2 DEF Rows
  <2>4. CalmLocal(l)
    BY <2>1 DEF CalmLocal, Idle, Off
  <2>5. /\ row' = [row EXCEPT ![t] = r] /\ thr' = [thr EXCEPT ![m] = l] /\ thr[m].pc = "idle"
        /\ UNCHANGED <<att, live, hb, missed, faults>>
    BY <1>2, <2>1 DEF Claim, m
  <2> QED
    BY <1>1, <2>2, <2>3, <2>4, <2>5 DEF Used
<1>3. ASSUME NEW exc \in Outcomes, Finish(w, exc) PROVE OutcomeInv'
  <2>1. PICK t, r, l : /\ t = thr[m].job
                       /\ r = [row[t] EXCEPT !.status = IF exc = "none" THEN "SUCCESSFUL" ELSE "FAILED",
                                             !.exc = exc, !.aged = FALSE]
                       /\ l = [thr[m] EXCEPT !.pc = "late"]
    OBVIOUS
  <2>2. thr[m].pc = "run" /\ t \in Ids /\ row[t].status \in {"RUNNING", "FAILED"}
    BY <1>0, <1>3, <2>1 DEF Finish, IInv, ThreadsSane, ThreadSane, m
  <2>3. r.status \in {"SUCCESSFUL", "FAILED"} /\ r.exc = exc
    <3>1. row[t] \in Rows
      BY <1>0, <2>2
    <3> QED
      BY <2>1, <3>1 DEF Rows
  <2>4. l.cause = thr[m].cause /\ l.phase = thr[m].phase /\ l.todo = thr[m].todo
    BY <1>0, <2>1 DEF Locals
  <2>5. faults = 0 => CalmLocal(l)
    BY <1>0, <2>4, CalmLocals DEF CalmLocal
  <2>6. /\ row' = [row EXCEPT ![t] = r] /\ thr' = [thr EXCEPT ![m] = l]
        /\ UNCHANGED <<att, live, hb, missed, faults>>
    BY <1>3, <2>1 DEF Finish, m
  <2>7. exc \notin {"lost", "superseded"}
    BY OutcomesAssumption
  <2> QED
    BY <1>1, <2>2, <2>3, <2>5, <2>6, <2>7 DEF Used
<1> QED
  BY <1>2, <1>3

\* _mark_superseded's second UPDATE cancels a retry and leaves its thread about
\* to flag it; it has someone else's loss to thank, so something went wrong.
LEMMA CancelKeepsOutcome ==
    ASSUME IInv, OutcomeInv, NEW p \in Threads, NEW c \in Ids, CancelRetry(p, c)
    PROVE  OutcomeInv'
<1>0. row \in [Ids -> Rows] /\ thr \in [Threads -> Locals] /\ thr[p] \in Locals
  BY DEF IInv, TypeOK
<1>1. /\ live[p[1]] # "new" /\ thr[p].pc = "cancel" /\ att[c].parent = thr[p].job
      /\ UNCHANGED <<att, live, hb, missed, faults>>
  BY DEF CancelRetry, At
<1>2. att[c].marked
  BY <1>1 DEF IInv, ThreadsSane, ThreadSane
<1>3. faults # 0
  BY <1>2 DEF IInv, MarkersTruthful, MarkerTruthful, OutcomeInv, FaultlessIsCalm, CalmRow
<1>4. CASE row[c].status = "READY"
  <2>1. PICK r, l : /\ r = [row[c] EXCEPT !.status = "FAILED", !.exc = "superseded"]
                    /\ l = [thr[p] EXCEPT !.pc = "flag"]
    OBVIOUS
  <2>2. row' = [row EXCEPT ![c] = r] /\ thr' = [thr EXCEPT ![p] = l]
    BY <1>4, <2>1 DEF CancelRetry
  <2>3. r.status = "FAILED" /\ l.pc = "flag" /\ l.job = thr[p].job
    BY <1>0, <2>1 DEF Rows, Locals
  <2>4. /\ row'[c] = r /\ \A s \in Ids : s # c => row'[s] = row[s]
        /\ thr'[p] = l /\ \A q \in Threads : q # p => thr'[q] = thr[q]
    BY <1>0, <2>2
  <2>5. KeepsRows
    BY <1>1, <1>3, <1>4, <2>3, <2>4 DEF KeepsRows, Used
  <2>6. IdsInOrder' /\ Unstarted' /\ FaultlessIsCalm'
    BY <1>1, <1>3, <2>2, <2>5, ThreadStepCalm
  <2>7. CancelFlagged'
    <3> SUFFICES ASSUME faults <= 1, NEW d \in Ids, row'[d].exc = "superseded"
                 PROVE  \/ att'[d].cancelled
                        \/ \E q \in Threads : thr'[q].pc = "flag" /\ thr'[q].job = att'[d].parent
      BY <1>1 DEF CancelFlagged
    <3>1. CASE d = c
      BY <1>1, <2>3, <2>4, <3>1
    <3>2. CASE d # c
      <4>1. \/ att[d].cancelled
            \/ \E q \in Threads : thr[q].pc = "flag" /\ thr[q].job = att[d].parent
        BY <2>4, <3>2 DEF OutcomeInv, CancelFlagged
      <4> QED
        BY <1>1, <2>4, <4>1
    <3> QED
      BY <3>1, <3>2
  <2> QED
    BY <2>6, <2>7 DEF OutcomeInv
<1>5. CASE row[c].status # "READY"
  <2>1. thr' = [thr EXCEPT ![p] = Done(p)] /\ row' = row
    BY <1>5 DEF CancelRetry
  <2>2. KeepsTables
    BY <1>1, <2>1, SameTablesKept
  <2> QED
    BY <1>1, <1>3, <2>1, <2>2, ThreadStepKeeps
<1> QED
  BY <1>4, <1>5

\* _mark_superseded's third UPDATE flags what its thread cancelled.
LEMMA FlagKeepsOutcome ==
    ASSUME IInv, OutcomeInv, NEW p \in Threads, FlagCancelled(p)
    PROVE  OutcomeInv'
<1>0. att \in [Ids -> Attempts] /\ thr \in [Threads -> Locals] /\ thr[p] \in Locals
  BY DEF IInv, TypeOK
<1>1. /\ live[p[1]] # "new" /\ thr' = [thr EXCEPT ![p] = Done(p)]
      /\ UNCHANGED <<row, live, hb, missed, faults>>
  BY DEF FlagCancelled, At
<1>2. ASSUME NEW c \in Ids
      PROVE  /\ att'[c].parent = att[c].parent /\ att'[c].cause = att[c].cause
             /\ att'[c].cancelled <=> (att[c].cancelled \/ att[c].parent = thr[p].job)
  <2>1. att[c] \in Attempts
    BY <1>0
  <2>2. CASE att[c].parent = thr[p].job
    <3>1. att'[c] = [att[c] EXCEPT !.cancelled = TRUE]
      BY <2>2 DEF FlagCancelled
    <3> QED
      BY <2>1, <2>2, <3>1 DEF Attempts
  <2>3. CASE att[c].parent # thr[p].job
    <3>1. att'[c] = att[c]
      BY <2>3 DEF FlagCancelled
    <3> QED
      BY <2>3, <3>1
  <2> QED
    BY <2>2, <2>3
<1>3. KeepsRows
  BY <1>1, <1>2 DEF KeepsRows, Used, OutcomeInv, FaultlessIsCalm, CalmRow
<1>4. IdsInOrder' /\ Unstarted' /\ FaultlessIsCalm'
  BY <1>1, <1>3, CalmLocals, ThreadStepCalm
<1>5. CancelFlagged'
  <2> SUFFICES ASSUME faults <= 1, NEW c \in Ids, row[c].exc = "superseded"
               PROVE  \/ att'[c].cancelled
                      \/ \E q \in Threads : thr'[q].pc = "flag" /\ thr'[q].job = att'[c].parent
    BY <1>1 DEF CancelFlagged
  <2>1. CASE att[c].cancelled
    BY <1>2, <2>1
  <2>2. CASE \E q \in Threads : thr[q].pc = "flag" /\ thr[q].job = att[c].parent
    <3>1. PICK q \in Threads : thr[q].pc = "flag" /\ thr[q].job = att[c].parent
      BY <2>2
    <3>2. CASE q = p
      BY <1>2, <3>1, <3>2
    <3>3. CASE q # p
      <4>1. thr'[q] = thr[q]
        BY <1>0, <1>1, <3>3
      <4> QED
        BY <1>2, <3>1, <4>1
    <3> QED
      BY <3>2, <3>3
  <2> QED
    BY <2>1, <2>2 DEF OutcomeInv, CancelFlagged
<1> QED
  BY <1>4, <1>5 DEF OutcomeInv

\* A thread that moved was running, was not about to flag a cancellation, and
\* has been given nothing to do with a lost task if nothing went wrong.
MovedCalmly(q) ==
    \/ thr'[q] = thr[q]
    \/ live'[q[1]] # "new" /\ thr[q].pc # "flag" /\ (faults = 0 => CalmLocal(thr'[q]))

\* A row is enqueued.
LEMMA RowAddedKeepsOutcome ==
    ASSUME IInv, OutcomeInv, NEW n \in Ids, Fresh(n), NEW path, NEW a,
           row' = [row EXCEPT ![n] = ReadyRow(path)], att' = [att EXCEPT ![n] = a],
           a.parent = NoId \/ (a.parent \in Ids /\ Used(a.parent)), faults = 0 => a.cause # "lost",
           UNCHANGED <<live, hb, missed, faults>>, \A q \in Threads : MovedCalmly(q)
    PROVE  OutcomeInv'
<1> DEFINE r == ReadyRow(path)
<1>0. row \in [Ids -> Rows] /\ att \in [Ids -> Attempts]
  BY DEF IInv, TypeOK
<1>1. /\ row'[n] = r /\ att'[n] = a
      /\ \A u \in Ids : u # n => row'[u] = row[u] /\ att'[u] = att[u]
  BY <1>0
<1>2. r.status = "READY" /\ r.exc = "none"
  BY DEF ReadyRow
<1>3. ~Used(n) /\ \A m \in Ids : m < n => Used(m)
  BY DEF Fresh
<1>4. \A u \in Ids : Used(u)' <=> (Used(u) \/ u = n)
  BY <1>1, <1>2 DEF Used
<1> HIDE DEF r
<1>5. IdsInOrder'
  <2>1. \A s, t \in Ids : Used(t)' /\ s < t => Used(s)'
    BY <1>3, <1>4 DEF OutcomeInv, IdsInOrder
  <2>2. a.parent # NoId => a.parent < n
    BY <1>3, BoundsAssumption DEF OutcomeInv, IdsInOrder, Ids
  <2> QED
    BY <1>1, <2>1, <2>2 DEF OutcomeInv, IdsInOrder
<1>6. Unstarted'
  BY DEF OutcomeInv, Unstarted, MovedCalmly
<1>7. FaultlessIsCalm'
  <2> SUFFICES ASSUME faults = 0
               PROVE  /\ \A w \in Workers : CalmWorker(w)'
                      /\ \A t \in Ids : CalmRow(t)'
                      /\ \A q \in Threads : CalmThread(q)'
    BY DEF FaultlessIsCalm
  <2>1. \A w \in Workers : CalmWorker(w)'
    BY DEF OutcomeInv, FaultlessIsCalm, CalmWorker
  <2>2. \A t \in Ids : CalmRow(t)'
    BY <1>1, <1>2 DEF OutcomeInv, FaultlessIsCalm, CalmRow
  <2>3. \A q \in Threads : CalmThread(q)'
    BY DEF OutcomeInv, FaultlessIsCalm, CalmThread, CalmLocal, MovedCalmly
  <2> QED
    BY <2>1, <2>2, <2>3
<1>8. CancelFlagged'
  <2> SUFFICES ASSUME faults <= 1, NEW c \in Ids, row'[c].exc = "superseded"
               PROVE  \/ att'[c].cancelled
                      \/ \E q \in Threads : thr'[q].pc = "flag" /\ thr'[q].job = att'[c].parent
    BY DEF CancelFlagged
  <2>1. c # n /\ row'[c] = row[c] /\ att'[c] = att[c]
    BY <1>1, <1>2
  <2>2. \/ att[c].cancelled
        \/ \E q \in Threads : thr[q].pc = "flag" /\ thr[q].job = att[c].parent
    BY <2>1 DEF OutcomeInv, CancelFlagged
  <2> QED
    BY <2>1, <2>2 DEF MovedCalmly
<1> QED
  BY <1>5, <1>6, <1>7, <1>8 DEF OutcomeInv

\* A caller or maybe_retry enqueues an attempt.
LEMMA EnqueueKeepsOutcome ==
    ASSUME IInv, OutcomeInv, NEW n \in Ids,
           \/ \E path \in Paths, pin \in Pins : EnqueueTask(n, path, pin)
           \/ \E p \in Threads : InsertRetry(p, n)
    PROVE  OutcomeInv'
<1>1. ASSUME NEW path \in Paths, NEW pin \in Pins, EnqueueTask(n, path, pin)
      PROVE  OutcomeInv'
  <2>1. PICK a : a = [Unrecorded(n) EXCEPT !.pin = pin]
    OBVIOUS
  <2>2. a.parent = NoId /\ (faults = 0 => a.cause # "lost")
    BY <2>1 DEF Unrecorded
  <2>3. /\ row' = [row EXCEPT ![n] = ReadyRow(path)] /\ att' = [att EXCEPT ![n] = a]
        /\ Fresh(n) /\ UNCHANGED <<live, hb, missed, thr, faults>>
    BY <1>1, <2>1 DEF EnqueueTask
  <2>4. \A q \in Threads : MovedCalmly(q)
    BY <2>3 DEF MovedCalmly
  <2> QED
    BY <2>2, <2>3, <2>4, RowAddedKeepsOutcome
<1>2. ASSUME NEW p \in Threads, InsertRetry(p, n)
      PROVE  OutcomeInv'
  <2>1. PICK t, a, path :
           /\ t = thr[p].job /\ path = row[t].path
           /\ a = [Unrecorded(n) EXCEPT !.root = att[t].root, !.parent = t,
                      !.attempt = att[t].attempt + 1, !.cause = thr[p].cause, !.pin = att[t].pin]
    OBVIOUS
  <2>2. thr[p].pc = "insert" /\ live[p[1]] = "up" /\ t \in Ids /\ Used(t)
    BY <1>2, <2>1 DEF InsertRetry, At, IInv, ThreadsSane, ThreadSane, Terminal, Used
  <2>3. a.parent = t /\ a.cause = thr[p].cause
    BY <2>1 DEF Unrecorded
  <2>4. faults = 0 => a.cause # "lost" /\ CalmLocal(Done(p))
    BY <2>3, CalmLocals DEF CalmLocal
  <2>5. /\ row' = [row EXCEPT ![n] = ReadyRow(path)] /\ att' = [att EXCEPT ![n] = a]
        /\ Fresh(n) /\ thr' = [thr EXCEPT ![p] = Done(p)] /\ UNCHANGED <<live, hb, missed, faults>>
    BY <1>2, <2>1 DEF InsertRetry
  <2>6. \A q \in Threads : MovedCalmly(q)
    <3>1. thr'[p] = Done(p) /\ \A q \in Threads : q # p => thr'[q] = thr[q]
      BY <2>5 DEF IInv, TypeOK
    <3> QED
      BY <2>2, <2>4, <2>5, <3>1 DEF MovedCalmly
  <2> QED
    BY <2>2, <2>3, <2>4, <2>5, <2>6, RowAddedKeepsOutcome
<1> QED
  BY <1>1, <1>2


\* A step that leaves the tables alone and moves processes without a fault.
LEMMA ProcessStepKeeps ==
    ASSUME IInv, OutcomeInv, UNCHANGED <<row, att, faults>>,
           \A w \in Workers : /\ live'[w] = "new" => live[w] = "new"
                              /\ live[w] = "up" => live'[w] = "up",
           faults = 0 => \A w \in Workers : CalmWorker(w)',
           \A q \in Threads : MovedCalmly(q)
    PROVE  OutcomeInv'
<1>1. \A q \in Threads : q[1] \in Workers
  BY DEF Threads
<1>2. IdsInOrder'
  BY DEF OutcomeInv, IdsInOrder, Used
<1>3. Unstarted'
  BY <1>1 DEF OutcomeInv, Unstarted, MovedCalmly
<1>4. FaultlessIsCalm'
  <2> SUFFICES ASSUME faults = 0
               PROVE  /\ \A w \in Workers : CalmWorker(w)'
                      /\ \A t \in Ids : CalmRow(t)'
                      /\ \A q \in Threads : CalmThread(q)'
    BY DEF FaultlessIsCalm
  <2>1. \A w \in Workers : CalmWorker(w)'
    OBVIOUS
  <2>2. \A t \in Ids : CalmRow(t)'
    BY DEF OutcomeInv, FaultlessIsCalm, CalmRow
  <2>3. \A q \in Threads : CalmThread(q)'
    BY DEF OutcomeInv, FaultlessIsCalm, CalmThread, CalmLocal, MovedCalmly
  <2> QED
    BY <2>1, <2>2, <2>3
<1>5. CancelFlagged'
  BY DEF OutcomeInv, CancelFlagged, MovedCalmly
<1> QED
  BY <1>2, <1>3, <1>4, <1>5 DEF OutcomeInv

\* A worker starts, resumes, beats or is found silent, or a pass ends.
LEMMA ProcessKeepsOutcome ==
    ASSUME IInv, OutcomeInv, NEW w \in Workers,
           \/ StartWorker(w) \/ Resume(w) \/ Beat(w) \/ AgeHeartbeat(w)
           \/ \E ancient \in SUBSET Workers : EndPass(w, ancient)
    PROVE  OutcomeInv'
<1> DEFINE m == Main(w)
           b == BeatThread(w)
<1>0. /\ m \in Threads /\ b \in Threads /\ m[1] = w /\ b[1] = w /\ m # b
      /\ thr \in [Threads -> Locals] /\ live \in [Workers -> {"new", "up", "paused", "down"}]
      /\ hb \in [Workers -> {"none", "fresh", "stale", "stopped"}] /\ missed \in [Workers -> BOOLEAN]
  BY DEF Main, BeatThread, Threads, IInv, TypeOK
<1>1. faults = 0 => \A v \in Workers : CalmWorker(v)
  BY DEF OutcomeInv, FaultlessIsCalm
<1> HIDE DEF m, b
<1>2. CASE StartWorker(w)
  <2>1. PICK l : l = [Idle EXCEPT !.pc = "boot"]
    OBVIOUS
  <2>2. CalmLocal(l) /\ CalmLocal(Idle)
    BY <2>1 DEF CalmLocal, Idle, Off
  <2>3. /\ live[w] = "new" /\ live' = [live EXCEPT ![w] = "up"] /\ hb' = [hb EXCEPT ![w] = "fresh"]
        /\ thr' = [thr EXCEPT ![m] = l, ![b] = Idle] /\ UNCHANGED <<row, att, missed, faults>>
    BY <1>2, <2>1 DEF StartWorker, m, b
  <2>4. thr[m].pc = "off" /\ thr[b].pc = "off"
    BY <1>0, <2>3 DEF OutcomeInv, Unstarted
  <2>5. /\ thr'[m] = l /\ thr'[b] = Idle /\ live'[w] = "up"
        /\ \A q \in Threads : q \notin {m, b} => thr'[q] = thr[q]
    BY <1>0, <2>3
  <2>6. \A q \in Threads : MovedCalmly(q)
    BY <1>0, <2>2, <2>4, <2>5 DEF MovedCalmly
  <2>7. faults = 0 => \A v \in Workers : CalmWorker(v)'
    BY <1>0, <1>1, <2>3 DEF CalmWorker
  <2>8. \A v \in Workers : /\ live'[v] = "new" => live[v] = "new"
                           /\ live[v] = "up" => live'[v] = "up"
    BY <1>0, <2>3
  <2> QED
    BY <2>3, <2>6, <2>7, <2>8, ProcessStepKeeps
<1>3. CASE Resume(w) \/ Beat(w) \/ AgeHeartbeat(w)
  <2>1. UNCHANGED <<row, att, thr, faults>>
    BY <1>3 DEF Resume, Beat, AgeHeartbeat
  <2>2. \A q \in Threads : MovedCalmly(q)
    BY <2>1 DEF MovedCalmly
  <2>3. \A v \in Workers : /\ live'[v] = "new" => live[v] = "new"
                           /\ live[v] = "up" => live'[v] = "up"
    BY <1>0, <1>3 DEF Resume, Beat, AgeHeartbeat
  <2>4. ASSUME faults = 0, NEW v \in Workers PROVE CalmWorker(v)'
    <3>1. CalmWorker(v) /\ CalmWorker(w)
      BY <1>1, <2>4
    <3>2. CASE Resume(w)
      BY <3>1, <3>2 DEF Resume, CalmWorker
    <3>3. CASE Beat(w)
      BY <1>0, <3>1, <3>3 DEF Beat, Beating, CalmWorker
    <3>4. CASE AgeHeartbeat(w)
      BY <3>1, <3>4 DEF AgeHeartbeat, CalmWorker
    <3> QED
      BY <1>3, <3>2, <3>3, <3>4
  <2> QED
    BY <2>1, <2>2, <2>3, <2>4, ProcessStepKeeps
<1>4. ASSUME NEW ancient \in SUBSET Workers, EndPass(w, ancient)
      PROVE  OutcomeInv'
  <2>1. /\ live[w] = "up" /\ thr[b].pc = "next" /\ UNCHANGED <<row, att, live, missed, faults>>
        /\ hb' = [v \in Workers |-> IF v \in ancient THEN "none" ELSE hb[v]]
        /\ ancient \subseteq {v \in Workers : hb[v] \in {"stale", "stopped"}}
    BY <1>0, <1>4 DEF EndPass, InPhase, At, b
  <2>6. thr' = [thr EXCEPT ![b] = Idle, ![m] = IF @.pc = "boot" THEN Idle ELSE @]
    BY <1>4 DEF EndPass, PassOver, m, b
  <2>2. /\ thr'[b] = Idle /\ thr'[m] = IF thr[m].pc = "boot" THEN Idle ELSE thr[m]
        /\ \A q \in Threads : q \notin {m, b} => thr'[q] = thr[q]
    BY <1>0, <2>6
  <2>3. CalmLocal(Idle)
    BY DEF CalmLocal, Idle, Off
  <2>4. \A q \in Threads : MovedCalmly(q)
    BY <1>0, <2>1, <2>2, <2>3 DEF MovedCalmly
  <2>5. faults = 0 => \A v \in Workers : CalmWorker(v)'
    BY <1>1, <2>1 DEF CalmWorker
  <2> QED
    BY <2>1, <2>4, <2>5, ProcessStepKeeps
<1> QED
  BY <1>2, <1>3, <1>4

\* A fault leaves the tables alone; before the first one nothing was cancelled.
LEMMA FaultKeepsOutcome ==
    ASSUME IInv, OutcomeInv, NEW w \in Workers,
           Crash(w) \/ StopWorker(w) \/ Pause(w) \/ MissBeats(w) \/ ReceiverFault(w) \/ PassFault(w)
    PROVE  OutcomeInv'
<1>0. /\ Main(w) \in Threads /\ BeatThread(w) \in Threads /\ Main(w)[1] = w /\ BeatThread(w)[1] = w
      /\ faults \in Nat /\ thr \in [Threads -> Locals]
      /\ live \in [Workers -> {"new", "up", "paused", "down"}]
  BY DEF Main, BeatThread, Threads, IInv, TypeOK
<1>1. UNCHANGED <<row, att>> /\ faults' = faults + 1
  BY DEF Crash, StopWorker, Pause, MissBeats, ReceiverFault, PassFault, Fault
<1>2. live'[w] # "new" /\ \A v \in Workers \ {w} : live'[v] = live[v]
  BY <1>0 DEF Crash, StopWorker, Pause, MissBeats, Beating, ReceiverFault, PassFault
<1>3. \A q \in Threads : q \notin {Main(w), BeatThread(w)} => thr'[q] = thr[q]
  BY <1>0 DEF Crash, StopWorker, Pause, MissBeats, ReceiverFault, PassFault, PassOver
<1>4. IdsInOrder'
  BY <1>1 DEF OutcomeInv, IdsInOrder, Used
<1>5. Unstarted'
  <2> SUFFICES ASSUME NEW q \in Threads, live'[q[1]] = "new" PROVE thr'[q].pc = "off"
    BY DEF Unstarted
  <2>1. q[1] \in Workers \ {w} /\ q \notin {Main(w), BeatThread(w)}
    BY <1>0, <1>2 DEF Threads
  <2> QED
    BY <1>2, <1>3, <2>1 DEF OutcomeInv, Unstarted
<1>6. FaultlessIsCalm'
  BY <1>0, <1>1 DEF FaultlessIsCalm
<1>7. CancelFlagged'
  BY <1>0, <1>1, NoneSuperseded DEF CancelFlagged
<1> QED
  BY <1>4, <1>5, <1>6, <1>7 DEF OutcomeInv

\* Time passes for a row or an attempt.
LEMMA AgeKeepsOutcome ==
    ASSUME IInv, OutcomeInv, NEW t \in Ids, AgeOrphan(t) \/ AgeFailure(t) \/ AgeAttempt(t)
    PROVE  OutcomeInv'
<1>0. row \in [Ids -> Rows] /\ att \in [Ids -> Attempts]
  BY DEF IInv, TypeOK
<1>1. UNCHANGED <<live, hb, missed, thr, faults>>
  BY DEF AgeOrphan, AgeFailure, AgeAttempt
<1>2. ASSUME NEW s \in Ids
      PROVE  /\ row'[s].status = row[s].status /\ row'[s].exc = row[s].exc /\ row'[s].by = row[s].by
             /\ att'[s].parent = att[s].parent /\ att'[s].cause = att[s].cause
             /\ att'[s].cancelled <=> att[s].cancelled
  <2>0. row[s] \in Rows /\ att[s] \in Attempts
    BY <1>0
  <2>1. row'[s] \in {row[s], [row[s] EXCEPT !.aged = TRUE]}
    BY <1>0 DEF AgeOrphan, AgeFailure, AgeAttempt
  <2>2. att'[s] \in {att[s], [att[s] EXCEPT !.aged = TRUE]}
    BY <1>0 DEF AgeOrphan, AgeFailure, AgeAttempt
  <2>3. row'[s].status = row[s].status /\ row'[s].exc = row[s].exc /\ row'[s].by = row[s].by
    BY <2>0, <2>1 DEF Rows
  <2>4. /\ att'[s].parent = att[s].parent /\ att'[s].cause = att[s].cause
        /\ att'[s].cancelled <=> att[s].cancelled
    BY <2>0, <2>2 DEF Attempts
  <2> QED
    BY <2>3, <2>4
<1>3. IdsInOrder'
  BY <1>2 DEF OutcomeInv, IdsInOrder, Used
<1>4. Unstarted'
  BY <1>1 DEF OutcomeInv, Unstarted
<1>5. FaultlessIsCalm'
  <2> SUFFICES ASSUME faults = 0
               PROVE  /\ \A w \in Workers : CalmWorker(w)'
                      /\ \A s \in Ids : CalmRow(s)'
                      /\ \A q \in Threads : CalmThread(q)'
    BY <1>1 DEF FaultlessIsCalm
  <2>1. \A w \in Workers : CalmWorker(w)'
    BY <1>1 DEF OutcomeInv, FaultlessIsCalm, CalmWorker
  <2>2. \A s \in Ids : CalmRow(s)'
    BY <1>1, <1>2 DEF OutcomeInv, FaultlessIsCalm, CalmRow
  <2>3. \A q \in Threads : CalmThread(q)'
    BY <1>1 DEF OutcomeInv, FaultlessIsCalm, CalmThread
  <2> QED
    BY <2>1, <2>2, <2>3
<1>6. CancelFlagged'
  BY <1>1, <1>2 DEF OutcomeInv, CancelFlagged
<1> QED
  BY <1>3, <1>4, <1>5, <1>6 DEF OutcomeInv

LEMMA OutcomeInit == Init => OutcomeInv
<1> SUFFICES ASSUME Init PROVE OutcomeInv
  OBVIOUS
<1>1. \A t \in Ids : /\ row[t].status = "none" /\ row[t].exc = "none"
                     /\ att[t].parent = NoId /\ att[t].cause = "first"
  BY DEF Init, Unenqueued, Unrecorded
<1>2. \A p \in Threads : thr[p].pc = "off" /\ thr[p].phase = "recv" /\ thr[p].cause = "first"
  BY DEF Init, Off
<1>3. \A w \in Workers : CalmWorker(w)
  BY DEF Init, CalmWorker
<1> QED
  BY <1>1, <1>2, <1>3 DEF OutcomeInv, IdsInOrder, Used, Unstarted, FaultlessIsCalm, CalmRow,
     CalmThread, CancelFlagged

LEMMA OutcomeStep == IInv /\ OutcomeInv /\ [Next]_vars => OutcomeInv'
<1> SUFFICES ASSUME IInv, OutcomeInv, [Next]_vars PROVE OutcomeInv'
  OBVIOUS
<1>1. ASSUME NEW n \in Ids, NEW path \in Paths, NEW pin \in Pins, EnqueueTask(n, path, pin)
      PROVE  OutcomeInv'
  BY <1>1, EnqueueKeepsOutcome
<1>2. ASSUME NEW w \in Workers, WorkerStep(w) PROVE OutcomeInv'
  <2>1. CASE StartWorker(w) \/ Resume(w) \/ Beat(w) \/ AgeHeartbeat(w)
    BY <2>1, ProcessKeepsOutcome
  <2>2. CASE Crash(w) \/ StopWorker(w) \/ Pause(w) \/ MissBeats(w) \/ ReceiverFault(w) \/ PassFault(w)
    BY <2>2, FaultKeepsOutcome
  <2>3. CASE (\E t \in Ids : Claim(w, t)) \/ \E exc \in Outcomes : Finish(w, exc)
    BY <2>3, RunKeepsOutcome
  <2>4. CASE RecordLateCompletion(w)
    BY <2>4, LateKeepsOutcome
  <2>5. CASE StartPass(w)
    BY <2>5, PassKeepsOutcome
  <2>6. CASE PassStep(w)
    <3>1. CASE StartRepair(w) \/ StartDetect(w) \/ \E t \in Ids : RepairRetry(w, t) \/ ReapTask(w, t)
      BY <3>1, PassKeepsOutcome
    <3>2. CASE \E t \in Ids : DetectLate(w, t)
      BY <3>2, LateKeepsOutcome
    <3>3. CASE \E ancient \in SUBSET Workers : EndPass(w, ancient)
      BY <3>3, ProcessKeepsOutcome
    <3> QED
      BY <2>6, <3>1, <3>2, <3>3 DEF PassStep
  <2> QED
    BY <1>2, <2>1, <2>2, <2>3, <2>4, <2>5, <2>6 DEF WorkerStep
<1>3. ASSUME NEW p \in Threads, ThreadStep(p) PROVE OutcomeInv'
  <2>1. CASE ReadForRetry(p) \/ InsertConflict(p)
    BY <2>1, RetryMoveKeepsOutcome
  <2>2. CASE FlagCancelled(p)
    BY <2>2, FlagKeepsOutcome
  <2>3. CASE \E n \in Ids : InsertRetry(p, n)
    BY <2>3, EnqueueKeepsOutcome
  <2>4. CASE \E n \in Ids : CancelRetry(p, n)
    BY <2>4, CancelKeepsOutcome
  <2> QED
    BY <1>3, <2>1, <2>2, <2>3, <2>4 DEF ThreadStep
<1>4. ASSUME NEW t \in Ids, AgeOrphan(t) \/ AgeFailure(t) \/ AgeAttempt(t) PROVE OutcomeInv'
  BY <1>4, AgeKeepsOutcome
<1>5. CASE UNCHANGED vars
  <2>1. UNCHANGED <<row, att, live, hb, missed, thr, faults>>
    BY <1>5 DEF vars
  <2>2. \A q \in Threads : MovedCalmly(q)
    BY <2>1 DEF MovedCalmly
  <2>3. faults = 0 => \A w \in Workers : CalmWorker(w)'
    BY <2>1 DEF OutcomeInv, FaultlessIsCalm, CalmWorker
  <2> QED
    BY <2>1, <2>2, <2>3, ProcessStepKeeps
<1> QED
  BY <1>1, <1>2, <1>3, <1>4, <1>5 DEF Next


\* Some number of a non-empty set of bounded naturals is its largest.
LEMMA LargestExists ==
    ASSUME NEW n \in Nat, NEW S \in SUBSET (1..n), S # {}
    PROVE  \E u \in S : \A v \in S : v <= u
<1> DEFINE R == {ss \in Nat \X Nat : ss[1] < ss[2]}
           D == {n - i : i \in S}
<1>1. D \subseteq Nat /\ D # {}
  <2>1. \A i \in S : n - i \in Nat
    OBVIOUS
  <2>2. PICK i \in S : TRUE
    OBVIOUS
  <2>3. n - i \in D
    OBVIOUS
  <2> QED
    BY <2>1, <2>2
<1>2. IsWellFoundedOn(R, Nat)
  BY NatLessThanWellFounded DEF OpToRel
<1>3. PICK d \in D : \A e \in D : <<e, d>> \notin R
  <2> HIDE DEF R, D
  <2> QED
    BY <1>1, <1>2, WFMin
<1>4. PICK i \in S : d = n - i
  BY <1>3
<1>5. ASSUME NEW j \in S PROVE j <= i
  <2>1. n - j \in D /\ n - j \in Nat /\ n - i \in Nat
    OBVIOUS
  <2>2. ~(n - j < n - i)
    BY <1>3, <1>4, <2>1
  <2> QED
    BY <2>1, <2>2
<1> QED
  BY <1>5

\* One step of chain_outcome's walk, given what the walk does from there on.
WalkStep(f, u) == IF ChainEndsAt(u) THEN {u} ELSE {u} \cup f[ChildOf(u)]
IsWalk(f) == f = [u \in Ids |-> WalkStep(f, u)]

\* A set of attempts the walk does not leave.
Closed(S) == \A u \in S : ~ChainEndsAt(u) => ChildOf(u) \in S
Reach(u) == {v \in Ids : \A S \in SUBSET Ids : u \in S /\ Closed(S) => v \in S}

LEMMA ChildIsOne ==
    ASSUME NEW u \in Ids, ~ChainEndsAt(u)
    PROVE  ChildOf(u) \in Ids /\ att[ChildOf(u)].parent = u
BY DEF ChainEndsAt, HasChild, ChildrenOf, ChildOf

\* The recursive definition of the walk has a solution.
LEMMA WalkExists == \E f : IsWalk(f)
<1> DEFINE f == [u \in Ids |-> Reach(u)]
<1>1. ASSUME NEW u \in Ids PROVE Reach(u) = WalkStep(f, u)
  <2>1. u \in Reach(u)
    BY DEF Reach
  <2>2. CASE ChainEndsAt(u)
    <3>1. {u} \in SUBSET Ids /\ Closed({u})
      BY <2>2 DEF Closed
    <3> QED
      BY <2>1, <2>2, <3>1 DEF Reach, WalkStep
  <2>3. CASE ~ChainEndsAt(u)
    <3> DEFINE c == ChildOf(u)
    <3>1. c \in Ids
      BY <2>3, ChildIsOne
    <3> HIDE DEF c
    <3>2. ASSUME NEW v \in Reach(c) PROVE v \in Reach(u)
      <4> SUFFICES ASSUME NEW S \in SUBSET Ids, u \in S, Closed(S) PROVE v \in S
        BY <3>2 DEF Reach
      <4>1. c \in S
        BY <2>3 DEF Closed, c
      <4> QED
        BY <3>2, <4>1 DEF Reach
    <3>3. ASSUME NEW v \in Reach(u), v # u PROVE v \in Reach(c)
      <4> SUFFICES ASSUME NEW S \in SUBSET Ids, c \in S, Closed(S) PROVE v \in S
        BY <3>3 DEF Reach
      <4>1. S \cup {u} \in SUBSET Ids /\ u \in S \cup {u} /\ Closed(S \cup {u})
        BY DEF Closed, c
      <4>2. v \in S \cup {u}
        BY <3>3, <4>1 DEF Reach
      <4> QED
        BY <3>3, <4>2
    <3>4. WalkStep(f, u) = {u} \cup Reach(c)
      BY <2>3, <3>1 DEF WalkStep, c
    <3> QED
      BY <2>1, <3>2, <3>3, <3>4
  <2> QED
    BY <2>2, <2>3
<1>2. f = [u \in Ids |-> WalkStep(f, u)]
  BY <1>1
<1> QED
  BY <1>2 DEF IsWalk

\* ChainFrom is such a walk.
LEMMA ChainIsWalk == \E f : IsWalk(f) /\ \A t \in Ids : ChainFrom(t) = f[t]
<1> DEFINE W == CHOOSE f : IsWalk(f)
<1>1. IsWalk(W)
  BY WalkExists
<1>2. \A t \in Ids : ChainFrom(t) = W[t]
  BY DEF ChainFrom, IsWalk, WalkStep
<1> QED
  BY <1>1, <1>2


\* Where the walk goes on, it goes on to an attempt that was not cancelled.
LEMMA WalkAvoidsCancelled ==
    ASSUME IInv, OutcomeInv, faults <= 1, \A p \in Threads : thr[p].pc # "flag",
           NEW u \in Ids, ~ChainEndsAt(u)
    PROVE  row[ChildOf(u)].exc # "superseded"
<1> DEFINE c == ChildOf(u)
<1>0. c \in Ids
  BY ChildIsOne
<1> SUFFICES ASSUME row[c].exc = "superseded" PROVE FALSE
  OBVIOUS
<1> HIDE DEF c
<1>1. att[c].cancelled
  BY <1>0 DEF OutcomeInv, CancelFlagged
<1>2. att[c].marked
  BY <1>0, <1>1 DEF IInv, MarkersTruthful, MarkerTruthful
<1>3. ~HasChild(c)
  BY <1>0 DEF IInv, CancelledNeverRuns
<1> QED
  BY <1>1, <1>2, <1>3 DEF ChainEndsAt, c

\* From an attempt that was not cancelled the walk meets only such attempts,
\* and one of them ends it: every retry comes after what it retries.
LEMMA WalkIsSound ==
    ASSUME IInv, OutcomeInv, faults <= 1, \A p \in Threads : thr[p].pc # "flag",
           NEW f, IsWalk(f), NEW t \in Ids, row[t].exc # "superseded"
    PROVE  /\ \A v \in f[t] : row[v].exc # "superseded"
           /\ \E v \in f[t] : ChainEndsAt(v)
<1> DEFINE Good(u) == /\ \A v \in f[u] : row[v].exc # "superseded"
                      /\ \E v \in f[u] : ChainEndsAt(v)
           Bad == {u \in Ids : row[u].exc # "superseded" /\ ~Good(u)}
<1>1. \A u \in Ids : f[u] = WalkStep(f, u)
  BY DEF IsWalk
<1> SUFFICES ASSUME Bad # {} PROVE FALSE
  OBVIOUS
<1>2. PICK u \in Bad : \A v \in Bad : v <= u
  <2>1. Bad \in SUBSET (1..MaxRows) /\ MaxRows \in Nat
    BY BoundsAssumption DEF Ids
  <2> HIDE DEF Bad
  <2> QED
    BY <2>1, LargestExists
<1>3. CASE ChainEndsAt(u)
  BY <1>1, <1>3 DEF WalkStep
<1>4. CASE ~ChainEndsAt(u)
  <2> DEFINE c == ChildOf(u)
  <2>1. c \in Ids /\ att[c].parent = u
    BY <1>4, ChildIsOne
  <2>2. row[c].exc # "superseded"
    BY <1>4, WalkAvoidsCancelled
  <2>3. u < c
    BY <2>1 DEF OutcomeInv, IdsInOrder, Ids, NoId
  <2>4. f[u] = {u} \cup f[c]
    BY <1>1, <1>4 DEF WalkStep
  <2> HIDE DEF c
  <2>5. Good(c)
    BY <1>2, <2>1, <2>2, <2>3, BoundsAssumption DEF Ids
  <2> QED
    BY <2>4, <2>5
<1> QED
  BY <1>3, <1>4

LEMMA OutcomeInvSuffices == IInv /\ OutcomeInv => CancelledIsNotOutcome
<1> SUFFICES ASSUME IInv, OutcomeInv, faults <= 1, NEW t \in Ids, Used(t), att[t].parent = NoId,
                    \A p \in Threads : thr[p].pc # "flag"
             PROVE  row[Latest(t)].exc # "superseded"
  BY DEF CancelledIsNotOutcome
<1>1. row[t].exc # "superseded"
  <2>1. att[t].marked => att[t].parent # NoId
    BY DEF IInv, ChainsLinked, Linked
  <2> QED
    BY <2>1, SupersededIsMarked DEF OutcomeInv
<1>2. PICK f : IsWalk(f) /\ ChainFrom(t) = f[t]
  BY ChainIsWalk
<1>3. /\ \A v \in ChainFrom(t) : row[v].exc # "superseded"
      /\ \E v \in ChainFrom(t) : ChainEndsAt(v)
  BY <1>1, <1>2, WalkIsSound
<1>4. Latest(t) \in ChainFrom(t)
  BY <1>3 DEF Latest
<1> QED
  BY <1>3, <1>4

\* The outcome chain_outcome reads off a chain is never that of a retry that
\* was cancelled because the attempt it replaced completed after all: however
\* receivers, reapers and sweeps of any number of workers interleave, as long as
\* at most one thing has gone wrong and no thread is between cancelling a retry
\* and saying so.
THEOREM CancelledIsNoOutcome == Spec => []CancelledIsNotOutcome
<1>1. Init => IInv /\ OutcomeInv
  BY InvInit, OutcomeInit
<1>2. IInv /\ OutcomeInv /\ [Next]_vars => IInv' /\ OutcomeInv'
  BY InvStep, OutcomeStep
<1>3. IInv /\ OutcomeInv => CancelledIsNotOutcome
  BY OutcomeInvSuffices
<1> QED
  BY <1>1, <1>2, <1>3, PTL DEF Spec


=============================================================================
