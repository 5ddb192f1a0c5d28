--------------------------- MODULE WorkersProofs ---------------------------
(***************************************************************************)
(* Proofs about the parts of MCWorkers.  WebhookDelivery, for any number   *)
(* of deliveries, endpoints, publishers, workers and ticks: the right to   *)
(* send a delivery is in one place, so no two workers send the same one,   *)
(* and an acknowledged one is not posted again.  Telemetry, for any queue, *)
(* batches, loggers and windows: no record is lost silently, a reader      *)
(* skips none, every lowered level is put back.  WebhookLink, for any      *)
(* pairings, writes and rotations: no write runs away over the link, and   *)
(* the mirror command links back.                                          *)
(***************************************************************************)
EXTENDS MCWorkers, Sequences, FiniteSetTheorems, WellFoundedInduction, TLAPS

\* Ids are positive.
LEMMA IdsAreNat == Ids \subseteq Nat /\ NoId \notin Ids
BY BoundsAssumption DEF Ids, NoId

\* Processes at rest.
LEMMA IdleTypes == IdlePub \in Publishing /\ IdleRun \in Running /\ IdleTick \in Ticking
BY DEF IdlePub, IdleRun, IdleTick, Publishing, Running, Ticking

\* The next free row is one of them.
LEMMA FreshIsFree == Free # {} => Fresh \in Ids /\ row[Fresh].status = "none"
<1> SUFFICES ASSUME Free # {} PROVE Fresh \in Free
  BY DEF Free
<1> DEFINE R == {ss \in Nat \X Nat : ss[1] < ss[2]}
<1>1. Free \subseteq Nat
  BY IdsAreNat DEF Free
<1>2. IsWellFoundedOn(R, Nat)
  BY NatLessThanWellFounded DEF OpToRel
<1>3. PICK i \in Free : \A j \in Free : <<j, i>> \notin R
  <2> HIDE DEF R
  <2> QED BY <1>1, <1>2, WFMin
<1>4. \A j \in Free : i <= j
  <2> TAKE j \in Free
  <2>1. i \in Nat /\ j \in Nat
    BY <1>1
  <2>2. ~(j < i)
    BY <1>3, <2>1
  <2> QED BY <2>1, <2>2
<1> QED
  BY <1>4 DEF Fresh

\* A new row has the type of a row.
LEMMA NewRowType ==
    ASSUME NEW e \in Endpoints, NEW max \in Nat \ {0}
    PROVE  NewRow(e, max) \in Rows
BY DEF NewRow, Rows, Statuses

\* So has the row an attempt leaves.
LEMMA OutcomeType ==
    ASSUME TypeOK, NEW r \in Runners, run[r].d \in Ids
    PROVE  Outcome(r) \in Rows
<1>1. row[run[r].d] \in Rows /\ run[r] \in Running
  BY DEF TypeOK
<1>2. run[r].attempt \in Nat
  BY <1>1 DEF Running
<1>3. \A x \in Rows, n, c \in Nat, s \in Statuses :
        [x EXCEPT !.attempt = n, !.status = s, !.cursor = c, !.due = FALSE] \in Rows
  BY DEF Rows
<1> QED
  BY <1>1, <1>2, <1>3 DEF Outcome, Statuses

\* And the local state of a task after the endpoint was bumped.
LEMMA AfterBumpType ==
    ASSUME TypeOK, NEW r \in Runners, run[r].pc # "idle"
    PROVE  /\ AfterBump(r) \in Running
           /\ AfterBump(r).pc \in {"idle", "notify"}
           /\ AfterBump(r).pc = "notify" =>
                  AfterBump(r).d = run[r].d /\ AfterBump(r).attempt = run[r].attempt
<1>1. run[r] \in Running
  BY DEF TypeOK
<1>2. [run[r] EXCEPT !.pc = "notify"] \in Running
  BY <1>1 DEF Running
<1>3. /\ [run[r] EXCEPT !.pc = "notify"].pc = "notify"
      /\ [run[r] EXCEPT !.pc = "notify"].d = run[r].d
      /\ [run[r] EXCEPT !.pc = "notify"].attempt = run[r].attempt
  BY <1>1 DEF Running
<1>4. IdleRun.pc = "idle"
  BY DEF IdleRun
<1> QED
  BY <1>2, <1>3, <1>4, IdleTypes DEF AfterBump

\* And the local state of a publisher after an enqueue.
LEMMA AfterEnqueueType ==
    ASSUME TypeOK, NEW p \in Publishers
    PROVE  AfterEnqueue(p) \in Publishing /\ AfterEnqueue(p).pc # "enqueue"
<1>1. pub[p] \in Publishing
  BY DEF TypeOK
<1>2. [pub[p] EXCEPT !.pc = "create", !.d = NoId] \in Publishing
  BY <1>1 DEF Publishing
<1>3. [pub[p] EXCEPT !.pc = "create", !.d = NoId].pc = "create" /\ IdlePub.pc = "idle"
  BY <1>1 DEF Publishing, IdlePub
<1> QED
  BY <1>2, <1>3, IdleTypes DEF AfterEnqueue

----------------------------------------------------------------------------
(* Types.                                                                  *)

\* Initially every variable has its type.
LEMMA TypeInit == Init => TypeOK
<1> SUFFICES ASSUME Init PROVE TypeOK
  OBVIOUS
<1>1. row \in [Ids -> Rows]
  BY SettingsAssumption DEF Init, Rows, Statuses
<1> QED
  BY <1>1, IdleTypes DEF Init, TypeOK

\* The steps of publishers.
LEMMA PublisherTypes ==
    ASSUME TypeOK, LocalsSane, NEW p \in Publishers,
           \/ StartFanOut(p) \/ StartReplayDead(p) \/ PublisherStep(p) \/ EnqueueFails(p)
           \/ \E d \in Ids : StartReplay(p, d)
           \/ \E e \in Endpoints : CreateForTest(p, e)
    PROVE  TypeOK' /\ LocalsSane'
<1>0. pub[p] \in Publishing
  BY DEF TypeOK
<1>1. CASE StartFanOut(p)
  <2>1. PICK M \in SUBSET Endpoints :
          pub' = [pub EXCEPT ![p] = [IdlePub EXCEPT !.pc = "create", !.todo = M]]
    BY <1>1 DEF StartFanOut
  <2>2. /\ [IdlePub EXCEPT !.pc = "create", !.todo = M] \in Publishing
        /\ [IdlePub EXCEPT !.pc = "create", !.todo = M].pc = "create"
    BY DEF IdlePub, Publishing
  <2>3. pub' \in [Publishers -> Publishing]
    BY <2>1, <2>2 DEF TypeOK
  <2>4. \A q \in Publishers : pub'[q].pc = "enqueue" => pub'[q] = pub[q]
    BY <2>1, <2>2 DEF TypeOK
  <2> QED
    BY <1>1, <2>3, <2>4 DEF StartFanOut, TypeOK, LocalsSane
<1>2. ASSUME NEW D \in SUBSET Ids,
             pub' = [pub EXCEPT ![p] = [IdlePub EXCEPT !.pc = "create", !.again = D]],
             commands' = commands + 1,
             UNCHANGED <<row, queued, ep, run, tick, edit, posts, acked, streak, mailed, faults, edits>>
      PROVE  TypeOK' /\ LocalsSane'
  <2>2. /\ [IdlePub EXCEPT !.pc = "create", !.again = D] \in Publishing
        /\ [IdlePub EXCEPT !.pc = "create", !.again = D].pc = "create"
    BY DEF IdlePub, Publishing
  <2>3. pub' \in [Publishers -> Publishing]
    BY <1>2, <2>2 DEF TypeOK
  <2>4. \A q \in Publishers : pub'[q].pc = "enqueue" => pub'[q] = pub[q]
    BY <1>2, <2>2 DEF TypeOK
  <2> QED
    BY <1>2, <2>3, <2>4 DEF TypeOK, LocalsSane
<1>3. CASE StartReplayDead(p)
  BY <1>2, <1>3 DEF StartReplayDead, Command
<1>4. ASSUME NEW d \in Ids, StartReplay(p, d) PROVE TypeOK' /\ LocalsSane'
  <2>1. /\ {d} \in SUBSET Ids
        /\ pub' = [pub EXCEPT ![p] = [IdlePub EXCEPT !.pc = "create", !.again = {d}]]
        /\ commands' = commands + 1
        /\ UNCHANGED <<row, queued, ep, run, tick, edit, posts, acked, streak, mailed, faults, edits>>
    BY <1>4 DEF StartReplay, Command
  <2> QED BY <1>2, <2>1, ZenonT(60)
<1>5. ASSUME NEW e \in Endpoints, NEW max \in Nat \ {0}, NEW l \in Publishing, Free # {},
             row' = [row EXCEPT ![Fresh] = NewRow(e, max)],
             pub' = [pub EXCEPT ![p] = l], l.d = Fresh, commands' \in Nat,
             UNCHANGED <<queued, ep, run, tick, edit, posts, acked, streak, mailed, faults, edits>>
      PROVE  TypeOK' /\ LocalsSane'
  <2>1. row' \in [Ids -> Rows] /\ Fresh \in Ids
    BY <1>5, FreshIsFree, NewRowType DEF TypeOK
  <2>2. pub' \in [Publishers -> Publishing]
    BY <1>5 DEF TypeOK
  <2>3. \A q \in Publishers : pub'[q] = pub[q] \/ pub'[q].d \in Ids
    BY <1>5, <2>1 DEF TypeOK
  <2> QED
    BY <1>5, <2>1, <2>2, <2>3 DEF TypeOK, LocalsSane
<1>6. CASE CreateForEvent(p)
  <2>1. PICK e \in pub[p].todo :
          /\ row' = [row EXCEPT ![Fresh] = NewRow(e, MaxAttempts)]
          /\ pub' = [pub EXCEPT ![p].pc = "enqueue", ![p].todo = @ \ {e}, ![p].d = Fresh]
    BY <1>6 DEF CreateForEvent
  <2> DEFINE l == [pub[p] EXCEPT !.pc = "enqueue", !.todo = @ \ {e}, !.d = Fresh]
  <2>2. e \in Endpoints /\ Fresh \in Ids
    BY <1>0, <1>6, FreshIsFree DEF Publishing, CreateForEvent
  <2>3. l \in Publishing /\ l.d = Fresh /\ pub' = [pub EXCEPT ![p] = l]
    BY <1>0, <2>1, <2>2 DEF Publishing, TypeOK
  <2> HIDE DEF l
  <2> QED
    BY <1>5, <1>6, <2>1, <2>2, <2>3, SettingsAssumption DEF CreateForEvent, TypeOK
<1>7. CASE CreateForReplay(p)
  <2>1. PICK o \in pub[p].again :
          /\ row' = [row EXCEPT ![Fresh] = NewRow(row[o].ep, row[o].max)]
          /\ pub' = [pub EXCEPT ![p].pc = "enqueue", ![p].again = @ \ {o}, ![p].d = Fresh]
    BY <1>7 DEF CreateForReplay
  <2> DEFINE l == [pub[p] EXCEPT !.pc = "enqueue", !.again = @ \ {o}, !.d = Fresh]
  <2>2. o \in Ids /\ Fresh \in Ids
    BY <1>0, <1>7, FreshIsFree DEF Publishing, CreateForReplay
  <2>3. l \in Publishing /\ l.d = Fresh /\ pub' = [pub EXCEPT ![p] = l]
    BY <1>0, <2>1, <2>2 DEF Publishing, TypeOK
  <2>4. row[o].ep \in Endpoints /\ row[o].max \in Nat \ {0}
    BY <2>2 DEF TypeOK, Rows
  <2> HIDE DEF l
  <2> QED
    BY <1>5, <1>7, <2>1, <2>3, <2>4 DEF CreateForReplay, TypeOK
<1>8. ASSUME NEW e \in Endpoints, CreateForTest(p, e) PROVE TypeOK' /\ LocalsSane'
  <2> DEFINE l == [IdlePub EXCEPT !.pc = "enqueue", !.d = Fresh]
  <2>1. l \in Publishing /\ l.d = Fresh
    BY <1>8, FreshIsFree DEF IdlePub, Publishing, CreateForTest
  <2>2. pub' = [pub EXCEPT ![p] = l] /\ Free # {} /\ row' = [row EXCEPT ![Fresh] = NewRow(e, 1)]
    BY <1>8 DEF CreateForTest
  <2>3. commands' \in Nat /\ 1 \in Nat \ {0}
    BY <1>8 DEF CreateForTest, Command, TypeOK
  <2>4. UNCHANGED <<queued, ep, run, tick, edit, posts, acked, streak, mailed, faults, edits>>
    BY <1>8 DEF CreateForTest
  <2> HIDE DEF l
  <2> QED
    BY <1>5, <2>1, <2>2, <2>3, <2>4
<1>9. ASSUME NEW l \in Publishing, l.pc # "enqueue", pub' = [pub EXCEPT ![p] = l],
             queued' \in [Ids -> Nat], faults' \in Nat,
             UNCHANGED <<row, ep, run, tick, edit, posts, acked, streak, mailed, commands, edits>>
      PROVE  TypeOK' /\ LocalsSane'
  <2>1. pub' \in [Publishers -> Publishing]
    BY <1>9 DEF TypeOK
  <2>2. \A q \in Publishers : pub'[q].pc = "enqueue" => pub'[q] = pub[q]
    BY <1>9 DEF TypeOK
  <2> QED
    BY <1>9, <2>1, <2>2 DEF TypeOK, LocalsSane
<1>10. CASE Enqueue(p)
  <2>1. queued' \in [Ids -> Nat]
    BY <1>10 DEF Enqueue, TypeOK, LocalsSane
  <2> QED
    BY <1>9, <1>10, <2>1, AfterEnqueueType DEF Enqueue, TypeOK
<1>11. CASE EnqueueFails(p)
  <2>1. faults' \in Nat /\ queued' \in [Ids -> Nat]
    BY <1>11 DEF EnqueueFails, Fault, TypeOK
  <2> QED
    BY <1>9, <1>11, <2>1, AfterEnqueueType DEF EnqueueFails
<1>12. CASE CreateFails(p)
  <2>1. IdlePub \in Publishing /\ IdlePub.pc # "enqueue"
    BY IdleTypes DEF IdlePub
  <2>2. faults' \in Nat /\ queued' \in [Ids -> Nat]
    BY <1>12 DEF CreateFails, Fault, TypeOK
  <2> QED
    BY <1>9, <1>12, <2>1, <2>2 DEF CreateFails
<1> QED
  BY <1>1, <1>3, <1>4, <1>6, <1>7, <1>8, <1>10, <1>11, <1>12 DEF PublisherStep

\* A worker's step that only changes its own local state, and bookkeeping.
LEMMA RunnerLocal ==
    ASSUME TypeOK, LocalsSane, NEW r \in Runners, NEW l \in Running,
           run' = [run EXCEPT ![r] = l],
           l.pc # "idle" => l.d \in Ids /\ l.attempt > 0,
           row' \in [Ids -> Rows], queued' \in [Ids -> Nat],
           ep' \in [Endpoints -> [enabled : BOOLEAN, fails : Nat]],
           posts' \in [Ids -> Nat], streak' \in [Endpoints -> Nat],
           acked' \in SUBSET Ids, mailed' \in SUBSET Ids, faults' \in Nat,
           UNCHANGED <<pub, tick, edit, commands, edits>>
    PROVE  TypeOK' /\ LocalsSane'
<1>1. run' \in [Runners -> Running]
  BY DEF TypeOK
<1>2. \A q \in Runners : q # r => run'[q] = run[q]
  BY DEF TypeOK
<1>3. run'[r] = l
  BY DEF TypeOK
<1> QED
  BY <1>1, <1>2, <1>3 DEF TypeOK, LocalsSane

\* The steps of workers.
LEMMA RunnerTypes ==
    ASSUME TypeOK, LocalsSane, NEW r \in Runners,
           RunnerStep(r) \/ BodyRaises(r) \/ WorkerDies(r)
    PROVE  TypeOK' /\ LocalsSane'
<1>0. run[r] \in Running /\ (run[r].pc # "idle" => run[r].d \in Ids /\ run[r].attempt > 0)
  BY DEF TypeOK, LocalsSane
<1>1. IdleRun \in Running /\ IdleRun.pc = "idle"
  BY IdleTypes DEF IdleRun
<1>2. run[r].pc # "idle" => row[run[r].d] \in Rows /\ row[run[r].d].ep \in Endpoints
  BY <1>0 DEF TypeOK, Rows
<1>3. ASSUME NEW d \in Ids, Begin(r, d) PROVE TypeOK' /\ LocalsSane'
  <2> DEFINE l == [pc |-> "send", d |-> d, attempt |-> row[d].attempt + 1, ok |-> FALSE]
  <2>1. row[d].attempt \in Nat
    BY DEF TypeOK, Rows
  <2>2. l \in Running /\ l.pc = "send" /\ l.d = d /\ l.attempt > 0
    BY <2>1 DEF Running
  <2>3. run' = [run EXCEPT ![r] = l] \/ run' = [run EXCEPT ![r] = run[r]]
    BY <1>3 DEF Begin, TypeOK
  <2>4. queued' \in [Ids -> Nat]
    BY <1>3 DEF Begin, TypeOK
  <2>5. /\ row' \in [Ids -> Rows] /\ posts' \in [Ids -> Nat] /\ streak' \in [Endpoints -> Nat]
        /\ ep' \in [Endpoints -> [enabled : BOOLEAN, fails : Nat]]
        /\ acked' \in SUBSET Ids /\ mailed' \in SUBSET Ids /\ faults' \in Nat
        /\ UNCHANGED <<pub, tick, edit, commands, edits>>
    BY <1>3 DEF Begin, TypeOK
  <2> HIDE DEF l
  <2>6. CASE run' = [run EXCEPT ![r] = l]
    BY <2>2, <2>4, <2>5, <2>6, RunnerLocal
  <2>7. CASE run' = [run EXCEPT ![r] = run[r]]
    BY <1>0, <2>4, <2>5, <2>7, RunnerLocal
  <2> QED
    BY <2>3, <2>6, <2>7
<1>4. CASE Send(r)
  <2>1. PICK ok \in BOOLEAN :
          /\ run' = [run EXCEPT ![r].pc = "record", ![r].ok = ok]
          /\ acked' = IF ok THEN acked \cup {run[r].d} ELSE acked
          /\ streak' = [streak EXCEPT ![row[run[r].d].ep] = IF ok THEN 0 ELSE @ + 1]
    BY <1>4 DEF Send
  <2> DEFINE l == [run[r] EXCEPT !.pc = "record", !.ok = ok]
  <2>2. l \in Running /\ l.d = run[r].d /\ l.attempt = run[r].attempt
    BY <1>0 DEF Running
  <2>3. run' = [run EXCEPT ![r] = l]
    BY <2>1 DEF TypeOK
  <2>4. run[r].d \in Ids /\ run[r].attempt > 0
    BY <1>0, <1>4 DEF Send
  <2>5. posts' \in [Ids -> Nat] /\ acked' \in SUBSET Ids
    BY <1>4, <2>1, <2>4 DEF Send, TypeOK
  <2>6. streak' \in [Endpoints -> Nat]
    <3>1. \A e \in Endpoints : (IF ok THEN 0 ELSE streak[e] + 1) \in Nat
      BY DEF TypeOK
    <3> QED
      BY <2>1, <3>1 DEF TypeOK
  <2>7. /\ row' \in [Ids -> Rows] /\ queued' \in [Ids -> Nat]
        /\ ep' \in [Endpoints -> [enabled : BOOLEAN, fails : Nat]]
        /\ mailed' \in SUBSET Ids /\ faults' \in Nat
        /\ UNCHANGED <<pub, tick, edit, commands, edits>>
    BY <1>4 DEF Send, TypeOK
  <2> HIDE DEF l
  <2> QED
    BY <2>2, <2>3, <2>4, <2>5, <2>6, <2>7, RunnerLocal
<1>5. CASE Blocked(r)
  <2> DEFINE l == [run[r] EXCEPT !.pc = "record", !.ok = FALSE]
  <2>2. l \in Running /\ l.d = run[r].d /\ l.attempt = run[r].attempt
    BY <1>0 DEF Running
  <2>3. run' = [run EXCEPT ![r] = l]
    BY <1>5 DEF Blocked, TypeOK
  <2>4. run[r].d \in Ids /\ run[r].attempt > 0
    BY <1>0, <1>5 DEF Blocked
  <2>6. streak' \in [Endpoints -> Nat]
    <3>1. \A e \in Endpoints : streak[e] + 1 \in Nat
      BY DEF TypeOK
    <3> QED
      BY <1>5, <3>1 DEF Blocked, TypeOK
  <2>7. /\ row' \in [Ids -> Rows] /\ queued' \in [Ids -> Nat]
        /\ ep' \in [Endpoints -> [enabled : BOOLEAN, fails : Nat]]
        /\ posts' \in [Ids -> Nat] /\ acked' \in SUBSET Ids
        /\ mailed' \in SUBSET Ids /\ faults' \in Nat
        /\ UNCHANGED <<pub, tick, edit, commands, edits>>
    BY <1>5 DEF Blocked, TypeOK
  <2> HIDE DEF l
  <2> QED
    BY <2>2, <2>3, <2>4, <2>6, <2>7, RunnerLocal
<1>6. CASE RecordAttempt(r)
  <2> DEFINE l == [run[r] EXCEPT !.pc = "bump"]
  <2>2. l \in Running /\ l.d = run[r].d /\ l.attempt = run[r].attempt
    BY <1>0 DEF Running
  <2>3. run' = [run EXCEPT ![r] = l]
    BY <1>6 DEF RecordAttempt, TypeOK
  <2>4. run[r].d \in Ids /\ run[r].attempt > 0
    BY <1>0, <1>6 DEF RecordAttempt
  <2>6. row' \in [Ids -> Rows]
    BY <1>6, <2>4, OutcomeType DEF RecordAttempt, TypeOK
  <2>7. /\ queued' \in [Ids -> Nat] /\ streak' \in [Endpoints -> Nat]
        /\ ep' \in [Endpoints -> [enabled : BOOLEAN, fails : Nat]]
        /\ posts' \in [Ids -> Nat] /\ acked' \in SUBSET Ids
        /\ mailed' \in SUBSET Ids /\ faults' \in Nat
        /\ UNCHANGED <<pub, tick, edit, commands, edits>>
    BY <1>6 DEF RecordAttempt, TypeOK
  <2> HIDE DEF l
  <2> QED
    BY <2>2, <2>3, <2>4, <2>6, <2>7, RunnerLocal
<1>7. ASSUME run[r].pc # "idle", NEW l \in Running, run' = [run EXCEPT ![r] = l],
             l.pc # "idle" => l.d = run[r].d /\ l.attempt = run[r].attempt,
             ep' \in [Endpoints -> [enabled : BOOLEAN, fails : Nat]],
             mailed' \in SUBSET Ids, faults' \in Nat,
             UNCHANGED <<row, queued, pub, tick, edit, posts, acked, streak, commands, edits>>
      PROVE  TypeOK' /\ LocalsSane'
  <2>1. l.pc # "idle" => l.d \in Ids /\ l.attempt > 0
    BY <1>0, <1>7
  <2>2. /\ row' \in [Ids -> Rows] /\ queued' \in [Ids -> Nat]
        /\ streak' \in [Endpoints -> Nat]
        /\ posts' \in [Ids -> Nat] /\ acked' \in SUBSET Ids
        /\ UNCHANGED <<pub, tick, edit, commands, edits>>
    BY <1>7 DEF TypeOK
  <2> QED
    BY <1>7, <2>1, <2>2, RunnerLocal
<1>8. \A s \in {"check", "disable"} :
        /\ [run[r] EXCEPT !.pc = s] \in Running
        /\ [run[r] EXCEPT !.pc = s].d = run[r].d
        /\ [run[r] EXCEPT !.pc = s].attempt = run[r].attempt
  BY <1>0 DEF Running
<1>9. run[r].pc # "idle" =>
        /\ AfterBump(r) \in Running
        /\ AfterBump(r).pc # "idle" =>
               AfterBump(r).d = run[r].d /\ AfterBump(r).attempt = run[r].attempt
  BY AfterBumpType
<1>10. CASE BumpEndpoint(r)
  <2>1. run[r].pc # "idle"
    BY <1>10 DEF BumpEndpoint
  <2>2. ep' \in [Endpoints -> [enabled : BOOLEAN, fails : Nat]]
    <3> DEFINE E == [enabled : BOOLEAN, fails : Nat]
    <3>1. \A e \in Endpoints :
            [ep[e] EXCEPT !.fails = IF run[r].ok THEN 0 ELSE @ + 1] \in E
      BY DEF TypeOK
    <3>2. PICK e : ep' = [ep EXCEPT ![e] = [ep[e] EXCEPT !.fails = IF run[r].ok THEN 0 ELSE @ + 1]]
      BY <1>10, <1>2, <2>1 DEF BumpEndpoint, TypeOK
    <3> HIDE DEF E
    <3>3. ep' \in [Endpoints -> E]
      BY <3>1, <3>2 DEF TypeOK, E
    <3> QED
      BY <3>3 DEF E
  <2>3. \/ run' = [run EXCEPT ![r] = [run[r] EXCEPT !.pc = "check"]]
        \/ run' = [run EXCEPT ![r] = AfterBump(r)]
    BY <1>10 DEF BumpEndpoint
  <2>4. /\ mailed' \in SUBSET Ids /\ faults' \in Nat
        /\ UNCHANGED <<row, queued, pub, tick, edit, posts, acked, streak, commands, edits>>
    BY <1>10 DEF BumpEndpoint, TypeOK
  <2> QED
    BY <1>7, <1>8, <1>9, <2>1, <2>2, <2>3, <2>4
<1>11. CASE CheckEndpoint(r)
  <2>1. run[r].pc # "idle"
    BY <1>11 DEF CheckEndpoint
  <2>2. ep' \in [Endpoints -> [enabled : BOOLEAN, fails : Nat]]
    BY <1>11 DEF CheckEndpoint, TypeOK
  <2>3. \/ run' = [run EXCEPT ![r] = [run[r] EXCEPT !.pc = "disable"]]
        \/ run' = [run EXCEPT ![r] = AfterBump(r)]
    BY <1>11 DEF CheckEndpoint
  <2>4. /\ mailed' \in SUBSET Ids /\ faults' \in Nat
        /\ UNCHANGED <<row, queued, pub, tick, edit, posts, acked, streak, commands, edits>>
    BY <1>11 DEF CheckEndpoint, TypeOK
  <2> QED
    BY <1>7, <1>8, <1>9, <2>1, <2>2, <2>3, <2>4
<1>12. CASE AutoDisable(r)
  <2>1. run[r].pc # "idle"
    BY <1>12 DEF AutoDisable
  <2>2. ep' \in [Endpoints -> [enabled : BOOLEAN, fails : Nat]]
    BY <1>12 DEF AutoDisable, TypeOK
  <2>3. run' = [run EXCEPT ![r] = AfterBump(r)]
    BY <1>12 DEF AutoDisable
  <2>4. /\ mailed' \in SUBSET Ids /\ faults' \in Nat
        /\ UNCHANGED <<row, queued, pub, tick, edit, posts, acked, streak, commands, edits>>
    BY <1>12 DEF AutoDisable, TypeOK
  <2> QED
    BY <1>7, <1>9, <2>1, <2>2, <2>3, <2>4
<1>13. CASE NotifyDead(r) \/ BodyRaises(r) \/ WorkerDies(r)
  <2>1. run[r].pc # "idle"
    BY <1>13 DEF NotifyDead, BodyRaises, WorkerDies
  <2>2. run' = [run EXCEPT ![r] = IdleRun]
    BY <1>13 DEF NotifyDead, BodyRaises, WorkerDies
  <2>3. /\ ep' \in [Endpoints -> [enabled : BOOLEAN, fails : Nat]]
        /\ mailed' \in SUBSET Ids /\ faults' \in Nat
        /\ UNCHANGED <<row, queued, pub, tick, edit, posts, acked, streak, commands, edits>>
    BY <1>0, <1>13 DEF NotifyDead, BodyRaises, WorkerDies, Fault, TypeOK
  <2> QED
    BY <1>1, <1>7, <2>1, <2>2, <2>3
<1> QED
  BY <1>3, <1>4, <1>5, <1>6, <1>10, <1>11, <1>12, <1>13 DEF RunnerStep

\* The steps of ticks, of time and of the endpoint form.
LEMMA TickTypes ==
    ASSUME TypeOK, LocalsSane, NEW k \in Ticks,
           TickStep(k) \/ TickEnqueueFails(k) \/ TickDies(k)
    PROVE  TypeOK' /\ LocalsSane'
<1>0. tick[k] \in Ticking /\ \A o \in tick[k].todo : o[1] \in Ids /\ o[2] \in Nat \ {0}
  BY DEF TypeOK, LocalsSane, Ticking
<1>1. ASSUME NEW l \in Ticking, tick' = [tick EXCEPT ![k] = l], \A o \in l.todo : o[2] # 0,
             row' \in [Ids -> Rows], queued' \in [Ids -> Nat], faults' \in Nat,
             UNCHANGED <<ep, pub, run, edit, posts, acked, streak, mailed, commands, edits>>
      PROVE  TypeOK' /\ LocalsSane'
  <2>1. tick' \in [Ticks -> Ticking]
    BY <1>1 DEF TypeOK
  <2>2. tick'[k] = l /\ \A q \in Ticks : q # k => tick'[q] = tick[q]
    BY <1>1 DEF TypeOK
  <2> QED
    BY <1>1, <2>1, <2>2 DEF TypeOK, LocalsSane
<1>2. CASE TickList(k)
  <2> DEFINE l == [tick[k] EXCEPT !.todo = {<<d, row[d].cursor>> : d \in Due}]
  <2>1. \A d \in Due : d \in Ids /\ row[d].cursor \in Nat \ {0}
    BY DEF Due, TypeOK, Rows
  <2>2. l \in Ticking /\ \A o \in l.todo : o[2] # 0
    BY <1>0, <2>1 DEF Ticking
  <2>3. tick' = [tick EXCEPT ![k] = l]
    BY <1>2 DEF TickList, TypeOK
  <2>4. /\ row' \in [Ids -> Rows] /\ queued' \in [Ids -> Nat] /\ faults' \in Nat
        /\ UNCHANGED <<ep, pub, run, edit, posts, acked, streak, mailed, commands, edits>>
    BY <1>2 DEF TickList, TypeOK
  <2> HIDE DEF l
  <2> QED
    BY <1>1, <2>2, <2>3, <2>4
<1>3. CASE TickClaim(k)
  <2>1. PICK o \in tick[k].todo :
          /\ row' = IF row[o[1]].cursor = o[2]
                    THEN [row EXCEPT ![o[1]].status = "PENDING", ![o[1]].cursor = 0,
                                     ![o[1]].due = FALSE]
                    ELSE row
          /\ tick' = [tick EXCEPT ![k] = [todo |-> @.todo \ {o},
                                          hold |-> IF row[o[1]].cursor = o[2] THEN o[1] ELSE NoId]]
    BY <1>3 DEF TickClaim
  <2> DEFINE l == [todo |-> tick[k].todo \ {o},
                   hold |-> IF row[o[1]].cursor = o[2] THEN o[1] ELSE NoId]
  <2>2. l \in Ticking /\ \A x \in l.todo : x[2] # 0
    BY <1>0 DEF Ticking
  <2>3. tick' = [tick EXCEPT ![k] = l]
    BY <2>1 DEF TypeOK
  <2>4. \A x \in Rows : [x EXCEPT !.status = "PENDING", !.cursor = 0, !.due = FALSE] \in Rows
    BY DEF Rows, Statuses
  <2>5. row' \in [Ids -> Rows]
    BY <2>1, <2>4 DEF TypeOK
  <2>6. /\ queued' \in [Ids -> Nat] /\ faults' \in Nat
        /\ UNCHANGED <<ep, pub, run, edit, posts, acked, streak, mailed, commands, edits>>
    BY <1>3 DEF TickClaim, TypeOK
  <2> HIDE DEF l
  <2> QED
    BY <1>1, <2>2, <2>3, <2>5, <2>6
<1>4. CASE TickEnqueue(k) \/ TickEnqueueFails(k)
  <2> DEFINE l == [tick[k] EXCEPT !.hold = NoId]
  <2>1. l \in Ticking /\ l.todo = tick[k].todo
    BY <1>0 DEF Ticking
  <2>2. tick' = [tick EXCEPT ![k] = l]
    BY <1>4 DEF TickEnqueue, TickEnqueueFails, TypeOK
  <2>3. queued' \in [Ids -> Nat] /\ faults' \in Nat
    BY <1>0, <1>4 DEF TickEnqueue, TickEnqueueFails, Fault, TypeOK, Ticking
  <2>4. /\ row' \in [Ids -> Rows]
        /\ UNCHANGED <<ep, pub, run, edit, posts, acked, streak, mailed, commands, edits>>
    BY <1>4 DEF TickEnqueue, TickEnqueueFails, TypeOK
  <2> HIDE DEF l
  <2> QED
    BY <1>0, <1>1, <2>1, <2>2, <2>3, <2>4
<1>5. CASE TickDies(k)
  <2>1. \A o \in IdleTick.todo : o[2] # 0
    BY DEF IdleTick
  <2>2. row' \in [Ids -> Rows] /\ queued' \in [Ids -> Nat] /\ faults' \in Nat
    BY <1>5 DEF TickDies, Fault, TypeOK
  <2> QED
    BY <1>1, <1>5, <2>1, <2>2, IdleTypes DEF TickDies
<1> QED
  BY <1>2, <1>3, <1>4, <1>5 DEF TickStep

\* Every step keeps the types and what the processes carry.
LEMMA TypesKept == TypeOK /\ LocalsSane /\ [Next]_vars => TypeOK' /\ LocalsSane'
<1> SUFFICES ASSUME TypeOK, LocalsSane, [Next]_vars PROVE TypeOK' /\ LocalsSane'
  OBVIOUS
<1>1. ASSUME NEW d \in Ids, BecomeDue(d) PROVE TypeOK' /\ LocalsSane'
  <2>1. \A x \in Rows : [x EXCEPT !.due = TRUE] \in Rows
    BY DEF Rows
  <2>2. row' \in [Ids -> Rows]
    BY <1>1, <2>1 DEF BecomeDue, TypeOK
  <2> QED
    BY <1>1, <2>2 DEF BecomeDue, TypeOK, LocalsSane
<1>2. ASSUME NEW e \in Endpoints, OpenEdit(e) PROVE TypeOK' /\ LocalsSane'
  BY <1>2 DEF OpenEdit, TypeOK, LocalsSane
<1>3. CASE SaveEdit
  <2>1. PICK s \in edit, on \in BOOLEAN : ep' = [ep EXCEPT ![s.e] = [enabled |-> on, fails |-> s.fails]]
    BY <1>3 DEF SaveEdit
  <2>2. ep' \in [Endpoints -> [enabled : BOOLEAN, fails : Nat]]
    BY <2>1 DEF TypeOK
  <2> QED
    BY <1>3, <2>2 DEF SaveEdit, TypeOK, LocalsSane
<1>4. CASE UNCHANGED vars
  BY <1>4 DEF vars, TypeOK, LocalsSane
<1> QED
  BY <1>1, <1>2, <1>3, <1>4, PublisherTypes, RunnerTypes, TickTypes DEF Next, FaultStep

----------------------------------------------------------------------------
(* The right to send one delivery.                                         *)

\* What IInv says of one delivery.
DeliverySane(d) ==
    /\ \A x, y \in Holders(d) : x = y
    /\ queued[d] <= 1
    /\ row[d].status = "none" => Holders(d) = {}
    /\ d \in acked =>
          /\ row[d].status # "none"
          /\ \A x \in Holders(d) :
                \E r \in Runners : x = <<"worker", r>> /\ run[r].pc = "record" /\ run[r].ok

\* So it suffices to look at one delivery at a time.
LEMMA EveryDelivery ==
    /\ IInv => \A d \in Ids : DeliverySane(d)
    /\ TypeOK' /\ LocalsSane' /\ (\A d \in Ids : DeliverySane(d)') => IInv'
<1>1. IInv => \A d \in Ids : DeliverySane(d)
  BY DEF IInv, OneHolder, AckedRests, DeliverySane
<1>2. ASSUME TypeOK', LocalsSane', \A d \in Ids : DeliverySane(d)' PROVE IInv'
  <2>1. acked' \subseteq Ids
    BY <1>2 DEF TypeOK
  <2>2. OneHolder'
    BY <1>2 DEF OneHolder, DeliverySane
  <2>3. AckedRests'
    BY <1>2, <2>1 DEF AckedRests, DeliverySane
  <2> QED
    BY <1>2, <2>2, <2>3 DEF IInv
<1> QED
  BY <1>1, <1>2

\* The five places, one by one.
LEMMA Held ==
    ASSUME NEW d
    PROVE  /\ \A p \in Publishers :
                 pub[p].pc = "enqueue" /\ pub[p].d = d => <<"publisher", p>> \in Holders(d)
           /\ queued[d] > 0 => <<"queue", d>> \in Holders(d)
           /\ \A r \in Runners : Sending(r) /\ run[r].d = d => <<"worker", r>> \in Holders(d)
           /\ row[d].cursor # 0 => <<"cursor", d>> \in Holders(d)
           /\ \A k \in Ticks : tick[k].hold = d => <<"tick", k>> \in Holders(d)
BY DEF Holders

\* And no other.
LEMMA HeldNext ==
    ASSUME NEW d, NEW x \in Holders(d)'
    PROVE  \/ \E p \in Publishers : x = <<"publisher", p>> /\ pub'[p].pc = "enqueue" /\ pub'[p].d = d
           \/ x = <<"queue", d>> /\ queued'[d] > 0
           \/ \E r \in Runners : x = <<"worker", r>> /\ Sending(r)' /\ run'[r].d = d
           \/ x = <<"cursor", d>> /\ row'[d].cursor # 0
           \/ \E k \in Ticks : x = <<"tick", k>> /\ tick'[k].hold = d
BY DEF Holders, Sending

\* The place that holds it is the only one, and unless it is the worker that saw the answer,
\* the delivery is not acknowledged.
LEMMA OnlyHolder ==
    ASSUME IInv, NEW d \in Ids, NEW x \in Holders(d)
    PROVE  /\ Holders(d) = {x} /\ row[d].status # "none"
           /\ d \in acked => \E r \in Runners : x = <<"worker", r>> /\ run[r].pc = "record" /\ run[r].ok
BY EveryDelivery DEF DeliverySane

\* Only the worker that saw the answer holds an acknowledged delivery.
LEMMA OthersUnacked ==
    ASSUME IInv, NEW d \in Ids, NEW s \in {"publisher", "queue", "cursor", "tick"}, NEW u,
           <<s, u>> \in Holders(d)
    PROVE  d \notin acked
<1>1. \A r \in Runners : <<s, u>> # <<"worker", r>>
  OBVIOUS
<1> QED
  BY <1>1, OnlyHolder

\* What z held goes to y, and nobody else comes to hold delivery d.
Hands(d, z, y) ==
    /\ \A p \in Publishers : pub'[p].pc = "enqueue" /\ pub'[p].d = d =>
          y = <<"publisher", p>> \/ (<<"publisher", p>> # z /\ pub[p].pc = "enqueue" /\ pub[p].d = d)
    /\ queued'[d] > 0 => y = <<"queue", d>> \/ (<<"queue", d>> # z /\ queued[d] > 0)
    /\ \A r \in Runners : Sending(r)' /\ run'[r].d = d =>
          y = <<"worker", r>> \/ (<<"worker", r>> # z /\ Sending(r) /\ run[r].d = d)
    /\ row'[d].cursor # 0 => y = <<"cursor", d>> \/ (<<"cursor", d>> # z /\ row[d].cursor # 0)
    /\ \A k \in Ticks : tick'[k].hold = d =>
          y = <<"tick", k>> \/ (<<"tick", k>> # z /\ tick[k].hold = d)

\* Then y is the only holder.
LEMMA HandsOn ==
    ASSUME IInv, NEW d \in Ids, NEW z, NEW y, Holders(d) \subseteq {z}, Hands(d, z, y)
    PROVE  Holders(d)' \subseteq {y}
<1> SUFFICES ASSUME NEW x \in Holders(d)', x # y PROVE FALSE
  OBVIOUS
<1>1. x \notin Holders(d) \/ x = z
  OBVIOUS
<1>2. ASSUME NEW p \in Publishers, x = <<"publisher", p>>, pub'[p].pc = "enqueue", pub'[p].d = d
      PROVE  FALSE
  BY <1>1, <1>2, Held DEF Hands
<1>3. ASSUME x = <<"queue", d>>, queued'[d] > 0 PROVE FALSE
  BY <1>1, <1>3, Held DEF Hands
<1>4. ASSUME NEW r \in Runners, x = <<"worker", r>>, Sending(r)', run'[r].d = d PROVE FALSE
  BY <1>1, <1>4, Held DEF Hands
<1>5. ASSUME x = <<"cursor", d>>, row'[d].cursor # 0 PROVE FALSE
  BY <1>1, <1>5, Held DEF Hands
<1>6. ASSUME NEW k \in Ticks, x = <<"tick", k>>, tick'[k].hold = d PROVE FALSE
  BY <1>1, <1>6, Held DEF Hands
<1> QED
  BY <1>2, <1>3, <1>4, <1>5, <1>6, HeldNext

\* A step that hands nothing on for delivery d.
Quiet(d) ==
    /\ \A p \in Publishers :
          pub'[p].pc = "enqueue" /\ pub'[p].d = d => pub[p].pc = "enqueue" /\ pub[p].d = d
    /\ queued'[d] \in Nat /\ queued'[d] <= queued[d]
    /\ \A r \in Runners : Sending(r)' /\ run'[r].d = d =>
          /\ Sending(r) /\ run[r].d = d
          /\ run[r].pc = "record" => run'[r] = run[r]
    /\ row'[d].cursor # 0 => row[d].cursor # 0
    /\ row'[d].status = "none" <=> row[d].status = "none"
    /\ \A k \in Ticks : tick'[k].hold = d => tick[k].hold = d
    /\ d \in acked' => d \in acked

\* Such a step keeps what is known of d.
LEMMA QuietKeeps ==
    ASSUME IInv, NEW d \in Ids, Quiet(d)
    PROVE  DeliverySane(d)'
<1>1. DeliverySane(d) /\ queued[d] \in Nat
  BY EveryDelivery DEF IInv, TypeOK
<1>2. Holders(d)' \subseteq Holders(d)
  <2> SUFFICES ASSUME NEW x \in Holders(d)' PROVE x \in Holders(d)
    OBVIOUS
  <2>1. queued'[d] > 0 => queued[d] > 0
    BY <1>1 DEF Quiet
  <2> QED
    BY <2>1, Held, HeldNext DEF Quiet
<1>3. queued'[d] <= 1
  BY <1>1 DEF Quiet, DeliverySane
<1>4. ASSUME d \in acked', NEW x \in Holders(d)'
      PROVE  \E r \in Runners : x = <<"worker", r>> /\ run'[r].pc = "record" /\ run'[r].ok
  <2>1. PICK r \in Runners : x = <<"worker", r>> /\ run[r].pc = "record" /\ run[r].ok
    BY <1>1, <1>2, <1>4 DEF Quiet, DeliverySane
  <2>2. Sending(r)' /\ run'[r].d = d
    BY <2>1, HeldNext
  <2>3. run'[r] = run[r]
    BY <2>1, <2>2 DEF Quiet
  <2> QED
    BY <2>1, <2>3
<1> QED
  BY <1>1, <1>2, <1>3, <1>4 DEF Quiet, DeliverySane

\* A step that hands the right on for a delivery that was not acknowledged.
LEMMA MovesKeep ==
    ASSUME NEW d \in Ids, NEW y, Holders(d)' \subseteq {y}, d \notin acked',
           queued'[d] <= 1, row'[d].status # "none"
    PROVE  DeliverySane(d)'
BY DEF DeliverySane

\* Initially nobody holds anything.
LEMMA HoldersInit == Init => IInv
<1> SUFFICES ASSUME Init PROVE IInv
  OBVIOUS
<1>1. TypeOK
  BY TypeInit
<1>2. LocalsSane
  BY DEF Init, LocalsSane, IdlePub, IdleRun, IdleTick
<1>3. ASSUME NEW d \in Ids PROVE Holders(d) = {} /\ queued[d] <= 1
  <2>1. row[d].cursor = 0 /\ queued[d] = 0
    BY DEF Init
  <2>2. \A k \in Ticks : tick[k].hold # d
    BY IdsAreNat DEF Init, IdleTick
  <2> QED
    BY <2>1, <2>2 DEF Init, Holders, Sending, IdlePub, IdleRun
<1>4. OneHolder
  BY <1>3 DEF OneHolder
<1>5. AckedRests
  BY DEF Init, AckedRests
<1> QED
  BY <1>1, <1>2, <1>4, <1>5 DEF IInv

----------------------------------------------------------------------------
(* Every step keeps what is known of every delivery.                       *)

\* A publisher goes on without an enqueue.
LEMMA PublisherQuiet ==
    ASSUME IInv, NEW p \in Publishers, NEW l, l.pc # "enqueue", pub' = [pub EXCEPT ![p] = l],
           UNCHANGED <<row, queued, run, tick, acked>>, NEW d \in Ids
    PROVE  DeliverySane(d)'
<1>1. pub'[p] = l /\ \A q \in Publishers : q # p => pub'[q] = pub[q]
  BY DEF IInv, TypeOK
<1>2. queued[d] \in Nat
  BY DEF IInv, TypeOK
<1>3. Quiet(d)
  BY <1>1, <1>2 DEF Quiet, Sending
<1> QED
  BY <1>3, QuietKeeps

\* A publisher creates a row.
LEMMA CreateKeeps ==
    ASSUME IInv, NEW p \in Publishers, NEW l \in Publishing, NEW e \in Endpoints,
           NEW max \in Nat \ {0}, Free # {}, l.d = Fresh,
           row' = [row EXCEPT ![Fresh] = NewRow(e, max)], pub' = [pub EXCEPT ![p] = l],
           UNCHANGED <<queued, run, tick, acked>>, NEW d \in Ids
    PROVE  DeliverySane(d)'
<1>1. pub'[p] = l /\ \A q \in Publishers : q # p => pub'[q] = pub[q]
  BY DEF IInv, TypeOK
<1>2. queued[d] \in Nat /\ Fresh \in Ids /\ row[Fresh].status = "none"
  BY FreshIsFree DEF IInv, TypeOK
<1>3. CASE d # Fresh
  <2>1. row'[d] = row[d]
    BY <1>3 DEF IInv, TypeOK
  <2>2. Quiet(d)
    BY <1>1, <1>2, <1>3, <2>1 DEF Quiet, Sending
  <2> QED
    BY <2>2, QuietKeeps
<1>4. CASE d = Fresh
  <2>1. DeliverySane(d) /\ Holders(d) = {} /\ d \notin acked
    BY <1>2, <1>4, EveryDelivery DEF DeliverySane
  <2>2. row'[d] = NewRow(e, max)
    BY <1>2, <1>4 DEF IInv, TypeOK
  <2>3. row'[d].cursor = 0 /\ row'[d].status # "none"
    BY <2>2 DEF NewRow
  <2>4. Holders(d)' \subseteq {<<"publisher", p>>}
    <3>1. Hands(d, <<"none", d>>, <<"publisher", p>>)
      BY <1>1, <2>3 DEF Hands, Sending
    <3> QED
      BY <2>1, <3>1, HandsOn
  <2>5. queued'[d] <= 1
    BY <2>1 DEF DeliverySane
  <2> QED
    BY <2>1, <2>3, <2>4, <2>5, MovesKeep
<1> QED
  BY <1>3, <1>4

\* The task is enqueued.
LEMMA EnqueueKeeps ==
    ASSUME IInv, NEW p \in Publishers, Enqueue(p), NEW d \in Ids
    PROVE  DeliverySane(d)'
<1>1. PICK k : k = pub[p].d
  OBVIOUS
<1>2. pub[p].pc = "enqueue" /\ k \in Ids /\ AfterEnqueue(p).pc # "enqueue"
  BY <1>1, AfterEnqueueType DEF Enqueue, IInv, LocalsSane
<1>3. /\ pub'[p].pc # "enqueue" /\ \A q \in Publishers : q # p => pub'[q] = pub[q]
      /\ queued \in [Ids -> Nat] /\ queued' = [queued EXCEPT ![k] = @ + 1]
      /\ UNCHANGED <<row, run, tick, acked>>
  BY <1>1, <1>2 DEF Enqueue, IInv, TypeOK
<1>4. CASE d # k
  <2>1. Quiet(d)
    BY <1>3, <1>4 DEF Quiet, Sending
  <2> QED
    BY <2>1, QuietKeeps
<1>5. CASE d = k
  <2>1. <<"publisher", p>> \in Holders(d)
    BY <1>1, <1>2, <1>5, Held
  <2>2. Holders(d) = {<<"publisher", p>>} /\ row[d].status # "none" /\ d \notin acked
    BY <2>1, OnlyHolder, OthersUnacked
  <2>3. queued[d] = 0
    <3>1. <<"queue", d>> \notin Holders(d)
      BY <2>2
    <3>2. queued[d] \in Nat /\ ~(queued[d] > 0)
      BY <1>3, <3>1, Held
    <3> QED
      BY <3>2
  <2>4. Holders(d)' \subseteq {<<"queue", d>>}
    <3>1. Hands(d, <<"publisher", p>>, <<"queue", d>>)
      BY <1>3, <1>5 DEF Hands, Sending
    <3> QED
      BY <2>2, <3>1, HandsOn
  <2>5. queued'[d] <= 1
    BY <1>3, <1>5, <2>3
  <2> QED
    BY <1>3, <2>2, <2>4, <2>5, MovesKeep
<1> QED
  BY <1>4, <1>5

\* All of a publisher's steps.
LEMMA PublisherKeeps ==
    ASSUME IInv, NEW p \in Publishers,
           \/ StartFanOut(p) \/ StartReplayDead(p) \/ PublisherStep(p) \/ EnqueueFails(p)
           \/ \E d \in Ids : StartReplay(p, d)
           \/ \E e \in Endpoints : CreateForTest(p, e),
           NEW d \in Ids
    PROVE  DeliverySane(d)'
<1>0. pub[p] \in Publishing
  BY DEF IInv, TypeOK
<1>1. CASE StartFanOut(p)
  <2>1. PICK M \in SUBSET Endpoints :
          pub' = [pub EXCEPT ![p] = [IdlePub EXCEPT !.pc = "create", !.todo = M]]
    BY <1>1 DEF StartFanOut
  <2>2. [IdlePub EXCEPT !.pc = "create", !.todo = M].pc = "create"
    BY DEF IdlePub
  <2> QED
    BY <1>1, <2>1, <2>2, PublisherQuiet DEF StartFanOut
<1>2. ASSUME NEW D, pub' = [pub EXCEPT ![p] = [IdlePub EXCEPT !.pc = "create", !.again = D]],
             UNCHANGED <<row, queued, run, tick, acked>>
      PROVE  DeliverySane(d)'
  <2>1. [IdlePub EXCEPT !.pc = "create", !.again = D].pc = "create"
    BY DEF IdlePub
  <2> QED
    BY <1>2, <2>1, PublisherQuiet
<1>3. CASE StartReplayDead(p)
  BY <1>2, <1>3 DEF StartReplayDead
<1>4. ASSUME NEW o \in Ids, StartReplay(p, o) PROVE DeliverySane(d)'
  BY <1>2, <1>4 DEF StartReplay
<1>6. CASE CreateForEvent(p)
  <2>1. PICK e \in pub[p].todo :
          /\ row' = [row EXCEPT ![Fresh] = NewRow(e, MaxAttempts)]
          /\ pub' = [pub EXCEPT ![p].pc = "enqueue", ![p].todo = @ \ {e}, ![p].d = Fresh]
    BY <1>6 DEF CreateForEvent
  <2> DEFINE l == [pub[p] EXCEPT !.pc = "enqueue", !.todo = @ \ {e}, !.d = Fresh]
  <2>2. e \in Endpoints /\ Fresh \in Ids
    BY <1>0, <1>6, FreshIsFree DEF Publishing, CreateForEvent
  <2>3. l \in Publishing /\ l.d = Fresh /\ pub' = [pub EXCEPT ![p] = l]
    BY <1>0, <2>1, <2>2 DEF Publishing, IInv, TypeOK
  <2>4. Free # {} /\ UNCHANGED <<queued, run, tick, acked>>
    BY <1>6 DEF CreateForEvent
  <2> HIDE DEF l
  <2> QED
    BY <2>1, <2>2, <2>3, <2>4, CreateKeeps, SettingsAssumption
<1>7. CASE CreateForReplay(p)
  <2>1. PICK o \in pub[p].again :
          /\ row' = [row EXCEPT ![Fresh] = NewRow(row[o].ep, row[o].max)]
          /\ pub' = [pub EXCEPT ![p].pc = "enqueue", ![p].again = @ \ {o}, ![p].d = Fresh]
    BY <1>7 DEF CreateForReplay
  <2> DEFINE l == [pub[p] EXCEPT !.pc = "enqueue", !.again = @ \ {o}, !.d = Fresh]
  <2>2. o \in Ids /\ Fresh \in Ids
    BY <1>0, <1>7, FreshIsFree DEF Publishing, CreateForReplay
  <2>3. l \in Publishing /\ l.d = Fresh /\ pub' = [pub EXCEPT ![p] = l]
    BY <1>0, <2>1, <2>2 DEF Publishing, IInv, TypeOK
  <2>4. Free # {} /\ UNCHANGED <<queued, run, tick, acked>>
    BY <1>7 DEF CreateForReplay
  <2>5. row[o].ep \in Endpoints /\ row[o].max \in Nat \ {0}
    BY <2>2 DEF IInv, TypeOK, Rows
  <2> HIDE DEF l
  <2> QED
    BY <2>1, <2>3, <2>4, <2>5, CreateKeeps
<1>8. ASSUME NEW e \in Endpoints, CreateForTest(p, e) PROVE DeliverySane(d)'
  <2> DEFINE l == [IdlePub EXCEPT !.pc = "enqueue", !.d = Fresh]
  <2>1. l \in Publishing /\ l.d = Fresh
    BY <1>8, FreshIsFree DEF IdlePub, Publishing, CreateForTest
  <2>2. /\ pub' = [pub EXCEPT ![p] = l] /\ row' = [row EXCEPT ![Fresh] = NewRow(e, 1)]
        /\ Free # {} /\ UNCHANGED <<queued, run, tick, acked>>
    BY <1>8 DEF CreateForTest
  <2>3. 1 \in Nat \ {0}
    OBVIOUS
  <2> HIDE DEF l
  <2> QED
    BY <2>1, <2>2, <2>3, CreateKeeps
<1>10. CASE Enqueue(p)
  BY <1>10, EnqueueKeeps
<1>11. CASE EnqueueFails(p)
  BY <1>11, AfterEnqueueType, PublisherQuiet DEF EnqueueFails, IInv
<1>12. CASE CreateFails(p)
  <2>1. IdlePub.pc # "enqueue"
    BY DEF IdlePub
  <2> QED
    BY <1>12, <2>1, PublisherQuiet DEF CreateFails
<1> QED
  BY <1>1, <1>3, <1>4, <1>6, <1>7, <1>8, <1>10, <1>11, <1>12 DEF PublisherStep

\* A worker takes the task, or finds the delivery finished.
LEMMA BeginKeeps ==
    ASSUME IInv, NEW r \in Runners, NEW k \in Ids, Begin(r, k), NEW d \in Ids
    PROVE  DeliverySane(d)'
<1>1. /\ queued \in [Ids -> Nat] /\ queued[k] > 0 /\ queued' = [queued EXCEPT ![k] = @ - 1]
      /\ UNCHANGED <<row, pub, tick, acked>>
      /\ \A q \in Runners : q # r => run'[q] = run[q]
      /\ run'[r] = run[r] \/ (run'[r].pc = "send" /\ run'[r].d = k)
  <2>1. queued \in [Ids -> Nat] /\ run \in [Runners -> Running]
    BY DEF IInv, TypeOK
  <2>2. \/ run' = run
        \/ run' = [run EXCEPT ![r] = [pc |-> "send", d |-> k,
                                      attempt |-> row[k].attempt + 1, ok |-> FALSE]]
    BY DEF Begin
  <2> QED
    BY <2>1, <2>2 DEF Begin
<1>2. CASE d # k
  <2>1. Quiet(d)
    BY <1>1, <1>2 DEF Quiet, Sending
  <2> QED
    BY <2>1, QuietKeeps
<1>3. CASE d = k
  <2>0. <<"queue", d>> \in Holders(d)
    BY <1>1, <1>3, Held
  <2>1. Holders(d) = {<<"queue", d>>} /\ row[d].status # "none" /\ d \notin acked
    BY <2>0, OnlyHolder, OthersUnacked
  <2>2. queued[d] <= 1
    BY EveryDelivery DEF DeliverySane
  <2>3. queued'[d] = 0
    BY <1>1, <1>3, <2>2
  <2>4. Holders(d)' \subseteq {<<"worker", r>>}
    <3>1. Hands(d, <<"queue", d>>, <<"worker", r>>)
      BY <1>1, <2>3 DEF Hands, Sending
    <3> QED
      BY <2>1, <3>1, HandsOn
  <2> QED
    BY <1>1, <2>1, <2>3, <2>4, MovesKeep
<1> QED
  BY <1>2, <1>3

\* A worker posts it, or is refused.
LEMMA SendKeeps ==
    ASSUME IInv, NEW r \in Runners, Send(r) \/ Blocked(r), NEW d \in Ids
    PROVE  DeliverySane(d)'
<1>1. PICK k : k = run[r].d
  OBVIOUS
<1>2. run[r].pc = "send" /\ k \in Ids /\ Sending(r)
  BY <1>1 DEF Send, Blocked, Sending, IInv, LocalsSane
<1>3. /\ run[r] \in Running
      /\ UNCHANGED <<row, queued, pub, tick>> /\ queued \in [Ids -> Nat]
      /\ \A q \in Runners : q # r => run'[q] = run[q]
  BY DEF Send, Blocked, IInv, TypeOK
<1>4. /\ run'[r].pc = "record" /\ run'[r].d = k
      /\ acked' = acked \/ (acked' = acked \cup {k} /\ run'[r].ok)
  <2>1. PICK ok \in BOOLEAN :
          /\ run' = [run EXCEPT ![r].pc = "record", ![r].ok = ok]
          /\ acked' = IF ok THEN acked \cup {k} ELSE acked
    BY <1>1 DEF Send, Blocked
  <2>2. run'[r] = [run[r] EXCEPT !.pc = "record", !.ok = ok]
    BY <2>1 DEF IInv, TypeOK
  <2>3. run'[r].pc = "record" /\ run'[r].d = k /\ (run'[r].ok <=> ok)
    BY <1>1, <1>3, <2>2 DEF Running
  <2> QED
    BY <2>1, <2>3
<1>5. CASE d # k
  <2>1. Quiet(d)
    BY <1>1, <1>2, <1>3, <1>4, <1>5 DEF Quiet, Sending
  <2> QED
    BY <2>1, QuietKeeps
<1>6. CASE d = k
  <2>0. <<"worker", r>> \in Holders(d)
    BY <1>1, <1>2, <1>6, Held
  <2>1. Holders(d) = {<<"worker", r>>} /\ row[d].status # "none"
    BY <2>0, OnlyHolder
  <2>5. d \notin acked
    <3> SUFFICES ASSUME d \in acked PROVE FALSE
      OBVIOUS
    <3>1. PICK q \in Runners : <<"worker", r>> = <<"worker", q>> /\ run[q].pc = "record"
      BY <2>0, OnlyHolder
    <3> QED
      BY <1>2, <3>1
  <2>2. Holders(d)' \subseteq {<<"worker", r>>}
    <3>1. Hands(d, <<"worker", r>>, <<"worker", r>>)
      BY <1>3 DEF Hands, Sending
    <3> QED
      BY <2>1, <3>1, HandsOn
  <2>3. queued'[d] <= 1
    BY <1>3, EveryDelivery DEF DeliverySane
  <2> QED
    BY <1>3, <1>4, <2>1, <2>2, <2>3, <2>5 DEF DeliverySane
<1> QED
  BY <1>5, <1>6

\* A worker records its attempt: what it held goes to the retry cursor or ends.
LEMMA RecordKeeps ==
    ASSUME IInv, NEW r \in Runners, RecordAttempt(r), NEW d \in Ids
    PROVE  DeliverySane(d)'
<1>1. PICK k : k = run[r].d
  OBVIOUS
<1>2. run[r].pc = "record" /\ k \in Ids /\ Sending(r) /\ run[r] \in Running /\ row[k] \in Rows
  BY <1>1 DEF RecordAttempt, Sending, IInv, TypeOK, LocalsSane
<1>3. /\ UNCHANGED <<queued, pub, tick, acked>> /\ queued \in [Ids -> Nat]
      /\ \A q \in Runners : q # r => run'[q] = run[q]
      /\ run'[r].pc = "bump"
      /\ row' = [row EXCEPT ![k] = Outcome(r)]
  BY <1>1 DEF RecordAttempt, IInv, TypeOK
<1>4. Outcome(r).status # "none" /\ (run[r].ok => Outcome(r).cursor = 0)
  <2>1. \A n, s, c : /\ [row[k] EXCEPT !.attempt = n, !.status = s, !.cursor = c, !.due = FALSE].status = s
                     /\ [row[k] EXCEPT !.attempt = n, !.status = s, !.cursor = c, !.due = FALSE].cursor = c
    BY <1>2 DEF Rows
  <2> QED
    BY <1>1, <2>1 DEF Outcome
<1>5. CASE d # k
  <2>1. row'[d] = row[d]
    BY <1>3, <1>5 DEF IInv, TypeOK
  <2>2. Quiet(d)
    BY <1>3, <1>5, <2>1 DEF Quiet, Sending
  <2> QED
    BY <2>2, QuietKeeps
<1>6. CASE d = k
  <2>0. <<"worker", r>> \in Holders(d)
    BY <1>1, <1>2, <1>6, Held
  <2>1. Holders(d) = {<<"worker", r>>} /\ row[d].status # "none" /\ (d \in acked => run[r].ok)
    <3> SUFFICES ASSUME d \in acked PROVE run[r].ok
      BY <2>0, OnlyHolder
    <3>1. PICK q \in Runners : <<"worker", r>> = <<"worker", q>> /\ run[q].ok
      BY <2>0, OnlyHolder
    <3> QED
      BY <3>1
  <2>2. row'[d] = Outcome(r)
    BY <1>2, <1>3, <1>6 DEF IInv, TypeOK
  <2>3. CASE run[r].ok
    <3>1. row'[d].cursor = 0 /\ row'[d].status # "none"
      BY <1>4, <2>2, <2>3
    <3>2. Quiet(d)
      BY <1>3, <2>1, <3>1 DEF Quiet, Sending
    <3> QED
      BY <3>2, QuietKeeps
  <2>4. CASE ~run[r].ok
    <3>1. Holders(d)' \subseteq {<<"cursor", d>>}
      <4>1. Hands(d, <<"worker", r>>, <<"cursor", d>>)
        BY <1>3 DEF Hands, Sending
      <4> QED
        BY <2>1, <4>1, HandsOn
    <3>2. queued'[d] <= 1
      BY <1>3, EveryDelivery DEF DeliverySane
    <3> QED
      BY <1>3, <1>4, <2>1, <2>2, <2>4, <3>1, <3>2, MovesKeep
  <2> QED
    BY <2>3, <2>4
<1> QED
  BY <1>5, <1>6

\* A worker's later steps, and the end of one: it holds nothing new.
LEMMA RunnerQuiet ==
    ASSUME IInv, NEW r \in Runners, NEW l, l.pc \notin {"send", "record"},
           run' = [run EXCEPT ![r] = l],
           UNCHANGED <<row, queued, pub, tick, acked>>, NEW d \in Ids
    PROVE  DeliverySane(d)'
<1>1. run'[r] = l /\ \A q \in Runners : q # r => run'[q] = run[q]
  BY DEF IInv, TypeOK
<1>2. queued[d] \in Nat
  BY DEF IInv, TypeOK
<1>3. Quiet(d)
  BY <1>1, <1>2 DEF Quiet, Sending
<1> QED
  BY <1>3, QuietKeeps

\* All of a worker's steps.
LEMMA RunnerKeeps ==
    ASSUME IInv, NEW r \in Runners, RunnerStep(r) \/ BodyRaises(r) \/ WorkerDies(r), NEW d \in Ids
    PROVE  DeliverySane(d)'
<1>0. run[r] \in Running /\ IdleRun.pc = "idle" /\ TypeOK
  BY DEF IInv, TypeOK, IdleRun
<1>1. \A s : [run[r] EXCEPT !.pc = s].pc = s
  BY <1>0 DEF Running
<1>2. run[r].pc # "idle" => AfterBump(r).pc \notin {"send", "record"}
  BY <1>0, AfterBumpType
<1>3. CASE BumpEndpoint(r) \/ CheckEndpoint(r) \/ AutoDisable(r)
  <2>1. run[r].pc # "idle" /\ UNCHANGED <<row, queued, pub, tick, acked>>
    BY <1>3 DEF BumpEndpoint, CheckEndpoint, AutoDisable
  <2>2. \/ run' = [run EXCEPT ![r] = AfterBump(r)]
        \/ \E s \in {"check", "disable"} : run' = [run EXCEPT ![r] = [run[r] EXCEPT !.pc = s]]
    BY <1>3 DEF BumpEndpoint, CheckEndpoint, AutoDisable
  <2> QED
    BY <1>1, <1>2, <2>1, <2>2, RunnerQuiet
<1>4. CASE NotifyDead(r) \/ BodyRaises(r) \/ WorkerDies(r)
  BY <1>0, <1>4, RunnerQuiet DEF NotifyDead, BodyRaises, WorkerDies
<1> QED
  BY <1>3, <1>4, BeginKeeps, SendKeeps, RecordKeeps DEF RunnerStep

\* A tick goes on with no row in hand.
LEMMA TickQuiet ==
    ASSUME IInv, NEW k \in Ticks, NEW l, tick' = [tick EXCEPT ![k] = l],
           l.hold = NoId \/ l.hold = tick[k].hold,
           UNCHANGED <<row, queued, pub, run, acked>>, NEW d \in Ids
    PROVE  DeliverySane(d)'
<1>1. tick'[k] = l /\ \A q \in Ticks : q # k => tick'[q] = tick[q]
  BY DEF IInv, TypeOK
<1>2. queued[d] \in Nat /\ d # NoId
  BY IdsAreNat DEF IInv, TypeOK
<1>3. Quiet(d)
  BY <1>1, <1>2 DEF Quiet, Sending
<1> QED
  BY <1>3, QuietKeeps

\* A tick takes a listed row whose cursor is still the one it read, or passes over it.
LEMMA ClaimKeeps ==
    ASSUME IInv, NEW k \in Ticks, TickClaim(k), NEW d \in Ids
    PROVE  DeliverySane(d)'
<1>1. PICK o \in tick[k].todo :
        /\ row' = IF row[o[1]].cursor = o[2]
                  THEN [row EXCEPT ![o[1]].status = "PENDING", ![o[1]].cursor = 0,
                                   ![o[1]].due = FALSE]
                  ELSE row
        /\ tick' = [tick EXCEPT ![k] = [todo |-> @.todo \ {o},
                                        hold |-> IF row[o[1]].cursor = o[2] THEN o[1] ELSE NoId]]
  BY DEF TickClaim
<1>2. /\ UNCHANGED <<queued, pub, run, acked>> /\ queued \in [Ids -> Nat]
      /\ o[1] \in Ids /\ o[2] # 0 /\ row[o[1]] \in Rows
  BY DEF TickClaim, IInv, TypeOK, LocalsSane, Ticking
<1>3. CASE row[o[1]].cursor # o[2]
  <2> DEFINE l == [todo |-> tick[k].todo \ {o}, hold |-> NoId]
  <2>1. l.hold = NoId /\ tick' = [tick EXCEPT ![k] = l] /\ row' = row
    BY <1>1, <1>3 DEF IInv, TypeOK
  <2> HIDE DEF l
  <2> QED
    BY <1>2, <2>1, TickQuiet
<1>4. CASE row[o[1]].cursor = o[2]
  <2> DEFINE l == [todo |-> tick[k].todo \ {o}, hold |-> o[1]]
  <2>1. tick' = [tick EXCEPT ![k] = l]
    BY <1>1, <1>4 DEF IInv, TypeOK
  <2>2. tick'[k].hold = o[1] /\ \A q \in Ticks : q # k => tick'[q] = tick[q]
    BY <2>1 DEF IInv, TypeOK
  <2>3. /\ row'[o[1]] = [row[o[1]] EXCEPT !.status = "PENDING", !.cursor = 0, !.due = FALSE]
        /\ \A e \in Ids : e # o[1] => row'[e] = row[e]
    BY <1>1, <1>2, <1>4 DEF IInv, TypeOK
  <2>4. row'[o[1]].status = "PENDING" /\ row'[o[1]].cursor = 0
    BY <1>2, <2>3 DEF Rows
  <2>5. CASE d # o[1]
    <3>1. row'[d] = row[d]
      BY <2>3, <2>5
    <3>2. Quiet(d)
      BY <1>2, <2>2, <2>5, <3>1 DEF Quiet, Sending
    <3> QED
      BY <3>2, QuietKeeps
  <2>6. CASE d = o[1]
    <3>1. <<"cursor", d>> \in Holders(d)
      BY <1>2, <1>4, <2>6, Held
    <3>2. Holders(d) = {<<"cursor", d>>} /\ d \notin acked
      BY <3>1, OnlyHolder, OthersUnacked
    <3>3. Hands(d, <<"cursor", d>>, <<"tick", k>>)
      BY <1>2, <2>2, <2>4, <2>6 DEF Hands, Sending
    <3>4. Holders(d)' \subseteq {<<"tick", k>>}
      BY <3>2, <3>3, HandsOn
    <3>5. queued'[d] <= 1 /\ row'[d].status # "none"
      BY <1>2, <2>4, <2>6, EveryDelivery DEF DeliverySane
    <3> QED
      BY <1>2, <3>2, <3>4, <3>5, MovesKeep
  <2> QED
    BY <2>5, <2>6
<1> QED
  BY <1>3, <1>4

\* A tick enqueues the row it took.
LEMMA TickEnqueueKeeps ==
    ASSUME IInv, NEW k \in Ticks, TickEnqueue(k), NEW d \in Ids
    PROVE  DeliverySane(d)'
<1>1. PICK h : h = tick[k].hold
  OBVIOUS
<1>2. h \in Ids
  BY <1>1 DEF TickEnqueue, IInv, TypeOK, Ticking
<1>3. /\ UNCHANGED <<row, pub, run, acked>> /\ queued \in [Ids -> Nat]
      /\ queued' = [queued EXCEPT ![h] = @ + 1]
      /\ tick'[k].hold = NoId /\ \A q \in Ticks : q # k => tick'[q] = tick[q]
  <2>1. tick \in [Ticks -> Ticking] /\ queued \in [Ids -> Nat]
    BY DEF IInv, TypeOK
  <2>2. tick'[k] = [tick[k] EXCEPT !.hold = NoId]
    BY <2>1 DEF TickEnqueue
  <2>3. tick'[k].hold = NoId
    BY <2>1, <2>2 DEF Ticking
  <2> QED
    BY <1>1, <2>1, <2>3 DEF TickEnqueue
<1>4. d # NoId
  BY IdsAreNat
<1>5. CASE d # h
  <2>1. Quiet(d)
    BY <1>3, <1>4, <1>5 DEF Quiet, Sending
  <2> QED
    BY <2>1, QuietKeeps
<1>6. CASE d = h
  <2>1. <<"tick", k>> \in Holders(d)
    BY <1>1, <1>6, Held
  <2>2. Holders(d) = {<<"tick", k>>} /\ row[d].status # "none" /\ d \notin acked
    BY <2>1, OnlyHolder, OthersUnacked
  <2>3. queued[d] = 0
    <3>1. <<"queue", d>> \notin Holders(d)
      BY <2>2
    <3>2. queued[d] \in Nat /\ ~(queued[d] > 0)
      BY <1>3, <3>1, Held
    <3> QED
      BY <3>2
  <2>4. Hands(d, <<"tick", k>>, <<"queue", d>>)
    BY <1>3, <1>4, <1>6 DEF Hands, Sending
  <2>5. Holders(d)' \subseteq {<<"queue", d>>}
    BY <2>2, <2>4, HandsOn
  <2>6. queued'[d] <= 1
    BY <1>3, <1>6, <2>3
  <2> QED
    BY <1>3, <2>2, <2>5, <2>6, MovesKeep
<1> QED
  BY <1>5, <1>6

\* All of a tick's steps.
LEMMA TickKeeps ==
    ASSUME IInv, NEW k \in Ticks, TickStep(k) \/ TickEnqueueFails(k) \/ TickDies(k), NEW d \in Ids
    PROVE  DeliverySane(d)'
<1>0. tick[k] \in Ticking /\ IdleTick.hold = NoId
  BY DEF IInv, TypeOK, IdleTick
<1>1. CASE TickList(k)
  <2> DEFINE l == [tick[k] EXCEPT !.todo = {<<i, row[i].cursor>> : i \in Due}]
  <2>1. l.hold = tick[k].hold
    BY <1>0 DEF Ticking
  <2>2. tick' = [tick EXCEPT ![k] = l] /\ UNCHANGED <<row, queued, pub, run, acked>>
    BY <1>1 DEF TickList, IInv, TypeOK
  <2> HIDE DEF l
  <2> QED
    BY <2>1, <2>2, TickQuiet
<1>2. CASE TickEnqueueFails(k)
  <2> DEFINE l == [tick[k] EXCEPT !.hold = NoId]
  <2>1. l.hold = NoId
    BY <1>0 DEF Ticking
  <2>2. tick' = [tick EXCEPT ![k] = l] /\ UNCHANGED <<row, queued, pub, run, acked>>
    BY <1>2 DEF TickEnqueueFails, IInv, TypeOK
  <2> HIDE DEF l
  <2> QED
    BY <2>1, <2>2, TickQuiet
<1>3. CASE TickDies(k)
  BY <1>0, <1>3, TickQuiet DEF TickDies
<1> QED
  BY <1>1, <1>2, <1>3, ClaimKeeps, TickEnqueueKeeps DEF TickStep

\* Every step keeps the invariant.
LEMMA StepKeeps == IInv /\ [Next]_vars => IInv'
<1> SUFFICES ASSUME IInv, [Next]_vars PROVE IInv'
  OBVIOUS
<1>1. TypeOK' /\ LocalsSane'
  BY TypesKept DEF IInv
<1>2. ASSUME NEW d \in Ids PROVE DeliverySane(d)'
  <2>0. queued[d] \in Nat /\ row \in [Ids -> Rows]
    BY DEF IInv, TypeOK
  <2>1. ASSUME NEW i \in Ids, BecomeDue(i) PROVE DeliverySane(d)'
    <3>1. row'[d].cursor = row[d].cursor /\ row'[d].status = row[d].status
      BY <2>0, <2>1 DEF BecomeDue, Rows
    <3>2. Quiet(d)
      BY <2>0, <2>1, <3>1 DEF BecomeDue, Quiet, Sending
    <3> QED
      BY <3>2, QuietKeeps
  <2>2. ASSUME UNCHANGED <<row, queued, pub, run, tick, acked>> PROVE DeliverySane(d)'
    <3>1. Quiet(d)
      BY <2>0, <2>2 DEF Quiet, Sending
    <3> QED
      BY <3>1, QuietKeeps
  <2>3. (\E e \in Endpoints : OpenEdit(e)) \/ SaveEdit \/ UNCHANGED vars
          => UNCHANGED <<row, queued, pub, run, tick, acked>>
    BY DEF OpenEdit, SaveEdit, vars
  <2> QED
    BY <2>1, <2>2, <2>3, PublisherKeeps, RunnerKeeps, TickKeeps DEF Next, FaultStep
<1> QED
  BY <1>1, <1>2, EveryDelivery

----------------------------------------------------------------------------
(* The theorems.                                                           *)

\* In every reachable state the right to send a delivery is in at most one place.
THEOREM InvariantHolds == Spec => []IInv
<1>1. Init => IInv
  BY HoldersInit
<1>2. IInv /\ [Next]_vars => IInv'
  BY StepKeeps
<1> QED
  BY <1>1, <1>2, PTL DEF Spec

\* Every variable keeps its type (services.py, models.py).
THEOREM TypeCorrect == Spec => []TypeOK
<1>1. IInv => TypeOK
  BY DEF IInv
<1> QED
  BY <1>1, InvariantHolds, PTL

\* services.py: "two concurrent ticks/workers can never send the same delivery twice".
THEOREM NeverTwoSenders == Spec => []OneSender
<1>1. IInv => OneSender
  <2> SUFFICES ASSUME IInv, NEW r \in Runners, Sending(r)
               PROVE  /\ \A q \in Runners \ {r} : Sending(q) => run[q].d # run[r].d
                      /\ queued[run[r].d] = 0
    BY DEF OneSender
  <2>1. run[r].d \in Ids
    BY DEF IInv, LocalsSane, Sending
  <2>2. Holders(run[r].d) = {<<"worker", r>>}
    <3>1. <<"worker", r>> \in Holders(run[r].d)
      BY Held
    <3> QED
      BY <2>1, <3>1, OnlyHolder
  <2>3. ASSUME NEW q \in Runners \ {r}, Sending(q), run[q].d = run[r].d PROVE FALSE
    <3>1. <<"worker", q>> \in Holders(run[r].d)
      BY <2>3, Held
    <3> QED
      BY <2>2, <2>3, <3>1
  <2>4. queued[run[r].d] = 0
    <3>1. <<"queue", run[r].d>> \notin Holders(run[r].d)
      BY <2>2
    <3>2. queued[run[r].d] \in Nat /\ ~(queued[run[r].d] > 0)
      BY <2>1, <3>1, Held DEF IInv, TypeOK
    <3> QED
      BY <3>2
  <2> QED
    BY <2>3, <2>4
<1> QED
  BY <1>1, InvariantHolds, PTL

\* Once a 2xx has come back for a delivery, no step posts it again (deliver_webhook's terminal
\* check and the cursor claim together), whatever dies and however many replays there are.
THEOREM AcknowledgedOnce == Spec => NeverPostedAfterAck
<1>1. IInv /\ [Next]_vars => [\A d \in acked : posts'[d] = posts[d]]_vars
  <2> SUFFICES ASSUME IInv, Next, NEW d \in acked PROVE posts'[d] = posts[d]
    BY DEF vars
  <2>1. d \in Ids
    BY DEF IInv, TypeOK
  <2>2. ASSUME NEW r \in Runners, Send(r) PROVE posts'[d] = posts[d]
    <3>1. d # run[r].d
      <4> SUFFICES ASSUME d = run[r].d PROVE FALSE
        OBVIOUS
      <4>1. run[r].pc = "send" /\ Sending(r)
        BY <2>2 DEF Send, Sending
      <4>2. <<"worker", r>> \in Holders(d)
        BY <4>1, Held
      <4>3. PICK q \in Runners : <<"worker", r>> = <<"worker", q>> /\ run[q].pc = "record"
        BY <2>1, <4>2, OnlyHolder
      <4> QED
        BY <4>1, <4>3
    <3> QED
      BY <2>1, <2>2, <3>1 DEF Send, IInv, TypeOK
  <2>3. (\A r \in Runners : ~Send(r)) => posts' = posts
    <3>1. ASSUME NEW p \in Publishers,
                 \/ StartFanOut(p) \/ StartReplayDead(p) \/ PublisherStep(p) \/ EnqueueFails(p)
                 \/ \E i \in Ids : StartReplay(p, i)
                 \/ \E e \in Endpoints : CreateForTest(p, e)
          PROVE  posts' = posts
      BY <3>1 DEF StartFanOut, StartReplayDead, PublisherStep, CreateForEvent, CreateForReplay,
                  Enqueue, CreateFails, EnqueueFails, StartReplay, CreateForTest
    <3>2. ASSUME NEW r \in Runners, RunnerStep(r) \/ BodyRaises(r) \/ WorkerDies(r), ~Send(r)
          PROVE  posts' = posts
      BY <3>2 DEF RunnerStep, Begin, Blocked, RecordAttempt, BumpEndpoint, CheckEndpoint,
                  AutoDisable, NotifyDead, BodyRaises, WorkerDies
    <3>3. ASSUME NEW k \in Ticks, TickStep(k) \/ TickEnqueueFails(k) \/ TickDies(k)
          PROVE  posts' = posts
      BY <3>3 DEF TickStep, TickList, TickClaim, TickEnqueue, TickEnqueueFails, TickDies
    <3>4. ASSUME (\E i \in Ids : BecomeDue(i)) \/ (\E e \in Endpoints : OpenEdit(e)) \/ SaveEdit
          PROVE  posts' = posts
      BY <3>4 DEF BecomeDue, OpenEdit, SaveEdit
    <3> QED
      BY <3>1, <3>2, <3>3, <3>4 DEF Next, FaultStep
  <2> QED
    BY <2>2, <2>3
<1> QED
  BY <1>1, InvariantHolds, PTL DEF Spec, NeverPostedAfterAck

----------------------------------------------------------------------------
(* Telemetry: the log handler, its capture windows and its reader.         *)

\* Every variable the invariants speak of has its type.
LogTyped ==
    /\ queue \in Seq(Nat)
    /\ hand \in [{"worker", "main"} -> [batch : Seq(Nat), attempt : Nat]]
    /\ counts \in [accepted : Nat, written : Nat, dropped : Nat]
    /\ store \in [Tel!Pks -> Nat] /\ lastPk \in Nat /\ ltime \in Nat
    /\ tail \in [from : Nat, cursor : Nat, shown : SUBSET Tel!Pks] \cup {Tel!NoTail}

\* Records are stored under growing keys, and a reader is not ahead of them.
KeysGrow ==
    /\ \A p \in Tel!Stored : p <= lastPk
    /\ tail # Tel!NoTail => tail.cursor <= lastPk

\* A logger whose level was saved was configured with the saved level, any other has the
\* level it was configured with, and at the baseline nothing is saved.
LevelsKept ==
    /\ levels = [g \in Tel!Loggers |-> levels[g]]
    /\ \A g \in Tel!Loggers : Original[g] = IF g \in DOMAIN saved THEN saved[g] ELSE levels[g]
    /\ hlevel = Baseline => DOMAIN saved = {}

ReaderInv == LogTyped /\ KeysGrow /\ Tel!TailSkipsNothing
QueueInv == LogTyped /\ Tel!RecordsAccounted

\* The largest of some keys.
LEMMA MaxOfKeys ==
    ASSUME NEW S \in SUBSET Tel!Pks, S # {}
    PROVE  Tel!Max(S) \in S /\ \A x \in S : x <= Tel!Max(S)
<1> DEFINE R == {ss \in Nat \X Nat : ss[1] < ss[2]}
           Down == {n \in Nat : \E x \in S : n = MaxRecords - x}
<1>1. \A x \in S : x \in Nat /\ x <= MaxRecords
  BY LogAssumption DEF Tel!Pks
<1>2. PICK x \in S : TRUE
  OBVIOUS
<1>3. MaxRecords - x \in Down
  BY <1>1, <1>2, LogAssumption
<1>4. IsWellFoundedOn(R, Nat)
  BY NatLessThanWellFounded DEF OpToRel
<1>5. PICK n \in Down : \A m \in Down : <<m, n>> \notin R
  <2>1. Down # {} /\ Down \subseteq Nat
    BY <1>3
  <2> HIDE DEF R, Down
  <2> QED BY <1>4, <2>1, WFMin
<1>6. PICK y \in S : n = MaxRecords - y
  BY <1>5
<1>7. \A z \in S : z <= y
  <2> TAKE z \in S
  <2>1. MaxRecords - z \in Down
    BY <1>1, LogAssumption
  <2>2. ~(MaxRecords - z < n)
    BY <1>5, <2>1
  <2> QED BY <1>1, <1>6, <2>2, LogAssumption
<1>8. \E u \in S : \A z \in S : u >= z
  BY <1>1, <1>7
<1>9. Tel!Max(S) \in S /\ \A z \in S : Tel!Max(S) >= z
  BY <1>8 DEF Tel!Max
<1> QED BY <1>1, <1>9

\* What a batch takes from the queue.
LEMMA TakenFromQueue ==
    ASSUME NEW q \in Seq(Nat), Tel!Min({BatchSize, Len(q)}) > 0
    PROVE  LET n == Tel!Min({BatchSize, Len(q)})
           IN  /\ SubSeq(q, 1, n) \in Seq(Nat) /\ SubSeq(q, n + 1, Len(q)) \in Seq(Nat)
               /\ Len(SubSeq(q, 1, n)) + Len(SubSeq(q, n + 1, Len(q))) = Len(q)
<1> DEFINE n == Tel!Min({BatchSize, Len(q)})
<1>1. BatchSize \in Nat /\ Len(q) \in Nat
  BY LogAssumption
<1>2. n \in {BatchSize, Len(q)} /\ n <= BatchSize /\ n <= Len(q)
  BY <1>1 DEF Tel!Min
<1> HIDE DEF n
<1>3. n \in Nat /\ n > 0 /\ n <= Len(q)
  BY <1>1, <1>2 DEF n
<1> DEFINE front == SubSeq(q, 1, n)
           rest == SubSeq(q, n + 1, Len(q))
<1>4. front \in Seq(Nat) /\ Len(front) = n
  BY <1>3
<1>5. rest \in Seq(Nat) /\ Len(rest) = Len(q) - n
  BY <1>3
<1>6. Len(front) + Len(rest) = Len(q)
  <2> HIDE DEF front, rest
  <2> QED BY <1>1, <1>3, <1>4, <1>5
<1>7. front \in Seq(Nat) /\ rest \in Seq(Nat) /\ Len(front) + Len(rest) = Len(q)
  BY <1>4, <1>5, <1>6
<1> QED BY <1>7 DEF n

\* Initially.
LEMMA LogInit == Tel!Init => QueueInv /\ ReaderInv /\ LevelsKept
<1> SUFFICES ASSUME Tel!Init PROVE QueueInv /\ ReaderInv /\ LevelsKept
  OBVIOUS
<1>1. LogTyped
  BY DEF Tel!Init, LogTyped, Tel!Idle
<1>2. Tel!RecordsAccounted
  BY DEF Tel!Init, Tel!RecordsAccounted, Tel!Idle
<1>3. KeysGrow /\ Tel!TailSkipsNothing
  BY DEF Tel!Init, KeysGrow, Tel!TailSkipsNothing, Tel!Stored
<1>4. LevelsKept
  BY LogAssumption DEF Tel!Init, LevelsKept, Tel!Loggers
<1> QED BY <1>1, <1>2, <1>3, <1>4 DEF QueueInv, ReaderInv

\* What the handler counted, and what is on its way.
Counters(c) == c \in [accepted : Nat, written : Nat, dropped : Nat]
Balance(c, q, x, y) == c.accepted = c.written + c.dropped + q + x + y

LEMMA BalanceOf ==
    ASSUME QueueInv
    PROVE  /\ Counters(counts) /\ Len(queue) \in Nat /\ Len(hand["worker"].batch) \in Nat
           /\ Len(hand["main"].batch) \in Nat
           /\ Balance(counts, Len(queue), Len(hand["worker"].batch), Len(hand["main"].batch))
BY DEF QueueInv, LogTyped, Counters, Balance, Tel!RecordsAccounted

\* What the counters become when a are accepted, w written and e dropped.
Counted(c, d, a, w, e) ==
    d = [accepted |-> c.accepted + a, written |-> c.written + w, dropped |-> c.dropped + e]

LEMMA CountedIs ==
    ASSUME NEW c, Counters(c), NEW n \in Nat
    PROVE  /\ Counted(c, [c EXCEPT !.accepted = @ + n], n, 0, 0)
           /\ Counted(c, [c EXCEPT !.accepted = @ + n, !.dropped = @ + n], n, 0, n)
           /\ Counted(c, [c EXCEPT !.written = @ + n], 0, n, 0)
           /\ Counted(c, [c EXCEPT !.dropped = @ + n], 0, 0, n)
<1>1. PICK a \in Nat, w \in Nat, e \in Nat : c = [accepted |-> a, written |-> w, dropped |-> e]
  BY DEF Counters
<1>2. c.accepted = a /\ c.written = w /\ c.dropped = e
  BY <1>1
<1>3. [c EXCEPT !.accepted = @ + n] = [accepted |-> a + n, written |-> w + 0, dropped |-> e + 0]
  BY <1>1
<1>4. [c EXCEPT !.accepted = @ + n, !.dropped = @ + n]
        = [accepted |-> a + n, written |-> w + 0, dropped |-> e + n]
  <2> DEFINE c1 == [c EXCEPT !.accepted = @ + n]
  <2>1. c1 = [accepted |-> a + n, written |-> w, dropped |-> e]
    BY <1>1
  <2>2. [c EXCEPT !.accepted = @ + n, !.dropped = @ + n] = [c1 EXCEPT !.dropped = @ + n]
    OBVIOUS
  <2> HIDE DEF c1
  <2> QED BY <2>1, <2>2
<1>5. [c EXCEPT !.written = @ + n] = [accepted |-> a + 0, written |-> w + n, dropped |-> e + 0]
  BY <1>1
<1>6. [c EXCEPT !.dropped = @ + n] = [accepted |-> a + 0, written |-> w + 0, dropped |-> e + n]
  BY <1>1
<1> QED BY <1>2, <1>3, <1>4, <1>5, <1>6 DEF Counted

\* The account balances after as before if what comes in equals what goes out.
LEMMA BalanceMoves ==
    ASSUME NEW c, Counters(c), NEW q \in Nat, NEW x \in Nat, NEW y \in Nat, Balance(c, q, x, y),
           NEW d, NEW a \in Nat, NEW w \in Nat, NEW e \in Nat, Counted(c, d, a, w, e),
           NEW q2 \in Nat, NEW x2 \in Nat, NEW y2 \in Nat,
           a + q + x + y = w + e + q2 + x2 + y2
    PROVE  Counters(d) /\ Balance(d, q2, x2, y2)
<1>1. /\ d.accepted = c.accepted + a /\ d.written = c.written + w /\ d.dropped = c.dropped + e
      /\ c.accepted \in Nat /\ c.written \in Nat /\ c.dropped \in Nat
  BY DEF Counted, Counters
<1>2. Counters(d)
  BY <1>1 DEF Counted, Counters
<1>3. Balance(d, q2, x2, y2)
  BY <1>1 DEF Balance
<1> QED BY <1>2, <1>3

\* A record is queued, or dropped because the queue is full.
LEMMA EmitKeepsQueue ==
    ASSUME QueueInv, NEW g, NEW l, Tel!emit(g, l)
    PROVE  QueueInv'
<1>1. UNCHANGED <<hand, store, lastPk, tail, ltime>>
  BY DEF Tel!emit, Tel!readVars
<1>2. queue \in Seq(Nat) /\ ltime \in Nat
  BY DEF QueueInv, LogTyped
<1>3. CASE /\ queue' = Append(queue, ltime)
           /\ counts' = [counts EXCEPT !.accepted = @ + 1]
  <2>1. queue' \in Seq(Nat) /\ Len(queue') = Len(queue) + 1
    BY <1>2, <1>3
  <2>2. /\ Counters(counts')
        /\ Balance(counts', Len(queue'), Len(hand["worker"].batch), Len(hand["main"].batch))
    <3>1. Counted(counts, counts', 1, 0, 0)
      BY <1>3, BalanceOf, CountedIs
    <3> DEFINE q == Len(queue)
               x == Len(hand["worker"].batch)
               y == Len(hand["main"].batch)
    <3>2. Counters(counts) /\ q \in Nat /\ x \in Nat /\ y \in Nat /\ Balance(counts, q, x, y)
      BY BalanceOf
    <3> HIDE DEF q, x, y
    <3>3. Counters(counts') /\ Balance(counts', q + 1, x, y)
      BY <3>1, <3>2, BalanceMoves
    <3> QED BY <2>1, <3>3 DEF q, x, y
  <2> QED
    BY <1>1, <2>1, <2>2 DEF QueueInv, LogTyped, Counters, Balance, Tel!RecordsAccounted
<1>4. CASE /\ queue' = queue
           /\ counts' = [counts EXCEPT !.accepted = @ + 1, !.dropped = @ + 1]
  <2>1. /\ Counters(counts')
        /\ Balance(counts', Len(queue), Len(hand["worker"].batch), Len(hand["main"].batch))
    <3>1. Counted(counts, counts', 1, 0, 1)
      BY <1>4, BalanceOf, CountedIs
    <3> DEFINE q == Len(queue)
               x == Len(hand["worker"].batch)
               y == Len(hand["main"].batch)
    <3>2. Counters(counts) /\ q \in Nat /\ x \in Nat /\ y \in Nat /\ Balance(counts, q, x, y)
      BY BalanceOf
    <3> HIDE DEF q, x, y
    <3>3. Counters(counts') /\ Balance(counts', q, x, y)
      BY <3>1, <3>2, BalanceMoves
    <3> QED BY <3>3 DEF q, x, y
  <2> QED
    BY <1>1, <1>4, <2>1 DEF QueueInv, LogTyped, Counters, Balance, Tel!RecordsAccounted
<1> QED BY <1>3, <1>4 DEF Tel!emit

\* A batch moves from the queue into a thread's hands.
LEMMA TakeKeepsQueue ==
    ASSUME QueueInv, NEW t \in {"worker", "main"}, Tel!take_batch(t)
    PROVE  QueueInv'
<1> DEFINE n == Tel!Min({BatchSize, Len(queue)})
           front == SubSeq(queue, 1, n)
           rest == SubSeq(queue, n + 1, Len(queue))
<1>1. /\ hand[t] = Tel!Idle /\ n > 0
      /\ hand' = [hand EXCEPT ![t].batch = front] /\ queue' = rest
      /\ UNCHANGED <<counts, store, lastPk, tail, ltime>>
  BY DEF Tel!take_batch, Tel!readVars
<1>2. queue \in Seq(Nat) /\ hand \in [{"worker", "main"} -> [batch : Seq(Nat), attempt : Nat]]
  BY DEF QueueInv, LogTyped
<1>3. /\ front \in Seq(Nat) /\ rest \in Seq(Nat)
      /\ Len(front) + Len(rest) = Len(queue)
  BY <1>1, <1>2, TakenFromQueue
<1> HIDE DEF n, front, rest
<1>4. /\ hand' \in [{"worker", "main"} -> [batch : Seq(Nat), attempt : Nat]]
      /\ hand'[t].batch = front
      /\ \A u \in {"worker", "main"} : u # t => hand'[u] = hand[u]
  BY <1>1, <1>2, <1>3
<1>5. LogTyped'
  BY <1>1, <1>3, <1>4 DEF QueueInv, LogTyped
<1>6. Len(hand[t].batch) = 0 /\ Len(front) \in Nat /\ Len(rest) \in Nat
  BY <1>1, <1>3 DEF Tel!Idle
<1>7. Balance(counts, Len(rest), Len(hand'["worker"].batch), Len(hand'["main"].batch))
  <2>1. CASE t = "worker"
    <3> DEFINE q == Len(queue)
               x == Len(hand["worker"].batch)
               y == Len(hand["main"].batch)
               f == Len(front)
               r == Len(rest)
    <3>1. Len(hand'["worker"].batch) = f /\ hand'["main"] = hand["main"]
      BY <1>4, <2>1
    <3>2. /\ Counters(counts) /\ q \in Nat /\ x \in Nat /\ y \in Nat /\ Balance(counts, q, x, y)
          /\ f \in Nat /\ r \in Nat /\ f + r = q /\ x = 0
      BY <1>3, <1>6, <2>1, BalanceOf
    <3> HIDE DEF q, x, y, f, r
    <3>3. Balance(counts, r, f, y)
      BY <3>2 DEF Balance, Counters
    <3> QED BY <3>1, <3>3 DEF x, y, r
  <2>2. CASE t = "main"
    <3> DEFINE q == Len(queue)
               x == Len(hand["worker"].batch)
               y == Len(hand["main"].batch)
               f == Len(front)
               r == Len(rest)
    <3>1. Len(hand'["main"].batch) = f /\ hand'["worker"] = hand["worker"]
      BY <1>4, <2>2
    <3>2. /\ Counters(counts) /\ q \in Nat /\ x \in Nat /\ y \in Nat /\ Balance(counts, q, x, y)
          /\ f \in Nat /\ r \in Nat /\ f + r = q /\ y = 0
      BY <1>3, <1>6, <2>2, BalanceOf
    <3> HIDE DEF q, x, y, f, r
    <3>3. Balance(counts, r, x, f)
      BY <3>2 DEF Balance, Counters
    <3> QED BY <3>1, <3>3 DEF x, y, r
  <2> QED BY <2>1, <2>2
<1>8. Tel!RecordsAccounted'
  BY <1>1, <1>7 DEF Balance, Tel!RecordsAccounted
<1> QED BY <1>5, <1>8 DEF QueueInv

\* What is in a thread's hands is counted as written or dropped, or stays there.
LEMMA WriteKeepsQueue ==
    ASSUME QueueInv, NEW t \in {"worker", "main"}, Tel!write(t)
    PROVE  QueueInv'
<1> DEFINE n == Len(hand[t].batch)
           InHand == [{"worker", "main"} -> [batch : Seq(Nat), attempt : Nat]]
<1>1. /\ n > 0 /\ n \in Nat /\ hand \in InHand /\ queue \in Seq(Nat)
      /\ UNCHANGED <<queue, tail, ltime>>
  BY DEF Tel!write, QueueInv, LogTyped
<1>2. CASE UNCHANGED <<counts, store, lastPk>> /\ hand' = [hand EXCEPT ![t].attempt = @ + 1]
  <2>1. hand[t].attempt \in Nat
    BY <1>1
  <2>2. hand' \in InHand /\ hand'[t].batch = hand[t].batch
        /\ \A u \in {"worker", "main"} : u # t => hand'[u] = hand[u]
    <3>1. hand[t] \in [batch : Seq(Nat), attempt : Nat]
      BY <1>1
    <3>2. PICK h : h = [hand[t] EXCEPT !.attempt = @ + 1]
      OBVIOUS
    <3>3. h \in [batch : Seq(Nat), attempt : Nat] /\ h.batch = hand[t].batch
      BY <2>1, <3>1, <3>2
    <3>4. hand' = [hand EXCEPT ![t] = h]
      BY <1>2, <3>2, Zenon
    <3>5. hand'[t] = h /\ \A u \in {"worker", "main"} : u # t => hand'[u] = hand[u]
      BY <1>1, <3>4
    <3> QED BY <1>1, <3>3, <3>4, <3>5
  <2>3. LogTyped'
    BY <1>1, <1>2, <2>2 DEF QueueInv, LogTyped
  <2>4. hand'["worker"].batch = hand["worker"].batch /\ hand'["main"].batch = hand["main"].batch
    BY <2>2
  <2>5. Tel!RecordsAccounted'
    BY <1>1, <1>2, <2>4 DEF QueueInv, Tel!RecordsAccounted
  <2> QED BY <2>3, <2>5 DEF QueueInv
<1>3. ASSUME hand' = [hand EXCEPT ![t] = Tel!Idle],
             \/ counts' = [counts EXCEPT !.written = @ + n]
             \/ counts' = [counts EXCEPT !.dropped = @ + n]
      PROVE  hand' \in InHand /\ Counters(counts') /\ Tel!RecordsAccounted'
  <2>0. Counted(counts, counts', 0, n, 0) \/ Counted(counts, counts', 0, 0, n)
    <3> HIDE DEF n
    <3>1. Counters(counts)
      BY BalanceOf
    <3>2. CASE counts' = [counts EXCEPT !.written = @ + n]
      BY <1>1, <3>1, <3>2, CountedIs
    <3>3. CASE counts' = [counts EXCEPT !.dropped = @ + n]
      BY <1>1, <3>1, <3>3, CountedIs
    <3> QED BY <1>3, <3>2, <3>3
  <2>1. /\ hand' \in InHand /\ Len(hand'[t].batch) = 0
        /\ \A u \in {"worker", "main"} : u # t => hand'[u] = hand[u]
    BY <1>1, <1>3 DEF Tel!Idle
  <2>2. CASE t = "worker"
    <3>1. n = Len(hand["worker"].batch)
      BY <2>2
    <3> HIDE DEF n
    <3>2. Counters(counts') /\ Balance(counts', Len(queue), 0, Len(hand["main"].batch))
      <4> DEFINE q == Len(queue)
                 x == Len(hand["worker"].batch)
                 y == Len(hand["main"].batch)
      <4>1. Counters(counts) /\ q \in Nat /\ x \in Nat /\ y \in Nat /\ Balance(counts, q, x, y) /\ n = x
        BY <3>1, BalanceOf
      <4> HIDE DEF q, x, y
      <4>2. Counters(counts') /\ Balance(counts', q, 0, y)
        <5>1. CASE Counted(counts, counts', 0, n, 0)
          BY <4>1, <5>1, BalanceMoves
        <5>2. CASE Counted(counts, counts', 0, 0, n)
          BY <4>1, <5>2, BalanceMoves
        <5> QED BY <2>0, <5>1, <5>2
      <4> QED BY <4>2 DEF q, x, y
    <3>3. hand'["main"] = hand["main"] /\ Len(hand'["worker"].batch) = 0
      BY <2>1, <2>2
    <3> QED BY <1>1, <2>1, <3>2, <3>3 DEF Balance, Tel!RecordsAccounted
  <2>3. CASE t = "main"
    <3>1. n = Len(hand["main"].batch)
      BY <2>3
    <3> HIDE DEF n
    <3>2. Counters(counts') /\ Balance(counts', Len(queue), Len(hand["worker"].batch), 0)
      <4> DEFINE q == Len(queue)
                 x == Len(hand["worker"].batch)
                 y == Len(hand["main"].batch)
      <4>1. Counters(counts) /\ q \in Nat /\ x \in Nat /\ y \in Nat /\ Balance(counts, q, x, y) /\ n = y
        BY <3>1, BalanceOf
      <4> HIDE DEF q, x, y
      <4>2. Counters(counts') /\ Balance(counts', q, x, 0)
        <5>1. CASE Counted(counts, counts', 0, n, 0)
          BY <4>1, <5>1, BalanceMoves
        <5>2. CASE Counted(counts, counts', 0, 0, n)
          BY <4>1, <5>2, BalanceMoves
        <5> QED BY <2>0, <5>1, <5>2
      <4> QED BY <4>2 DEF q, x, y
    <3>3. hand'["worker"] = hand["worker"] /\ Len(hand'["main"].batch) = 0
      BY <2>1, <2>3
    <3> QED BY <1>1, <2>1, <3>2, <3>3 DEF Balance, Tel!RecordsAccounted
  <2> QED BY <2>2, <2>3
<1>4. CASE /\ hand' = [hand EXCEPT ![t] = Tel!Idle]
           /\ counts' = [counts EXCEPT !.dropped = @ + n]
           /\ UNCHANGED <<store, lastPk>>
  <2>1. hand' \in InHand /\ Counters(counts') /\ Tel!RecordsAccounted'
    BY <1>3, <1>4
  <2> QED BY <1>1, <1>4, <2>1 DEF QueueInv, LogTyped, Counters
<1>5. CASE /\ store' = [p \in Tel!Pks |-> IF p \in (lastPk + 1) .. (lastPk + n)
                                          THEN hand[t].batch[p - lastPk] ELSE store[p]]
           /\ lastPk' = lastPk + n
           /\ counts' = [counts EXCEPT !.written = @ + n]
           /\ hand' = [hand EXCEPT ![t] = Tel!Idle]
  <2>1. hand' \in InHand /\ Counters(counts') /\ Tel!RecordsAccounted'
    BY <1>3, <1>5
  <2>2. lastPk \in Nat /\ store \in [Tel!Pks -> Nat] /\ hand[t].batch \in Seq(Nat)
    BY DEF QueueInv, LogTyped
  <2>3. store' \in [Tel!Pks -> Nat]
    <3>1. ASSUME NEW p \in Tel!Pks, p \in (lastPk + 1) .. (lastPk + n)
          PROVE  hand[t].batch[p - lastPk] \in Nat
      <4>1. p - lastPk \in 1 .. Len(hand[t].batch)
        BY <1>1, <2>2, <3>1 DEF Tel!Pks
      <4> QED BY <2>2, <4>1
    <3> QED BY <1>5, <2>2, <3>1
  <2>4. lastPk' \in Nat
    BY <1>1, <1>5, <2>2
  <2> QED BY <1>1, <2>1, <2>3, <2>4 DEF QueueInv, LogTyped, Counters
<1> QED BY <1>2, <1>4, <1>5 DEF Tel!write

\* The reader's two actions keep its type.
LEMMA FollowTyped ==
    ASSUME LogTyped, Tel!follow_start \/ Tel!follow
    PROVE  LogTyped'
<1> DEFINE Tails == [from : Nat, cursor : Nat, shown : SUBSET Tel!Pks] \cup {Tel!NoTail}
<1>1. UNCHANGED <<queue, hand, counts, store, lastPk, ltime>>
  BY DEF Tel!follow_start, Tel!follow, Tel!handlerVars
<1>2. \A S \in SUBSET Tel!Pks : S # {} => Tel!Max(S) \in Nat
  <2> SUFFICES ASSUME NEW S \in SUBSET Tel!Pks, S # {} PROVE Tel!Max(S) \in Tel!Pks
    BY LogAssumption DEF Tel!Pks
  <2> QED BY MaxOfKeys
<1>3. CASE Tel!follow_start
  <2> DEFINE newest == {p \in Tel!Stored : Tel!RankOf(p) = 0}
             c == IF newest = {} THEN 0 ELSE Tel!Max(newest)
  <2>1. newest \in SUBSET Tel!Pks
    BY DEF Tel!Stored
  <2>2. c \in Nat
    BY <1>2, <2>1
  <2>3. tail' = [from |-> c, cursor |-> c, shown |-> {}]
    BY <1>3 DEF Tel!follow_start
  <2> HIDE DEF c
  <2>4. tail' \in Tails
    BY <2>2, <2>3
  <2> QED BY <1>1, <2>4 DEF LogTyped
<1>4. CASE Tel!follow
  <2> DEFINE page == Tel!search_records(tail.cursor)
  <2>1. page \in SUBSET Tel!Pks
    BY DEF Tel!search_records, Tel!Stored
  <2>2. /\ tail # Tel!NoTail /\ page # {}
        /\ tail' = [tail EXCEPT !.cursor = Tel!Max(page), !.shown = @ \cup page]
    BY <1>4 DEF Tel!follow
  <2> HIDE DEF page
  <2>3. tail' \in Tails
    BY <1>2, <2>1, <2>2 DEF LogTyped
  <2> QED BY <1>1, <2>3 DEF LogTyped
<1> QED BY <1>3, <1>4

\* Every step of the log keeps every record accounted for.
LEMMA QueueStep == QueueInv /\ [Tel!Next]_telVars => QueueInv'
<1> SUFFICES ASSUME QueueInv, [Tel!Next]_telVars PROVE QueueInv'
  OBVIOUS
<1>1. ASSUME UNCHANGED <<queue, hand, counts, store, lastPk, tail, ltime>> PROVE QueueInv'
  BY <1>1 DEF QueueInv, LogTyped, Tel!RecordsAccounted
<1>2. CASE UNCHANGED telVars
  BY <1>1, <1>2 DEF telVars
<1>3. CASE Tel!run_ends \/ Tel!poll_capture \/ Tel!close \/ Tel!JoinEnds \/ Tel!FlushEnds \/ Tel!stop
  BY <1>1, <1>3 DEF Tel!run_ends, Tel!poll_capture, Tel!close, Tel!JoinEnds, Tel!FlushEnds,
                    Tel!stop, Tel!readVars, Tel!handlerVars
<1>4. ASSUME NEW l, NEW m, Tel!open_capture(l, m) \/ Tel!CaptureControlView(l, m) PROVE QueueInv'
  BY <1>1, <1>4 DEF Tel!open_capture, Tel!CaptureControlView, Tel!start, Tel!readVars, Tel!handlerVars
<1>5. CASE Tel!Work \/ Tel!flush \/ Tel!write("main")
  BY <1>5, TakeKeepsQueue, WriteKeepsQueue DEF Tel!Work, Tel!flush
<1>6. CASE Tel!prune_logs
  <2>1. store' \in [Tel!Pks -> Nat]
    BY <1>6 DEF Tel!prune_logs, Tel!Stored, QueueInv, LogTyped
  <2>2. UNCHANGED <<queue, hand, counts, lastPk, tail, ltime>>
    BY <1>6 DEF Tel!prune_logs, Tel!handlerVars
  <2> QED BY <2>1, <2>2 DEF QueueInv, LogTyped, Tel!RecordsAccounted
<1>7. CASE Tel!follow_start \/ Tel!follow
  <2>1. UNCHANGED <<queue, hand, counts>>
    BY <1>7 DEF Tel!follow_start, Tel!follow, Tel!handlerVars
  <2> QED BY <1>7, <2>1, FollowTyped DEF QueueInv, Tel!RecordsAccounted
<1>8. CASE Tel!Tick
  BY <1>8 DEF Tel!Tick, Tel!handlerVars, Tel!readVars, QueueInv, LogTyped, Tel!RecordsAccounted
<1> QED
  BY <1>2, <1>3, <1>4, <1>5, <1>6, <1>7, <1>8, EmitKeepsQueue DEF Tel!Next

\* A batch is stored under keys no reader has passed.
LEMMA StoreKeepsReader ==
    ASSUME LogTyped, KeysGrow, Tel!TailSkipsNothing, NEW t \in {"worker", "main"}, Tel!write(t)
    PROVE  KeysGrow' /\ Tel!TailSkipsNothing'
<1> DEFINE n == Len(hand[t].batch)
<1>1. n \in Nat /\ lastPk \in Nat /\ store \in [Tel!Pks -> Nat] /\ tail' = tail
  BY DEF LogTyped, Tel!write
<1>2. CASE UNCHANGED <<store, lastPk>>
  BY <1>1, <1>2 DEF KeysGrow, Tel!TailSkipsNothing, Tel!Stored
<1>3. CASE /\ store' = [p \in Tel!Pks |-> IF p \in (lastPk + 1) .. (lastPk + n)
                                          THEN hand[t].batch[p - lastPk] ELSE store[p]]
           /\ lastPk' = lastPk + n
  <2> HIDE DEF n
  <2>1. ASSUME NEW p \in Tel!Stored', p \notin Tel!Stored
        PROVE  p \in (lastPk + 1) .. (lastPk + n)
    BY <1>3, <2>1 DEF Tel!Stored
  <2>2. \A p \in Tel!Stored' : p \in Nat
    BY LogAssumption DEF Tel!Stored, Tel!Pks
  <2>3. \A p \in Tel!Stored' : p <= lastPk'
    <3> TAKE p \in Tel!Stored'
    <3>1. p \in Nat
      BY <2>2
    <3>2. CASE p \in Tel!Stored
      BY <1>1, <1>3, <3>1, <3>2 DEF KeysGrow
    <3>3. CASE p \notin Tel!Stored
      BY <1>1, <1>3, <2>1, <3>1, <3>3
    <3> QED BY <3>2, <3>3
  <2>4. tail # Tel!NoTail => tail.cursor \in Nat /\ tail.cursor <= lastPk
    BY DEF LogTyped, KeysGrow
  <2>5. KeysGrow'
    BY <1>1, <1>3, <2>3, <2>4 DEF KeysGrow, Tel!NoTail
  <2>6. Tel!TailSkipsNothing'
    <3> SUFFICES ASSUME tail # Tel!NoTail, NEW p \in Tel!Stored',
                        tail.from < p, p <= tail.cursor
                 PROVE  p \in tail.shown
      BY <1>1 DEF Tel!TailSkipsNothing, Tel!NoTail
    <3>1. p \in Tel!Stored
      BY <1>1, <2>1, <2>2, <2>4
    <3> QED BY <3>1 DEF Tel!TailSkipsNothing
  <2> QED BY <2>5, <2>6
<1> QED BY <1>2, <1>3 DEF Tel!write

\* A page holds the first keys after the cursor, so none before its last is missing.
LEMMA PageHasNoGap ==
    ASSUME LogTyped, NEW c \in Nat, Tel!search_records(c) # {}
    PROVE  LET m == Tel!Max(Tel!search_records(c))
           IN  /\ m \in Tel!Stored
               /\ c < m
               /\ \A p \in Tel!Stored : c < p /\ p <= m => p \in Tel!search_records(c)
<1> DEFINE page == Tel!search_records(c)
           m == Tel!Max(page)
           Before(p) == {q \in Tel!Stored : c < q /\ q < p}
<1>1. page = {p \in Tel!Stored : p > c /\ Cardinality(Before(p)) < PageLimit}
  BY DEF Tel!search_records, Tel!Cardinality, Cardinality
<1>2. Tel!Stored \subseteq Tel!Pks /\ Tel!Pks \subseteq Nat /\ IsFiniteSet(Tel!Stored)
  <2>1. Tel!Stored \subseteq Tel!Pks
    BY DEF Tel!Stored
  <2>2. IsFiniteSet(1 .. MaxRecords)
    BY LogAssumption, FS_Interval
  <2>3. Tel!Pks = 1 .. MaxRecords /\ Tel!Pks \subseteq Nat
    BY LogAssumption DEF Tel!Pks
  <2>4. IsFiniteSet(Tel!Stored)
    BY <2>1, <2>2, <2>3, FS_Subset
  <2> QED BY <2>1, <2>3, <2>4
<1>3. m \in page /\ \A x \in page : x <= m
  <2>1. page \in SUBSET Tel!Pks /\ page # {}
    BY <1>1, <1>2
  <2> HIDE DEF page
  <2> QED BY <2>1, MaxOfKeys
<1> HIDE DEF page, m
<1>4. m \in Tel!Stored /\ m > c /\ Cardinality(Before(m)) < PageLimit
  BY <1>1, <1>3
<1>5. ASSUME NEW p \in Tel!Stored, c < p, p <= m
      PROVE  p \in page
  <2>1. p \in Nat /\ m \in Nat
    BY <1>2, <1>4
  <2>2. \A q \in Tel!Stored : q \in Nat
    BY <1>2
  <2>3. Before(p) \subseteq Before(m)
    <3> SUFFICES ASSUME NEW q \in Tel!Stored, c < q, q < p PROVE q < m
      OBVIOUS
    <3>1. q \in Nat
      BY <2>2
    <3> QED BY <1>5, <2>1, <3>1
  <2>4. IsFiniteSet(Before(m))
    BY <1>2, FS_Subset
  <2>5. /\ Cardinality(Before(p)) <= Cardinality(Before(m)) /\ Cardinality(Before(m)) \in Nat
        /\ Cardinality(Before(p)) \in Nat
    <3>1. IsFiniteSet(Before(p)) /\ Cardinality(Before(p)) <= Cardinality(Before(m))
      BY <2>3, <2>4, FS_Subset
    <3> QED BY <2>4, <3>1, FS_CardinalityType
  <2> HIDE DEF Before
  <2>6. Cardinality(Before(p)) < PageLimit
    BY <1>4, <2>5, LogAssumption
  <2> QED BY <1>1, <1>5, <2>1, <2>6
<1>6. m \in Tel!Stored /\ c < m /\ \A p \in Tel!Stored : c < p /\ p <= m => p \in page
  BY <1>2, <1>4, <1>5
<1> QED BY <1>6 DEF m, page

\* The reader takes the next page.
LEMMA FollowKeepsReader ==
    ASSUME LogTyped, KeysGrow, Tel!TailSkipsNothing, Tel!follow
    PROVE  KeysGrow' /\ Tel!TailSkipsNothing'
<1> DEFINE page == Tel!search_records(tail.cursor)
           m == Tel!Max(page)
<1>1. /\ tail # Tel!NoTail /\ page # {} /\ UNCHANGED <<store, lastPk>>
      /\ tail' = [tail EXCEPT !.cursor = m, !.shown = @ \cup page]
  BY DEF Tel!follow
<1>2. tail \in [from : Nat, cursor : Nat, shown : SUBSET Tel!Pks]
  BY <1>1 DEF LogTyped
<1>3. /\ m \in Tel!Stored
      /\ tail.cursor < m
      /\ \A p \in Tel!Stored : tail.cursor < p /\ p <= m => p \in page
  BY <1>1, <1>2, PageHasNoGap
<1> HIDE DEF page, m
<1>4. tail'.from = tail.from /\ tail'.cursor = m /\ tail'.shown = tail.shown \cup page
  BY <1>1, <1>2
<1>5. \A p \in Tel!Stored : p \in Nat
  BY LogAssumption DEF Tel!Stored, Tel!Pks
<1>6. Tel!Stored' = Tel!Stored
  BY <1>1 DEF Tel!Stored
<1>7. KeysGrow'
  BY <1>1, <1>3, <1>4, <1>6 DEF KeysGrow
<1>8. Tel!TailSkipsNothing'
  <2> SUFFICES ASSUME NEW p \in Tel!Stored, tail.from < p, p <= m
               PROVE  p \in tail.shown \cup page
    BY <1>4, <1>6 DEF Tel!TailSkipsNothing
  <2>1. CASE p <= tail.cursor
    BY <1>1, <2>1 DEF Tel!TailSkipsNothing
  <2>2. CASE ~(p <= tail.cursor)
    BY <1>2, <1>3, <1>5, <2>2
  <2> QED BY <2>1, <2>2
<1> QED BY <1>7, <1>8

\* Every step of the log keeps the reader's promise.
LEMMA ReaderStep == QueueInv /\ ReaderInv /\ [Tel!Next]_telVars => ReaderInv'
<1> SUFFICES ASSUME QueueInv, ReaderInv, [Tel!Next]_telVars PROVE KeysGrow' /\ Tel!TailSkipsNothing'
  BY QueueStep DEF QueueInv, ReaderInv
<1> USE DEF ReaderInv
<1>1. ASSUME UNCHANGED <<store, lastPk, tail>> PROVE KeysGrow' /\ Tel!TailSkipsNothing'
  BY <1>1 DEF KeysGrow, Tel!TailSkipsNothing, Tel!Stored
<1>2. CASE UNCHANGED telVars
  BY <1>1, <1>2 DEF telVars
<1>3. CASE Tel!run_ends \/ Tel!poll_capture \/ Tel!close \/ Tel!JoinEnds \/ Tel!FlushEnds
           \/ Tel!stop \/ Tel!Tick
  BY <1>1, <1>3 DEF Tel!run_ends, Tel!poll_capture, Tel!close, Tel!JoinEnds, Tel!FlushEnds,
                    Tel!stop, Tel!Tick, Tel!readVars
<1>4. ASSUME NEW l, NEW m, Tel!open_capture(l, m) \/ Tel!CaptureControlView(l, m)
      PROVE  KeysGrow' /\ Tel!TailSkipsNothing'
  BY <1>1, <1>4 DEF Tel!open_capture, Tel!CaptureControlView, Tel!start, Tel!readVars
<1>5. ASSUME NEW g, NEW l, Tel!emit(g, l) PROVE KeysGrow' /\ Tel!TailSkipsNothing'
  BY <1>1, <1>5 DEF Tel!emit, Tel!readVars
<1>6. ASSUME NEW t \in {"worker", "main"}, Tel!take_batch(t) PROVE KeysGrow' /\ Tel!TailSkipsNothing'
  BY <1>1, <1>6 DEF Tel!take_batch, Tel!readVars
<1>7. CASE Tel!Work \/ Tel!flush \/ Tel!write("main")
  BY <1>6, <1>7, StoreKeepsReader DEF Tel!Work, Tel!flush
<1>8. CASE Tel!prune_logs
  <2>1. UNCHANGED <<lastPk, tail>> /\ Tel!Stored' \subseteq Tel!Stored
    BY <1>8 DEF Tel!prune_logs, Tel!Stored, LogTyped
  <2> QED BY <2>1 DEF KeysGrow, Tel!TailSkipsNothing
<1>9. CASE Tel!follow_start
  <2> DEFINE newest == {p \in Tel!Stored : Tel!RankOf(p) = 0}
             c == IF newest = {} THEN 0 ELSE Tel!Max(newest)
  <2>1. tail' = [from |-> c, cursor |-> c, shown |-> {}] /\ UNCHANGED <<store, lastPk>>
    BY <1>9 DEF Tel!follow_start
  <2>2. newest \in SUBSET Tel!Pks /\ newest \subseteq Tel!Stored
    BY DEF Tel!Stored
  <2>3. c = 0 \/ c \in Tel!Stored
    BY <2>2, MaxOfKeys
  <2> HIDE DEF c
  <2>4. c \in Nat /\ c <= lastPk
    BY <2>3, LogAssumption DEF KeysGrow, LogTyped, Tel!Stored, Tel!Pks
  <2>5. \A p \in Tel!Stored : p \in Nat
    BY LogAssumption DEF Tel!Stored, Tel!Pks
  <2>6. Tel!Stored' = Tel!Stored
    BY <2>1 DEF Tel!Stored
  <2>7. \A p \in Tel!Stored : ~(c < p /\ p <= c)
    BY <2>4, <2>5
  <2> QED BY <2>1, <2>4, <2>6, <2>7 DEF KeysGrow, Tel!TailSkipsNothing
<1>10. CASE Tel!follow
  BY <1>10, FollowKeepsReader
<1> QED
  BY <1>2, <1>3, <1>4, <1>5, <1>7, <1>8, <1>9, <1>10 DEF Tel!Next

\* No poll takes a lowered level for the one a logger was configured with.
LEMMA LevelsStep == LevelsKept /\ [Tel!Next]_telVars => LevelsKept'
<1> SUFFICES ASSUME LevelsKept, [Tel!Next]_telVars PROVE LevelsKept'
  OBVIOUS
<1>1. ASSUME UNCHANGED <<hlevel, levels, saved>> PROVE LevelsKept'
  BY <1>1 DEF LevelsKept
<1>2. CASE UNCHANGED telVars
  BY <1>1, <1>2 DEF telVars
<1>3. CASE Tel!poll_capture
  <2> DEFINE l == Tel!effective_level
             lowered == {g \in CaptureLoggers : l < Tel!EffectiveLevel(g)}
             pinned == {g \in PinnedLoggers : Tel!EffectiveLevel(g) < Baseline}
             gs == lowered \cup pinned
  <2>1. hlevel' = l /\ Tel!apply_levels(l)
    BY <1>3 DEF Tel!poll_capture
  <2>2. gs \subseteq Tel!Loggers
    BY DEF Tel!Loggers
  <2>3. CASE l >= Baseline
    <3>1. /\ levels' = [g \in Tel!Loggers |-> IF g \in DOMAIN saved THEN saved[g] ELSE levels[g]]
          /\ saved' = [g \in {} |-> 0]
      BY <2>1, <2>3 DEF Tel!apply_levels, Tel!restore_levels
    <3> QED BY <3>1 DEF LevelsKept
  <2>4. CASE ~(l >= Baseline)
    <3>1. /\ saved' = [g \in DOMAIN saved \cup gs |->
                         IF g \in DOMAIN saved THEN saved[g] ELSE levels[g]]
          /\ levels' = [g \in Tel!Loggers |-> IF g \in lowered THEN l
                                              ELSE IF g \in pinned THEN Baseline ELSE levels[g]]
      BY <2>1, <2>4 DEF Tel!apply_levels, Tel!setdefault
    <3>2. hlevel' # Baseline
      BY <2>1, <2>4, LogAssumption
    <3> HIDE DEF l, lowered, pinned
    <3>3. levels' = [g \in Tel!Loggers |-> levels'[g]]
      BY <3>1
    <3>4. ASSUME NEW g \in Tel!Loggers
          PROVE  Original[g] = IF g \in DOMAIN saved' THEN saved'[g] ELSE levels'[g]
      <4>1. CASE g \in DOMAIN saved \cup gs
        BY <3>1, <3>4, <4>1 DEF LevelsKept
      <4>2. CASE g \notin DOMAIN saved \cup gs
        BY <3>1, <3>4, <4>2 DEF LevelsKept
      <4> QED BY <4>1, <4>2
    <3> QED BY <3>2, <3>3, <3>4 DEF LevelsKept
  <2> QED BY <2>3, <2>4
<1>4. CASE Tel!run_ends \/ Tel!close \/ Tel!JoinEnds \/ Tel!FlushEnds \/ Tel!stop \/ Tel!Tick
           \/ Tel!prune_logs \/ Tel!follow_start \/ Tel!follow
  BY <1>1, <1>4 DEF Tel!run_ends, Tel!close, Tel!JoinEnds, Tel!FlushEnds, Tel!stop, Tel!Tick,
                    Tel!prune_logs, Tel!follow_start, Tel!follow, Tel!levelVars
<1>5. ASSUME NEW k, NEW m, Tel!open_capture(k, m) \/ Tel!CaptureControlView(k, m)
      PROVE  LevelsKept'
  BY <1>1, <1>5 DEF Tel!open_capture, Tel!CaptureControlView, Tel!start, Tel!levelVars
<1>6. ASSUME NEW g, NEW k, Tel!emit(g, k) PROVE LevelsKept'
  BY <1>1, <1>6 DEF Tel!emit, Tel!levelVars
<1>7. ASSUME NEW t, Tel!take_batch(t) \/ Tel!write(t) PROVE LevelsKept'
  BY <1>1, <1>7 DEF Tel!take_batch, Tel!write, Tel!levelVars
<1> QED
  BY <1>2, <1>3, <1>4, <1>5, <1>6, <1>7 DEF Tel!Next, Tel!Work, Tel!flush

\* For every queue, batch and page size, baseline, set of loggers and number of records,
\* windows and faults: the handler loses no record silently, a tail skips none, and no
\* lowered level outlives the windows.
THEOREM LogIsSound == AllSpec => []LogSound
<1>1. AllInit => QueueInv /\ ReaderInv /\ LevelsKept
  BY LogInit DEF AllInit
<1>2. QueueInv /\ ReaderInv /\ LevelsKept /\ [AllNext]_<<part, vars, telVars, linkVars>>
        => (QueueInv /\ ReaderInv /\ LevelsKept)'
  <2> SUFFICES ASSUME [AllNext]_<<part, vars, telVars, linkVars>> PROVE [Tel!Next]_telVars
    BY QueueStep, ReaderStep, LevelsStep
  <2> QED BY DEF AllNext, telVars
<1>3. QueueInv /\ ReaderInv /\ LevelsKept => LogSound
  <2> SUFFICES ASSUME QueueInv, ReaderInv, LevelsKept PROVE LogSound
    OBVIOUS
  <2>1. hlevel = Baseline => levels = Original
    <3> SUFFICES ASSUME hlevel = Baseline PROVE levels = Original
      OBVIOUS
    <3>1. /\ levels = [g \in Tel!Loggers |-> levels[g]]
          /\ \A g \in Tel!Loggers : levels[g] = Original[g]
      BY DEF LevelsKept
    <3>2. Original = [g \in Tel!Loggers |-> Original[g]]
      BY LogAssumption DEF Tel!Loggers
    <3> QED BY <3>1, <3>2
  <2> QED
    BY <2>1 DEF LogSound, QueueInv, ReaderInv, Tel!LogComplete, Tel!CaptureLeavesNothing
<1> QED BY <1>1, <1>2, <1>3, PTL DEF AllSpec

----------------------------------------------------------------------------
(* WebhookLink: two instances that post to each other.                     *)

Secret == Nat \ {0}

Paired == [secret : Secret, on : BOOLEAN]
Receiving == [secret : Secret, on : BOOLEAN, require : BOOLEAN,
              ignore : Link!Nodes \cup {Link!NoOrigin}]

\* An instance posts to the other one only, and every secret there is was generated.
EndpointsSane(n) ==
    /\ IsFiniteSet(DOMAIN link[n])
    /\ \A u \in DOMAIN link[n] : u \in {Link!Peer(n)} \X Nat /\ link[n][u] \in Paired

ReceiversSane(n) == \A s \in DOMAIN rec[n] : rec[n][s] \in Receiving

CommandSane(n) ==
    cmd[n].printed => /\ cmd[n].target \in {n} \X Nat
                      /\ cmd[n].send \in Secret /\ cmd[n].recv \in Secret

LinkTyped ==
    /\ link = [n \in Link!Nodes |-> link[n]] /\ rec = [n \in Link!Nodes |-> rec[n]]
    /\ cmd = [n \in Link!Nodes |-> cmd[n]]
    /\ budget \in [writes : Int, pairs : Int, rotations : Int, faults : Int, secret : Nat]

PairingInv ==
    /\ LinkTyped /\ Link!MirrorLinksBack
    /\ \A n \in Link!Nodes : EndpointsSane(n) /\ ReceiversSane(n) /\ CommandSane(n)

\* The two instances.
LEMMA Peers == \A n \in Link!Nodes : /\ Link!Peer(n) \in Link!Nodes /\ Link!Peer(n) # n
                                     /\ Link!Peer(Link!Peer(n)) = n
                                     /\ \A m \in Link!Nodes : m = n \/ m = Link!Peer(n)
BY LinkAssumption DEF Link!Nodes, Link!Peer

\* A secret is the given one, the one a row has, or a new one.
LEMMA SecretIsSecret ==
    ASSUME NEW given \in Nat, NEW rows, \A x \in DOMAIN rows : rows[x].secret \in Secret,
           NEW x, NEW fresh \in Secret
    PROVE  Link!SecretOf(given, rows, x, fresh) \in Secret
BY DEF Link!SecretOf, Link!NoSecret, Secret

\* What pairing writes.
LEMMA PairWrites ==
    ASSUME LinkTyped, \A n \in Link!Nodes : EndpointsSane(n) /\ ReceiversSane(n) /\ CommandSane(n),
           NEW n \in Link!Nodes, NEW target \in {Link!Peer(n)} \X Nat,
           NEW send \in Nat, NEW recv \in Nat, NEW oneWay \in BOOLEAN,
           Link!pair_smallstack(n, target, send, recv, oneWay)
    PROVE  /\ LinkTyped'
           /\ \A m \in Link!Nodes : EndpointsSane(m)' /\ ReceiversSane(m)' /\ CommandSane(m)'
           /\ \A m \in Link!Nodes : m # n => rec'[m] = rec[m] /\ cmd'[m] = cmd[m]
           /\ send # 0 => target \in DOMAIN link'[n] /\ link'[n][target].secret = send
<1> DEFINE slug == Link!pairing_slug(target)
           sendS == Link!SecretOf(send, link[n], target, budget.secret + 1)
           recvS == Link!SecretOf(recv, rec[n], slug, budget.secret + 2)
           e == [secret |-> sendS, on |-> TRUE]
           r == [secret |-> recvS, on |-> TRUE, require |-> TRUE, ignore |-> n]
           c == [printed |-> TRUE, target |-> <<n, slug>>, send |-> recvS, recv |-> sendS,
                 to |-> target]
<1>1. /\ budget' = [budget EXCEPT !.pairs = @ - 1, !.secret = @ + 2]
      /\ link' = [link EXCEPT ![n] = Link!Put(link[n], target, e)]
      /\ \/ UNCHANGED <<rec, cmd>>
         \/ /\ rec' = [rec EXCEPT ![n] = Link!Put(rec[n], slug, r)]
            /\ cmd' = [cmd EXCEPT ![n] = c]
  BY DEF Link!pair_smallstack
<1>2. budget.secret + 1 \in Secret /\ budget.secret + 2 \in Secret
  BY DEF LinkTyped, Secret
<1>3. sendS \in Secret /\ recvS \in Secret /\ (send # 0 => sendS = send)
  <2>1. /\ \A x \in DOMAIN link[n] : link[n][x].secret \in Secret
        /\ \A x \in DOMAIN rec[n] : rec[n][x].secret \in Secret
    BY DEF EndpointsSane, ReceiversSane, Paired, Receiving
  <2>2. sendS \in Secret /\ recvS \in Secret
    BY <1>2, <2>1, SecretIsSecret
  <2>3. send # 0 => sendS = send
    BY DEF Link!SecretOf, Link!NoSecret
  <2> QED BY <2>2, <2>3
<1>4. slug \in Nat
  <2>1. target[2] \in Nat
    OBVIOUS
  <2> QED BY <2>1 DEF Link!pairing_slug
<1> HIDE DEF slug, sendS, recvS
<1>5. e.secret = sendS /\ e \in Paired /\ r \in Receiving
  BY <1>3 DEF Paired, Receiving
<1>6. c.target = <<n, slug>> /\ c.send = recvS /\ c.recv = sendS
  OBVIOUS
<1> HIDE DEF e, r, c
<1>7. /\ link' = [m \in Link!Nodes |-> IF m = n THEN Link!Put(link[n], target, e) ELSE link[m]]
      /\ \/ UNCHANGED <<rec, cmd>>
         \/ /\ rec' = [m \in Link!Nodes |-> IF m = n THEN Link!Put(rec[n], slug, r) ELSE rec[m]]
            /\ cmd' = [m \in Link!Nodes |-> IF m = n THEN c ELSE cmd[m]]
  BY <1>1 DEF LinkTyped
<1>8. LinkTyped'
  <2>1. PICK b \in [writes : Int, pairs : Int, rotations : Int, faults : Int, secret : Nat] :
          b = budget
    BY DEF LinkTyped
  <2>2. budget' \in [writes : Int, pairs : Int, rotations : Int, faults : Int, secret : Nat]
    <3> DEFINE b1 == [b EXCEPT !.pairs = @ - 1]
    <3>1. b1 \in [writes : Int, pairs : Int, rotations : Int, faults : Int, secret : Nat]
      BY <2>1
    <3>2. budget' = [b1 EXCEPT !.secret = @ + 2]
      BY <1>1, <2>1
    <3> HIDE DEF b1
    <3> QED BY <3>1, <3>2
  <2>3. /\ link' = [m \in Link!Nodes |-> link'[m]] /\ rec' = [m \in Link!Nodes |-> rec'[m]]
        /\ cmd' = [m \in Link!Nodes |-> cmd'[m]]
    BY <1>7 DEF LinkTyped
  <2> QED BY <2>2, <2>3 DEF LinkTyped
<1>9. /\ DOMAIN link'[n] = DOMAIN link[n] \cup {target} /\ link'[n][target] = e
      /\ \A u \in DOMAIN link[n] : u # target => link'[n][u] = link[n][u]
  BY <1>7 DEF Link!Put
<1>10. EndpointsSane(n)'
  <2>1. IsFiniteSet(DOMAIN link'[n])
    BY <1>9, FS_AddElement DEF EndpointsSane
  <2>2. \A u \in DOMAIN link'[n] : u \in {Link!Peer(n)} \X Nat /\ link'[n][u] \in Paired
    BY <1>5, <1>9 DEF EndpointsSane
  <2> QED BY <2>1, <2>2 DEF EndpointsSane
<1>11. ReceiversSane(n)'
  BY <1>5, <1>7 DEF ReceiversSane, Link!Put
<1>12. CommandSane(n)'
  BY <1>3, <1>4, <1>6, <1>7 DEF CommandSane
<1>13. ASSUME NEW m \in Link!Nodes, m # n
       PROVE  /\ EndpointsSane(m)' /\ ReceiversSane(m)' /\ CommandSane(m)'
              /\ rec'[m] = rec[m] /\ cmd'[m] = cmd[m]
  <2>1. link'[m] = link[m] /\ rec'[m] = rec[m] /\ cmd'[m] = cmd[m]
    BY <1>7, <1>13
  <2> QED BY <2>1 DEF EndpointsSane, ReceiversSane, CommandSane
<1> QED BY <1>3, <1>5, <1>8, <1>9, <1>10, <1>11, <1>12, <1>13

\* Where no printed command was run as it stands, nothing is promised.
LEMMA PairCommandKeeps ==
    ASSUME PairingInv, NEW n \in Link!Nodes, NEW oneWay \in BOOLEAN, Link!PairCommand(n, oneWay)
    PROVE  PairingInv'
<1> DEFINE target == <<Link!Peer(n), 0>>
<1>1. target \in {Link!Peer(n)} \X Nat /\ Link!NoSecret \in Nat
  BY DEF Link!NoSecret
<1>2. /\ Link!pair_smallstack(n, target, Link!NoSecret, Link!NoSecret, oneWay)
      /\ mirrored' = [m \in Link!Nodes |-> FALSE]
  BY DEF Link!PairCommand
<1> HIDE DEF target
<1>3. LinkTyped' /\ \A m \in Link!Nodes : EndpointsSane(m)' /\ ReceiversSane(m)' /\ CommandSane(m)'
  BY <1>1, <1>2, PairWrites DEF PairingInv
<1>4. Link!MirrorLinksBack'
  BY <1>2 DEF Link!MirrorLinksBack
<1> QED BY <1>3, <1>4 DEF PairingInv

\* The peer takes over the printed secrets; if they are still those of this instance's
\* receiver, what it posts is verified.
LEMMA MirrorCommandKeeps ==
    ASSUME PairingInv, NEW n \in Link!Nodes, Link!MirrorCommand(n)
    PROVE  PairingInv'
<1> DEFINE m == Link!Peer(n)
           t == cmd[n].target
<1>1. m \in Link!Nodes /\ m # n /\ Link!Peer(m) = n
  BY Peers
<1>2. /\ Link!pair_smallstack(m, t, cmd[n].send, cmd[n].recv, FALSE)
      /\ mirrored' = [k \in Link!Nodes |-> k = n /\ Link!Current(n)]
      /\ t \in {n} \X Nat /\ cmd[n].send \in Secret /\ cmd[n].recv \in Secret
  BY DEF Link!MirrorCommand, PairingInv, CommandSane
<1>3. cmd[n].send \in Nat /\ cmd[n].recv \in Nat /\ cmd[n].send # 0
  BY <1>2 DEF Secret
<1>4. t \in {Link!Peer(m)} \X Nat
  BY <1>1, <1>2
<1> HIDE DEF m, t
<1>5. /\ LinkTyped'
      /\ \A k \in Link!Nodes : EndpointsSane(k)' /\ ReceiversSane(k)' /\ CommandSane(k)'
      /\ rec'[n] = rec[n] /\ cmd'[n] = cmd[n]
      /\ t \in DOMAIN link'[m] /\ link'[m][t].secret = cmd[n].send
  <2> DEFINE oneWay == FALSE
  <2>1. oneWay \in BOOLEAN /\ Link!pair_smallstack(m, t, cmd[n].send, cmd[n].recv, oneWay)
    BY <1>2
  <2>2. /\ LinkTyped
        /\ \A k \in Link!Nodes : EndpointsSane(k) /\ ReceiversSane(k) /\ CommandSane(k)
    BY DEF PairingInv
  <2> HIDE DEF oneWay
  <2> QED BY <1>1, <1>2, <1>3, <1>4, <2>1, <2>2, PairWrites
<1>6. ASSUME Link!Current(n)
      PROVE  /\ Link!Receiver(cmd[n].target)'
             /\ Link!default_verifier(cmd[n].target, link[Link!Peer(n)][cmd[n].target].secret)'
  <2>1. Link!Receiver(t) /\ cmd[n].send = rec[n][t[2]].secret
    BY <1>6 DEF Link!Current, t
  <2>2. t[1] = n /\ cmd'[n].target = t
    BY <1>2, <1>5 DEF t
  <2>3. Link!Receiver(cmd[n].target)'
    BY <1>5, <2>1, <2>2 DEF Link!Receiver
  <2>4. link'[Link!Peer(n)][cmd'[n].target].secret = rec'[n][t[2]].secret
    BY <1>5, <2>1, <2>2 DEF m
  <2>5. link'[Link!Peer(n)][cmd'[n].target].secret # 0
    BY <1>3, <1>5, <2>2 DEF m
  <2> QED BY <2>2, <2>3, <2>4, <2>5 DEF Link!default_verifier, Link!NoSecret
<1>7. Link!MirrorLinksBack'
  BY <1>2, <1>6 DEF Link!MirrorLinksBack
<1> QED BY <1>5, <1>7 DEF PairingInv

\* A secret is rotated, or a receiver made or changed, and no promise stands.
LEMMA SecretsRotate ==
    ASSUME PairingInv, NEW n \in Link!Nodes,
           \/ Link!rotate_secret(n)
           \/ Link!rotate_receiver_secret(n)
           \/ Link!WebhookReceiverCRUDView(n)
    PROVE  PairingInv'
<1> DEFINE s == budget.secret + 1
           Budgets == [writes : Int, pairs : Int, rotations : Int, faults : Int, secret : Nat]
<1>1. /\ budget' = [budget EXCEPT !.rotations = @ - 1, !.secret = @ + 1]
      /\ mirrored' = [m \in Link!Nodes |-> FALSE] /\ UNCHANGED cmd
  BY DEF Link!rotate_secret, Link!rotate_receiver_secret, Link!WebhookReceiverCRUDView
<1>2. s \in Secret
  BY DEF PairingInv, LinkTyped, Secret
<1>3. budget' \in Budgets
  <2>1. PICK b \in Budgets : b = budget
    BY DEF PairingInv, LinkTyped
  <2> DEFINE b1 == [b EXCEPT !.rotations = @ - 1]
  <2>2. b1 \in Budgets
    BY <2>1
  <2>3. budget' = [b1 EXCEPT !.secret = @ + 1]
    BY <1>1, <2>1
  <2> HIDE DEF b1
  <2> QED BY <2>2, <2>3
<1> HIDE DEF s
<1>4. Link!MirrorLinksBack'
  BY <1>1 DEF Link!MirrorLinksBack
<1>5. \A m \in Link!Nodes : CommandSane(m)'
  BY <1>1 DEF PairingInv, CommandSane
<1>6. ASSUME Link!rotate_secret(n)
      PROVE  /\ link' = [m \in Link!Nodes |-> link'[m]] /\ UNCHANGED rec
             /\ \A m \in Link!Nodes : EndpointsSane(m)'
  <2>1. PICK u \in DOMAIN link[n] : link' = [link EXCEPT ![n][u].secret = s]
    BY <1>6 DEF Link!rotate_secret, s
  <2> DEFINE f == [link[n] EXCEPT ![u].secret = s]
  <2>2. link' = [m \in Link!Nodes |-> IF m = n THEN f ELSE link[m]]
    BY <2>1 DEF PairingInv, LinkTyped
  <2>3. DOMAIN f = DOMAIN link[n] /\ \A x \in DOMAIN link[n] : f[x] \in Paired
    <3>1. \A x \in DOMAIN link[n] : link[n][x] \in Paired
      BY DEF PairingInv, EndpointsSane
    <3>2. [link[n][u] EXCEPT !.secret = s] \in Paired
      BY <1>2, <3>1 DEF Paired
    <3> QED BY <3>1, <3>2
  <2> HIDE DEF f
  <2>4. UNCHANGED rec
    BY <1>6 DEF Link!rotate_secret
  <2>5. link' = [m \in Link!Nodes |-> link'[m]]
    BY <2>2
  <2>6. ASSUME NEW m \in Link!Nodes PROVE EndpointsSane(m)'
    <3>1. EndpointsSane(m) /\ link'[m] = IF m = n THEN f ELSE link[m]
      BY <2>2 DEF PairingInv
    <3> QED BY <2>3, <3>1 DEF EndpointsSane
  <2> QED BY <2>4, <2>5, <2>6
<1>7. ASSUME NEW f, rec' = [rec EXCEPT ![n] = f], \A x \in DOMAIN f : f[x] \in Receiving,
             UNCHANGED link
      PROVE  PairingInv'
  <2>1. rec' = [m \in Link!Nodes |-> IF m = n THEN f ELSE rec[m]]
    BY <1>7 DEF PairingInv, LinkTyped
  <2>2. rec' = [m \in Link!Nodes |-> rec'[m]] /\ \A m \in Link!Nodes : ReceiversSane(m)'
    BY <1>7, <2>1 DEF PairingInv, ReceiversSane
  <2>3. link' = [m \in Link!Nodes |-> link'[m]] /\ \A m \in Link!Nodes : EndpointsSane(m)'
    BY <1>7 DEF PairingInv, LinkTyped, EndpointsSane
  <2>4. LinkTyped'
    BY <1>1, <1>3, <2>2, <2>3 DEF PairingInv, LinkTyped
  <2> QED BY <1>4, <1>5, <2>2, <2>3, <2>4 DEF PairingInv
<1>8. CASE Link!rotate_secret(n)
  <2>1. rec' = [m \in Link!Nodes |-> rec'[m]] /\ \A m \in Link!Nodes : ReceiversSane(m)'
    BY <1>6, <1>8 DEF PairingInv, LinkTyped, ReceiversSane
  <2>2. LinkTyped'
    BY <1>1, <1>3, <1>6, <1>8, <2>1 DEF PairingInv, LinkTyped
  <2> QED BY <1>4, <1>5, <1>6, <1>8, <2>1, <2>2 DEF PairingInv
<1>9. CASE Link!rotate_receiver_secret(n)
  <2>1. PICK x \in DOMAIN rec[n] : rec' = [rec EXCEPT ![n][x].secret = s]
    BY <1>9 DEF Link!rotate_receiver_secret, s
  <2> DEFINE f == [rec[n] EXCEPT ![x].secret = s]
  <2>2. rec' = [rec EXCEPT ![n] = f] /\ UNCHANGED link
    BY <1>9, <2>1 DEF Link!rotate_receiver_secret
  <2>3. \A y \in DOMAIN f : f[y] \in Receiving
    <3>1. \A y \in DOMAIN rec[n] : rec[n][y] \in Receiving
      BY DEF PairingInv, ReceiversSane
    <3>2. [rec[n][x] EXCEPT !.secret = s] \in Receiving
      BY <1>2, <3>1 DEF Receiving
    <3> QED BY <3>1, <3>2
  <2> HIDE DEF f
  <2> QED BY <1>7, <2>2, <2>3
<1>10. CASE Link!WebhookReceiverCRUDView(n)
  <2>1. PICK x \in DOMAIN rec[n] \cup {0}, on \in BOOLEAN, require \in BOOLEAN :
          rec' = [rec EXCEPT ![n] =
                    IF x \in DOMAIN rec[n]
                    THEN [rec[n] EXCEPT ![x].on = on, ![x].require = require]
                    ELSE Link!Put(rec[n], x, [secret |-> s, on |-> on, require |-> require,
                                              ignore |-> Link!NoOrigin])]
    BY <1>10 DEF Link!WebhookReceiverCRUDView, s
  <2>2. UNCHANGED link
    BY <1>10 DEF Link!WebhookReceiverCRUDView
  <2>3. \A y \in DOMAIN rec[n] : rec[n][y] \in Receiving
    BY DEF PairingInv, ReceiversSane
  <2>4. CASE x \in DOMAIN rec[n]
    <3> DEFINE f == [rec[n] EXCEPT ![x].on = on, ![x].require = require]
    <3>1. rec' = [rec EXCEPT ![n] = f]
      BY <2>1, <2>4
    <3>2. [rec[n][x] EXCEPT !.on = on, !.require = require] \in Receiving
      BY <2>3, <2>4 DEF Receiving
    <3>3. \A y \in DOMAIN f : f[y] \in Receiving
      BY <2>3, <2>4, <3>2
    <3> HIDE DEF f
    <3> QED BY <1>7, <2>2, <3>1, <3>3
  <2>5. CASE x \notin DOMAIN rec[n]
    <3> DEFINE r == [secret |-> s, on |-> on, require |-> require, ignore |-> Link!NoOrigin]
               f == Link!Put(rec[n], x, r)
    <3>1. rec' = [rec EXCEPT ![n] = f]
      BY <2>1, <2>5
    <3>2. r \in Receiving
      BY <1>2 DEF Receiving
    <3> HIDE DEF r
    <3>3. \A y \in DOMAIN f : f[y] \in Receiving
      BY <2>3, <3>2 DEF Link!Put
    <3> HIDE DEF f
    <3> QED BY <1>7, <2>2, <3>1, <3>3
  <2> QED BY <2>4, <2>5
<1> QED BY <1>8, <1>9, <1>10

\* Deliveries go to the peer; who sends because of an event has a handler that cascades,
\* and if that event was itself an answer, so has the peer.
SaneDeliveries ==
    {d \in [src : Link!Nodes, target : Link!Nodes \X Nat, hops : Nat, tries : Nat,
            st : {"pending", "success", "dead"}] :
        /\ d.target[1] = Link!Peer(d.src)
        /\ d.hops > 0 => handler[d.src] = "cascade"
        /\ d.hops > 1 => handler[Link!Peer(d.src)] = "cascade"}

\* The same of what arrived, seen from the instance that received it.
SaneReceipts ==
    {r \in [node : Link!Nodes, st : {"ignored", "accepted", "processed", "failed"},
            queued : BOOLEAN, hops : Nat] :
        /\ r.hops > 0 => handler[Link!Peer(r.node)] = "cascade"
        /\ r.hops > 1 => handler[r.node] = "cascade"}

HopsInv == dl \in Seq(SaneDeliveries) /\ receipts \in Seq(SaneReceipts)

\* What a step that pairs nothing leaves as it was.
LEMMA ConfKept ==
    ASSUME PairingInv, UNCHANGED <<link, rec, cmd, mirrored>>,
           UNCHANGED budget \/ Link!Spend("writes") \/ Link!Spend("faults")
    PROVE  PairingInv'
<1> DEFINE Budgets == [writes : Int, pairs : Int, rotations : Int, faults : Int, secret : Nat]
<1>1. budget \in Budgets
  BY DEF PairingInv, LinkTyped
<1>2. budget' \in Budgets
  <2>1. CASE Link!Spend("writes")
    BY <1>1, <2>1 DEF Link!Spend
  <2>2. CASE Link!Spend("faults")
    BY <1>1, <2>2 DEF Link!Spend
  <2> QED BY <1>1, <2>1, <2>2
<1>3. LinkTyped'
  BY <1>2 DEF PairingInv, LinkTyped
<1>4. Link!MirrorLinksBack'
  BY DEF PairingInv, Link!MirrorLinksBack, Link!Receiver, Link!default_verifier
<1>5. \A n \in Link!Nodes : EndpointsSane(n)' /\ ReceiversSane(n)' /\ CommandSane(n)'
  BY DEF PairingInv, EndpointsSane, ReceiversSane, CommandSane
<1> QED BY <1>3, <1>4, <1>5 DEF PairingInv

\* One row for each endpoint that is on.
LEMMA FanOutSane ==
    ASSUME PairingInv, HopsInv, UNCHANGED handler, NEW n \in Link!Nodes, NEW hops \in Nat,
           hops > 0 => handler[n] = "cascade",
           hops > 1 => handler[Link!Peer(n)] = "cascade",
           Link!fan_out(n, hops)
    PROVE  dl' \in Seq(SaneDeliveries)
<1> DEFINE targets == {u \in DOMAIN link[n] : link[n][u].on}
           New(u) == [src |-> n, target |-> u, hops |-> hops, tries |-> 0, st |-> "pending"]
<1>1. IsFiniteSet(targets) /\ \A u \in targets : u \in {Link!Peer(n)} \X Nat
  <2>1. IsFiniteSet(DOMAIN link[n]) /\ \A u \in DOMAIN link[n] : u \in {Link!Peer(n)} \X Nat
    BY DEF PairingInv, EndpointsSane
  <2> QED BY <2>1, FS_Subset
<1>2. Cardinality(targets) \in Nat
  BY <1>1, FS_CardinalityType
<1>3. \A u \in targets : New(u) \in SaneDeliveries
  BY <1>1, Peers DEF SaneDeliveries
<1>4. \/ UNCHANGED dl
      \/ \E order \in [1 .. Cardinality(targets) -> targets] :
            dl' = dl \o [i \in DOMAIN order |-> New(order[i])]
  BY DEF Link!fan_out, Link!Cardinality, Cardinality
<1>5. CASE UNCHANGED dl
  BY <1>5 DEF HopsInv
<1>6. ASSUME NEW order \in [1 .. Cardinality(targets) -> targets],
             dl' = dl \o [i \in DOMAIN order |-> New(order[i])]
      PROVE  dl' \in Seq(SaneDeliveries)
  <2> DEFINE more == [i \in DOMAIN order |-> New(order[i])]
  <2>1. \A i \in 1 .. Cardinality(targets) : New(order[i]) \in SaneDeliveries
    BY <1>3
  <2> HIDE DEF targets, New, SaneDeliveries
  <2>2. more \in Seq(SaneDeliveries)
    BY <1>2, <2>1
  <2>3. dl \in Seq(SaneDeliveries) /\ dl' = dl \o more
    BY <1>6 DEF HopsInv
  <2> HIDE DEF more
  <2> QED BY <2>2, <2>3
<1> QED BY <1>4, <1>5, <1>6

\* A post leaves a receipt, or none.
LEMMA PostLeavesReceipt ==
    ASSUME HopsInv, NEW url, url[1] \in Link!Nodes, NEW sig, NEW origin, NEW hops \in Nat,
           hops > 0 => handler[Link!Peer(url[1])] = "cascade",
           hops > 1 => handler[url[1]] = "cascade",
           Link!incoming_webhook(url, sig, origin, hops)
    PROVE  /\ receipts' \in Seq(SaneReceipts)
           /\ UNCHANGED budget \/ Link!Spend("faults")
<1> DEFINE r(st, q) == [node |-> url[1], st |-> st, queued |-> q, hops |-> hops]
<1>1. \A st \in {"ignored", "accepted"}, q \in BOOLEAN : r(st, q) \in SaneReceipts
  BY DEF SaneReceipts
<1>2. /\ \/ UNCHANGED receipts
         \/ \E st \in {"ignored", "accepted"}, q \in BOOLEAN :
               receipts' = Append(receipts, r(st, q))
      /\ UNCHANGED budget \/ Link!Spend("faults")
  BY DEF Link!incoming_webhook
<1>3. ASSUME NEW st \in {"ignored", "accepted"}, NEW q \in BOOLEAN,
             receipts' = Append(receipts, r(st, q))
      PROVE  receipts' \in Seq(SaneReceipts)
  <2>1. r(st, q) \in SaneReceipts
    BY <1>1
  <2> HIDE DEF r, SaneReceipts
  <2>2. receipts \in Seq(SaneReceipts)
    BY DEF HopsInv
  <2> QED BY <1>3, <2>1, <2>2
<1>4. UNCHANGED receipts => receipts' \in Seq(SaneReceipts)
  BY DEF HopsInv
<1> HIDE DEF r
<1> QED BY <1>2, <1>3, <1>4

\* A delivery is posted, and goes on or ends.
LEMMA DeliverKeepsHops ==
    ASSUME PairingInv, HopsInv, UNCHANGED handler, NEW i \in DOMAIN dl, Link!deliver_webhook(i)
    PROVE  PairingInv' /\ HopsInv'
<1> DEFINE d == dl[i]
           After(good) ==
               [d EXCEPT !.tries = @ + 1,
                         !.st = IF good THEN "success"
                                ELSE IF d.tries + 1 >= LinkAttempts THEN "dead" ELSE "pending"]
<1>1. d \in SaneDeliveries
  BY DEF HopsInv
<1>2. /\ d.target[1] \in Link!Nodes /\ d.hops \in Nat
      /\ d.hops > 0 => handler[Link!Peer(d.target[1])] = "cascade"
      /\ d.hops > 1 => handler[d.target[1]] = "cascade"
  BY <1>1, Peers DEF SaneDeliveries
<1>3. \A good \in BOOLEAN : After(good) \in SaneDeliveries
  <2>1. ASSUME NEW st \in {"pending", "success", "dead"}
        PROVE  [d EXCEPT !.tries = d.tries + 1, !.st = st] \in SaneDeliveries
    <3>1. d.tries + 1 \in Nat
      BY <1>1 DEF SaneDeliveries
    <3> DEFINE tried == [d EXCEPT !.tries = d.tries + 1]
    <3>2. tried \in SaneDeliveries
      BY <1>1, <3>1 DEF SaneDeliveries
    <3>3. [d EXCEPT !.tries = d.tries + 1, !.st = st] = [tried EXCEPT !.st = st]
      BY <1>1 DEF SaneDeliveries
    <3> HIDE DEF tried
    <3>4. [tried EXCEPT !.st = st] \in SaneDeliveries
      BY <3>2 DEF SaneDeliveries
    <3> QED BY <3>3, <3>4
  <2> QED BY <2>1
<1>4. PICK good \in BOOLEAN : dl' = [dl EXCEPT ![i] = After(good)]
  BY DEF Link!deliver_webhook
<1> HIDE DEF After
<1>5. dl' \in Seq(SaneDeliveries)
  BY <1>3, <1>4 DEF HopsInv
<1>6. /\ receipts' \in Seq(SaneReceipts)
      /\ UNCHANGED budget \/ Link!Spend("faults")
  <2>1. CASE \E sig : Link!incoming_webhook(d.target, sig, d.src, d.hops)
    BY <1>2, <2>1, PostLeavesReceipt
  <2>2. CASE /\ Link!Spend("faults")
             /\ receipts' = Append(receipts, [node |-> d.target[1], queued |-> TRUE, hops |-> d.hops,
                    st |-> IF Link!Ignored(d.target, d.src) THEN "ignored" ELSE "accepted"])
    <3> DEFINE r == [node |-> d.target[1], queued |-> TRUE, hops |-> d.hops,
                     st |-> IF Link!Ignored(d.target, d.src) THEN "ignored" ELSE "accepted"]
    <3>1. r \in SaneReceipts
      BY <1>2 DEF SaneReceipts
    <3> HIDE DEF r
    <3> QED BY <2>2, <3>1 DEF HopsInv, r
  <2> QED BY <2>1, <2>2 DEF Link!deliver_webhook
<1>7. UNCHANGED <<link, rec, cmd, mirrored>>
  BY DEF Link!deliver_webhook, Link!conf
<1>8. SaneDeliveries' = SaneDeliveries /\ SaneReceipts' = SaneReceipts
  BY DEF SaneDeliveries, SaneReceipts
<1> QED BY <1>5, <1>6, <1>7, <1>8, ConfKept DEF HopsInv

\* A receipt is dispatched: only a cascading handler sends.
LEMMA DispatchKeepsHops ==
    ASSUME PairingInv, HopsInv, UNCHANGED handler, NEW i \in DOMAIN receipts,
           Link!dispatch_incoming(i)
    PROVE  PairingInv' /\ HopsInv'
<1> DEFINE r == receipts[i]
           After(st) == [receipts EXCEPT ![i].st = st, ![i].queued = FALSE]
<1>1. r \in SaneReceipts
  BY DEF HopsInv
<1>2. \A st \in {"processed", "failed"} : After(st) \in Seq(SaneReceipts)
  <2> TAKE st \in {"processed", "failed"}
  <2>1. [r EXCEPT !.st = st, !.queued = FALSE] \in SaneReceipts
    BY <1>1 DEF SaneReceipts
  <2>2. After(st) = [receipts EXCEPT ![i] = [r EXCEPT !.st = st, !.queued = FALSE]]
    BY DEF HopsInv
  <2> QED BY <2>1, <2>2 DEF HopsInv
<1>3. /\ \E st \in {"processed", "failed"} : receipts' = After(st)
      /\ UNCHANGED budget \/ Link!Spend("faults")
      /\ UNCHANGED dl \/ Link!fire(r.node, r.hops + 1, Link!suppress_webhooks(r.node))
      /\ UNCHANGED <<link, rec, cmd, mirrored>>
  BY DEF Link!dispatch_incoming, Link!conf
<1> HIDE DEF After
<1>4. receipts' \in Seq(SaneReceipts)
  BY <1>2, <1>3
<1>5. dl' \in Seq(SaneDeliveries)
  <2>1. CASE UNCHANGED dl
    BY <2>1 DEF HopsInv
  <2>2. CASE handler[r.node] = "cascade" /\ Link!fan_out(r.node, r.hops + 1)
    <3> DEFINE hops == r.hops + 1
    <3>1. /\ r.node \in Link!Nodes /\ hops \in Nat /\ handler[r.node] = "cascade"
          /\ hops > 1 => handler[Link!Peer(r.node)] = "cascade"
      BY <1>1, <2>2 DEF SaneReceipts
    <3>2. Link!fan_out(r.node, hops)
      BY <2>2
    <3> HIDE DEF hops
    <3> QED BY <3>1, <3>2, FanOutSane
  <2> QED BY <1>3, <2>1, <2>2 DEF Link!fire, Link!suppress_webhooks
<1>6. SaneDeliveries' = SaneDeliveries /\ SaneReceipts' = SaneReceipts
  BY DEF SaneDeliveries, SaneReceipts
<1> QED BY <1>3, <1>4, <1>5, <1>6, ConfKept DEF HopsInv

\* Every step of two linked instances keeps what the two promises rest on.
LEMMA LinkStep == PairingInv /\ HopsInv /\ [Link!Next]_linkVars => PairingInv' /\ HopsInv'
<1> SUFFICES ASSUME PairingInv, HopsInv, [Link!Next]_linkVars PROVE PairingInv' /\ HopsInv'
  OBVIOUS
<1>1. ASSUME UNCHANGED handler
      PROVE  SaneDeliveries' = SaneDeliveries /\ SaneReceipts' = SaneReceipts
  BY <1>1 DEF SaneDeliveries, SaneReceipts
<1>2. CASE UNCHANGED linkVars
  BY <1>1, <1>2, ConfKept DEF linkVars, HopsInv
<1>3. ASSUME NEW n \in Link!Nodes, NEW oneWay \in BOOLEAN, Link!PairCommand(n, oneWay)
      PROVE  PairingInv' /\ HopsInv'
  <2>1. UNCHANGED <<dl, receipts, handler>>
    BY <1>3 DEF Link!PairCommand, Link!pair_smallstack
  <2> QED BY <1>1, <1>3, <2>1, PairCommandKeeps DEF HopsInv
<1>4. ASSUME NEW n \in Link!Nodes, Link!MirrorCommand(n)
      PROVE  PairingInv' /\ HopsInv'
  <2>1. UNCHANGED <<dl, receipts, handler>>
    BY <1>4 DEF Link!MirrorCommand, Link!pair_smallstack
  <2> QED BY <1>1, <1>4, <2>1, MirrorCommandKeeps DEF HopsInv
<1>5. ASSUME NEW n \in Link!Nodes, \/ Link!rotate_secret(n) \/ Link!rotate_receiver_secret(n)
                                   \/ Link!WebhookReceiverCRUDView(n)
      PROVE  PairingInv' /\ HopsInv'
  <2>1. UNCHANGED <<dl, receipts, handler>>
    BY <1>5 DEF Link!rotate_secret, Link!rotate_receiver_secret, Link!WebhookReceiverCRUDView
  <2> QED BY <1>1, <1>5, <2>1, SecretsRotate DEF HopsInv
<1>6. ASSUME NEW n \in Link!Nodes, Link!on_save(n)
      PROVE  PairingInv' /\ HopsInv'
  <2> DEFINE hops == 0
  <2>1. /\ Link!fan_out(n, hops) /\ Link!Spend("writes")
        /\ UNCHANGED <<link, rec, cmd, mirrored, handler, receipts>>
    BY <1>6 DEF Link!on_save, Link!fire, Link!conf
  <2>2. hops \in Nat /\ ~(hops > 0) /\ ~(hops > 1)
    OBVIOUS
  <2> HIDE DEF hops
  <2>3. dl' \in Seq(SaneDeliveries)
    BY <2>1, <2>2, FanOutSane
  <2> QED BY <1>1, <2>1, <2>3, ConfKept DEF HopsInv
<1>7. ASSUME NEW n \in Link!Nodes, Link!Stranger(n)
      PROVE  PairingInv' /\ HopsInv'
  <2>1. PICK s \in DOMAIN rec[n] : Link!incoming_webhook(<<n, s>>, Link!NoSecret, Link!Peer(n), 0)
    BY <1>7 DEF Link!Stranger
  <2> DEFINE url == <<n, s>>
             hops == 0
  <2>2. /\ url[1] \in Link!Nodes /\ hops \in Nat /\ ~(hops > 0) /\ ~(hops > 1)
        /\ Link!incoming_webhook(url, Link!NoSecret, Link!Peer(n), hops)
    BY <2>1
  <2> HIDE DEF url, hops
  <2>3. receipts' \in Seq(SaneReceipts) /\ (UNCHANGED budget \/ Link!Spend("faults"))
    BY <2>2, PostLeavesReceipt
  <2>4. UNCHANGED <<link, rec, cmd, mirrored, handler, dl>>
    BY <1>7 DEF Link!Stranger, Link!conf
  <2> QED BY <1>1, <2>3, <2>4, ConfKept DEF HopsInv
<1>8. CASE Link!Minute
  <2>1. UNCHANGED <<link, rec, cmd, mirrored, handler, dl, receipts, budget>>
    BY <1>8 DEF Link!Minute, Link!conf
  <2> QED BY <1>1, <2>1, ConfKept DEF HopsInv
<1>9. CASE Link!Deliver
  <2>1. UNCHANGED handler
    BY <1>9 DEF Link!Deliver, Link!deliver_webhook, Link!conf
  <2> QED BY <1>9, <2>1, DeliverKeepsHops DEF Link!Deliver
<1>10. CASE Link!Dispatch
  <2>1. UNCHANGED handler
    BY <1>10 DEF Link!Dispatch, Link!dispatch_incoming, Link!conf
  <2> QED BY <1>10, <2>1, DispatchKeepsHops DEF Link!Dispatch
<1> QED
  BY <1>2, <1>3, <1>4, <1>5, <1>6, <1>7, <1>8, <1>9, <1>10 DEF Link!Next

\* Initially.
LEMMA LinkInit == Link!Init => PairingInv /\ HopsInv
<1> SUFFICES ASSUME Link!Init PROVE PairingInv /\ HopsInv
  OBVIOUS
<1>1. HopsInv
  BY DEF Link!Init, HopsInv
<1>2. \A n \in Link!Nodes : EndpointsSane(n) /\ ReceiversSane(n) /\ CommandSane(n)
  <2> TAKE n \in Link!Nodes
  <2>1. DOMAIN link[n] = {} /\ DOMAIN rec[n] = {} /\ ~cmd[n].printed
    BY DEF Link!Init, Link!NoCmd
  <2> QED BY <2>1, FS_EmptySet DEF EndpointsSane, ReceiversSane, CommandSane
<1>3. Link!MirrorLinksBack
  BY DEF Link!Init, Link!MirrorLinksBack
<1>4. LinkTyped
  <2>1. budget \in [writes : Int, pairs : Int, rotations : Int, faults : Int, secret : Nat]
    BY LinkAssumption DEF Link!Init, Link!NoSecret
  <2>2. /\ link = [n \in Link!Nodes |-> link[n]] /\ rec = [n \in Link!Nodes |-> rec[n]]
        /\ cmd = [n \in Link!Nodes |-> cmd[n]]
    BY DEF Link!Init
  <2> QED BY <2>1, <2>2 DEF LinkTyped
<1> QED BY <1>1, <1>2, <1>3, <1>4 DEF PairingInv

\* However two instances are paired, paired again, rotated and retried, and whatever their
\* handlers: no write runs away over the link unless both handlers cascade, and an instance
\* whose mirror command was run as printed verifies what the peer posts.
THEOREM LinkIsSound == AllSpec => []LinkSound
<1>1. AllInit => PairingInv /\ HopsInv
  BY LinkInit DEF AllInit
<1>2. PairingInv /\ HopsInv /\ [AllNext]_<<part, vars, telVars, linkVars>>
        => (PairingInv /\ HopsInv)'
  <2> SUFFICES ASSUME [AllNext]_<<part, vars, telVars, linkVars>> PROVE [Link!Next]_linkVars
    BY LinkStep
  <2> QED BY DEF AllNext
<1>3. PairingInv /\ HopsInv => LinkSound
  <2> SUFFICES ASSUME PairingInv, HopsInv, NEW n \in Link!Nodes, handler[n] # "cascade",
                      NEW i \in DOMAIN dl
               PROVE  dl[i].hops <= 1
    BY DEF LinkSound, Link!LinkSound, Link!LoopStops, PairingInv
  <2>1. dl[i] \in SaneDeliveries
    BY DEF HopsInv
  <2>2. handler[dl[i].src] # "cascade" \/ handler[Link!Peer(dl[i].src)] # "cascade"
    BY <2>1, Peers DEF SaneDeliveries
  <2> QED BY <2>1, <2>2 DEF SaneDeliveries
<1> QED BY <1>1, <1>2, <1>3, PTL DEF AllSpec
=============================================================================
