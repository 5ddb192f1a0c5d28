------------------------------ MODULE Telemetry ------------------------------
(***************************************************************************)
(* The telemetry app in one process: the database log handler (a bounded   *)
(* queue drained in batches by a writer thread, and by the main thread at  *)
(* close), the capture windows that lower the captured level for a while,  *)
(* retention, and the cursor a reader tails the stored records with.       *)
(* Levels are 1 (DEBUG), 2 (INFO), 3 (WARNING) ...; 0 is NOTSET.           *)
(***************************************************************************)
EXTENDS Integers, Sequences, FiniteSets, FiniteSetsExt

CONSTANTS
    Baseline,        \* TELEMETRY_LOG_LEVEL
    CaptureLoggers,  \* TELEMETRY_CAPTURE_LOGGERS
    PinnedLoggers,   \* loggers a window may not lower below Baseline
    Original,        \* logger -> the level it was configured with (0: inherits RootLevel)
    RootLevel,
    QueueSize, BatchSize,
    PageLimit,       \* records a tail's page holds
    MaxRows,         \* TELEMETRY_LOG_MAX_ROWS
    MaxMinutes,      \* TELEMETRY_MAX_CAPTURE_MINUTES
    MaxRecords, MaxWindows, LastTime, MaxFaults   \* bounds

Attempts == 3
Loggers == CaptureLoggers \cup PinnedLoggers
Idle == [batch |-> <<>>, attempt |-> 0]

VARIABLES
    queue,      \* rows waiting, each its capture time
    hand,       \* "worker", "main" -> the batch taken and the failed attempts to write it
    worker,     \* "none" or "run"
    stopping,   \* the _stopping event
    closing,    \* "open", "joining", "flushing", "closed"
    counts,     \* [accepted, written, dropped]: accepted is history, the others the handler's
    hlevel,     \* the handler's level
    levels,     \* logger -> level now
    saved,      \* _saved_levels
    caps,       \* capture windows: [level, expires]
    store,      \* pk -> capture time, for the rows stored; 0 for a pk not stored
    lastPk,     \* the last primary key given out
    tail,       \* the reader: [from, cursor, shown]
    ltime,      \* the clock
    faults

telVars == <<queue, hand, worker, stopping, closing, counts, hlevel, levels, saved, caps,
             store, lastPk, tail, ltime, faults>>

handlerVars == <<queue, hand, worker, stopping, closing, counts>>
levelVars   == <<hlevel, levels, saved>>
readVars    == <<store, lastPk, tail>>

Pks == 1 .. MaxRecords
NoTail == [from |-> -1, cursor |-> -1, shown |-> {}]

\* apps.py starts the writer when the process is ready.
Init ==
    /\ queue = <<>> /\ hand = [t \in {"worker", "main"} |-> Idle]
    /\ worker = "run" /\ stopping = FALSE /\ closing = "open"
    /\ counts = [accepted |-> 0, written |-> 0, dropped |-> 0]
    /\ hlevel = Baseline /\ levels = Original /\ saved = [g \in {} |-> 0]
    /\ caps = {} /\ store = [p \in Pks |-> 0] /\ lastPk = 0 /\ tail = NoTail
    /\ ltime = 1 /\ faults = 0

(***************************************************************************)
(* The handler.                                                            *)
(***************************************************************************)
EffectiveLevel(g) == IF levels[g] = 0 THEN RootLevel ELSE levels[g]

\* Any emit restarts a writer that is gone, and takes back a stop that was asked for.
ensure_worker ==
    IF worker = "run" THEN UNCHANGED <<worker, stopping>>
    ELSE worker' = "run" /\ stopping' = FALSE

\* An application thread logs at level l through logger g; a full queue drops the record.
emit(g, l) ==
    /\ counts.accepted < MaxRecords
    /\ l >= EffectiveLevel(g) /\ l >= hlevel
    /\ ensure_worker
    /\ IF Len(queue) < QueueSize
       THEN /\ queue' = Append(queue, ltime)
            /\ counts' = [counts EXCEPT !.accepted = @ + 1]
       ELSE /\ counts' = [counts EXCEPT !.accepted = @ + 1, !.dropped = @ + 1]
            /\ UNCHANGED queue
    /\ UNCHANGED <<hand, closing, levelVars, caps, readVars, ltime, faults>>

take_batch(t) ==
    LET n == Min({BatchSize, Len(queue)})
    IN  /\ hand[t] = Idle /\ n > 0
        /\ hand' = [hand EXCEPT ![t].batch = SubSeq(queue, 1, n)]
        /\ queue' = SubSeq(queue, n + 1, Len(queue))
        /\ UNCHANGED <<worker, stopping, closing, counts, levelVars, caps, readVars, ltime, faults>>

\* One attempt at the batch: stored, dropped because the table is missing, or failed;
\* the third failure drops it.
write(t) ==
    LET batch == hand[t].batch
        n     == Len(batch)
    IN  /\ n > 0
        /\ \/ /\ store' = [p \in Pks |-> IF p \in (lastPk + 1) .. (lastPk + n)
                                         THEN batch[p - lastPk] ELSE store[p]]
              /\ lastPk' = lastPk + n
              /\ counts' = [counts EXCEPT !.written = @ + n]
              /\ hand' = [hand EXCEPT ![t] = Idle]
              /\ UNCHANGED faults
           \/ /\ faults < MaxFaults /\ faults' = faults + 1
              /\ \E missingTable \in BOOLEAN :
                    IF missingTable \/ hand[t].attempt = Attempts - 1
                    THEN /\ counts' = [counts EXCEPT !.dropped = @ + n]
                         /\ hand' = [hand EXCEPT ![t] = Idle]
                    ELSE /\ hand' = [hand EXCEPT ![t].attempt = @ + 1]
                         /\ UNCHANGED counts
              /\ UNCHANGED <<store, lastPk>>
        /\ UNCHANGED <<queue, worker, stopping, closing, levelVars, caps, tail, ltime>>

\* The writer's loop ends when it sees the stop between two batches.
run_ends ==
    /\ worker = "run" /\ stopping /\ hand["worker"] = Idle
    /\ worker' = "none"
    /\ UNCHANGED <<queue, hand, stopping, closing, counts, levelVars, caps, readVars, ltime, faults>>

\* close(): ask the writer to stop, join it for a while, then flush what is queued.
close ==
    /\ closing = "open"
    /\ closing' = "joining" /\ stopping' = TRUE
    /\ UNCHANGED <<queue, hand, worker, counts, levelVars, caps, readVars, ltime, faults>>

\* The join ends because the writer did, or because shutdown_timeout passed.
JoinEnds ==
    /\ closing = "joining"
    /\ closing' = "flushing"
    /\ UNCHANGED <<queue, hand, worker, stopping, counts, levelVars, caps, readVars, ltime, faults>>

flush == closing = "flushing" /\ take_batch("main")

FlushEnds ==
    /\ closing = "flushing" /\ hand["main"] = Idle /\ queue = <<>>
    /\ closing' = "closed"
    /\ UNCHANGED <<queue, hand, worker, stopping, counts, levelVars, caps, readVars, ltime, faults>>

(***************************************************************************)
(* Capture windows.                                                        *)
(***************************************************************************)
Open == {c \in caps : c.expires > ltime}

active_window == IF Open = {} THEN [level |-> Baseline, expires |-> 0]
                 ELSE CHOOSE c \in Open : \A o \in Open : o.expires <= c.expires

effective_level == Min({active_window.level, Baseline})

restore_levels ==
    /\ levels' = [g \in Loggers |-> IF g \in DOMAIN saved THEN saved[g] ELSE levels[g]]
    /\ saved' = [g \in {} |-> 0]

\* Variant: the level saved is the one found by the latest poll.
SaveLatest(gs) ==
    saved' = [g \in DOMAIN saved \cup gs |-> IF g \in gs THEN levels[g] ELSE saved[g]]

\* _saved_levels.setdefault(...): the first level saved for a logger stays.
setdefault(gs) ==
    saved' = [g \in DOMAIN saved \cup gs |-> IF g \in DOMAIN saved THEN saved[g] ELSE levels[g]]

apply_levels(l) ==
    IF l >= Baseline THEN restore_levels
    ELSE LET lowered == {g \in CaptureLoggers : l < EffectiveLevel(g)}
             pinned  == {g \in PinnedLoggers : EffectiveLevel(g) < Baseline}
         IN  /\ setdefault(lowered \cup pinned)
             /\ levels' = [g \in Loggers |-> IF g \in lowered THEN l
                                             ELSE IF g \in pinned THEN Baseline ELSE levels[g]]

poll_capture ==
    /\ worker = "run" /\ hand["worker"] = Idle
    /\ hlevel' = effective_level
    /\ apply_levels(effective_level)
    /\ UNCHANGED <<handlerVars, caps, readVars, ltime, faults>>

parse_capture_level(l) == l < Baseline

\* The window lasts between one minute and the ceiling, whatever was asked.
start(l, minutes) ==
    /\ Cardinality(caps) < MaxWindows
    /\ caps' = caps \cup {[level |-> l, expires |-> ltime + Max({1, Min({minutes, MaxMinutes})})]}
    /\ UNCHANGED <<handlerVars, levelVars, readVars, ltime, faults>>

open_capture(l, minutes) == minutes >= 1 /\ parse_capture_level(l) /\ start(l, minutes)

CaptureControlView(l, minutes) == parse_capture_level(l) /\ start(l, minutes)

stop ==
    /\ Open # {}
    /\ caps' = (caps \ Open) \cup {[c EXCEPT !.expires = ltime] : c \in Open}
    /\ UNCHANGED <<handlerVars, levelVars, readVars, ltime, faults>>

(***************************************************************************)
(* Retention and tailing.                                                  *)
(***************************************************************************)
Stored == {p \in Pks : store[p] # 0}

\* Newest first by capture time, then by key.
Newer(p, q) == store[p] > store[q] \/ (store[p] = store[q] /\ p > q)
RankOf(p) == Cardinality({q \in Stored : Newer(q, p)})

\* prune_logs by the row cap: rows captured before the last row to keep.
prune_logs ==
    /\ Cardinality(Stored) > MaxRows
    /\ LET last == CHOOSE p \in Stored : RankOf(p) = MaxRows - 1
       IN  store' = [p \in Pks |-> IF p \in Stored /\ store[p] < store[last] THEN 0 ELSE store[p]]
    /\ store' # store
    /\ UNCHANGED <<handlerVars, levelVars, caps, lastPk, tail, ltime, faults>>

\* Variant: the page after a cursor is ordered by capture time.
PageByTime(cursor) ==
    LET found == {p \in Stored : p > cursor}
    IN  {p \in found : Cardinality({q \in found : Newer(p, q)}) < PageLimit}

\* A page: without a cursor the newest records, with one the first keys after it.
search_records(cursor) ==
    IF cursor = -1 THEN {p \in Stored : RankOf(p) < PageLimit}
    ELSE {p \in Stored : p > cursor
                         /\ Cardinality({q \in Stored : cursor < q /\ q < p}) < PageLimit}

\* logs --follow: from the newest record, then page after page.
follow_start ==
    /\ tail = NoTail
    /\ LET newest == {p \in Stored : RankOf(p) = 0}
           c      == IF newest = {} THEN 0 ELSE Max(newest)
       IN  tail' = [from |-> c, cursor |-> c, shown |-> {}]
    /\ UNCHANGED <<handlerVars, levelVars, caps, store, lastPk, ltime, faults>>

follow ==
    /\ tail # NoTail
    /\ LET page == search_records(tail.cursor)
       IN  /\ page # {}
           /\ tail' = [tail EXCEPT !.cursor = Max(page), !.shown = @ \cup page]
    /\ UNCHANGED <<handlerVars, levelVars, caps, store, lastPk, ltime, faults>>

Tick == ltime < LastTime /\ ltime' = ltime + 1
        /\ UNCHANGED <<handlerVars, levelVars, caps, readVars, faults>>

Work == (worker = "run" /\ ~stopping /\ take_batch("worker")) \/ write("worker")

Next ==
    \/ \E g \in CaptureLoggers, l \in 1 .. Baseline : emit(g, l)
    \/ Work \/ run_ends \/ poll_capture
    \/ close \/ JoinEnds \/ flush \/ FlushEnds \/ write("main")
    \/ \E l \in 1 .. Baseline, m \in 0 .. MaxMinutes + 1 : open_capture(l, m) \/ CaptureControlView(l, m)
    \/ stop \/ prune_logs \/ follow_start \/ follow \/ Tick

Spec == Init /\ [][Next]_telVars

(***************************************************************************)
(* Properties.                                                             *)
(***************************************************************************)
\* Every record the handler accepted is stored, counted as dropped, queued or in the
\* hands of the writer or of the closing thread: a full queue, a missing table, a third
\* failure, a close that times out and a writer restarted after it lose none silently.
RecordsAccounted ==
    counts.accepted = counts.written + counts.dropped + Len(queue)
                      + Len(hand["worker"].batch) + Len(hand["main"].batch)

\* A tail shows every record stored after it started whose key its cursor has passed,
\* although two threads write batches and keys do not follow capture times.
TailSkipsNothing ==
    tail # NoTail => \A p \in Stored : tail.from < p /\ p <= tail.cursor => p \in tail.shown

\* Whenever the handler is back at its baseline, every logger is back at the level it was
\* configured with: through windows that overlap, expire or are stopped, and polls that
\* see them late or not at all, no lowered level is ever taken for the original one.
CaptureLeavesNothing == hlevel = Baseline => levels = Original

\* Both together: no record disappears between the emitter and the reader.
LogComplete == RecordsAccounted /\ TailSkipsNothing
=============================================================================
