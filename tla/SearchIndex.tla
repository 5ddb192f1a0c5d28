---------------------------- MODULE SearchIndex ----------------------------
(***************************************************************************)
(* apps/search: one searchable model, its rows and its full-text index.    *)
(* The index follows the rows by signals whose errors are only logged, by  *)
(* reindex_instances after bulk writes, and by rebuilds, which read rows   *)
(* in batches outside the transaction that writes them to the index.       *)
(***************************************************************************)
EXTENDS Integers, Sequences, FiniteSets, FiniteSetsExt

CONSTANTS
    Objs,         \* primary keys, a set of integers
    Words,        \* what a row's indexed text may be
    Writers,      \* requests that save or delete rows
    MaxWrites,    \* bound on saves, deletes and bulk writes
    MaxRebuilds,  \* bound on rebuilds
    MaxFaults     \* bound on statements that raise

VARIABLES
    site,     \* settings and declaration: [backend, declared, visibility, plain]
    rowOf,    \* the model's table: [live, text, mine]
    idx,      \* the index: pk -> "none" or the text it was given
    drifted,  \* search_fields changed since the index was created
    wtr,      \* writer -> what its signal handler has in hand
    reb,      \* the rebuild or reindex being run
    quiet,    \* history: no row was written since the rebuild began
    spent     \* bounds: [writes, rebuilds, faults]

seVars == <<site, rowOf, idx, drifted, wtr, reb, quiet, spent>>

\* The access levels and the audiences; "cli" is a caller that names no user.
Audiences == {"anon", "user", "staff", "cli"}
Free == [pc |-> "free"]

\* get_backend: by the database engine.
get_backend == {"sqlite", "postgres", "fallback"}

Init ==
    /\ site \in [backend : get_backend, declared : {"staff", "authenticated", "anonymous", "odd"},
                 visibility : {"unset", "mine", "raises"}, plain : BOOLEAN]
    /\ site.backend # "postgres" => site.plain
    /\ rowOf = [o \in Objs |-> [live |-> FALSE, text |-> CHOOSE w \in Words : TRUE, mine |-> FALSE]]
    /\ idx = [o \in Objs |-> "none"]
    /\ drifted = FALSE
    /\ wtr = [w \in Writers |-> Free] /\ reb = Free
    /\ quiet = FALSE
    /\ spent = [writes |-> 0, rebuilds |-> 0, faults |-> 0]

Live == {o \in Objs : rowOf[o].live}
Sqlite == site.backend = "sqlite"

(***************************************************************************)
(* The backends.                                                           *)
(***************************************************************************)
\* SQLiteFTSBackend.index_object: DELETE and INSERT in one transaction, from the
\* instance, whether or not the row still exists.
sqlite_index_object(ix, o, text) == [ix EXCEPT ![o] = text]

\* PostgresFTSBackend.index_object: an UPDATE of the row's own search_vector.
postgres_index_object(ix, o, text) == IF rowOf[o].live THEN [ix EXCEPT ![o] = text] ELSE ix

index_object(ix, o, text) ==
    CASE Sqlite -> sqlite_index_object(ix, o, text)
      [] site.backend = "postgres" -> postgres_index_object(ix, o, text)
      [] OTHER -> ix

\* SQLiteFTSBackend.remove_object; the vector of a Postgres row goes with the row.
remove_object(o) == IF Sqlite THEN [idx EXCEPT ![o] = "none"] ELSE idx

\* _set_based_columns: every indexed field is a column of the table itself.
set_based_columns == site.plain

\* SQLiteFTSBackend.query: matches joined with the rows that exist.
sqlite_query(word) == {o \in Objs : idx[o] = word /\ rowOf[o].live}
\* PostgresFTSBackend.query
postgres_query(word) == {o \in Live : idx[o] = word}
\* FallbackBackend.query: __icontains over the rows.
fallback_query(word) == {o \in Live : rowOf[o].text = word}

query(word) ==
    CASE Sqlite -> sqlite_query(word)
      [] site.backend = "postgres" -> postgres_query(word)
      [] OTHER -> fallback_query(word)

(***************************************************************************)
(* Rows and their signals.                                                 *)
(***************************************************************************)
Wrote == /\ spent.writes < MaxWrites
         /\ spent' = [spent EXCEPT !.writes = @ + 1]
         /\ quiet' = FALSE

\* save(): the row first, then post_save with the instance.
Save(w, o, text, mine) ==
    /\ wtr[w] = Free /\ Wrote
    /\ rowOf' = [rowOf EXCEPT ![o] = [live |-> TRUE, text |-> text, mine |-> mine]]
    /\ wtr' = [wtr EXCEPT ![w] = [pc |-> "saved", o |-> o, text |-> text]]
    /\ UNCHANGED <<site, idx, drifted, reb>>

\* _on_save
on_save(w) ==
    /\ wtr[w].pc = "saved"
    /\ idx' = index_object(idx, wtr[w].o, wtr[w].text)
    /\ wtr' = [wtr EXCEPT ![w] = Free]
    /\ UNCHANGED <<site, rowOf, drifted, reb, quiet, spent>>

Delete(w, o) ==
    /\ wtr[w] = Free /\ rowOf[o].live /\ Wrote
    /\ rowOf' = [rowOf EXCEPT ![o].live = FALSE]
    /\ idx' = IF Sqlite THEN idx ELSE [idx EXCEPT ![o] = "none"]
    /\ wtr' = [wtr EXCEPT ![w] = [pc |-> "deleted", o |-> o]]
    /\ UNCHANGED <<site, drifted, reb>>

\* _on_delete
on_delete(w) ==
    /\ wtr[w].pc = "deleted"
    /\ idx' = remove_object(wtr[w].o)
    /\ wtr' = [wtr EXCEPT ![w] = Free]
    /\ UNCHANGED <<site, rowOf, drifted, reb, quiet, spent>>

\* The handler's statement raises: logged, and the index keeps what it had.
SignalFails(w) ==
    /\ wtr[w].pc \in {"saved", "deleted"} /\ spent.faults < MaxFaults
    /\ spent' = [spent EXCEPT !.faults = @ + 1]
    /\ wtr' = [wtr EXCEPT ![w] = Free]
    /\ UNCHANGED <<site, rowOf, idx, drifted, reb, quiet>>

\* QuerySet.update and bulk_create fire no signal.
BulkWrite(o, text) ==
    /\ Wrote
    /\ rowOf' = [rowOf EXCEPT ![o].live = TRUE, ![o].text = text]
    /\ UNCHANGED <<site, idx, drifted, wtr, reb>>

(***************************************************************************)
(* Rebuilding.                                                             *)
(***************************************************************************)
AllFree == \A w \in Writers : wtr[w] = Free

Begin(pc) ==
    /\ reb.pc \in {"free", "done"} /\ spent.rebuilds < MaxRebuilds
    /\ spent' = [spent EXCEPT !.rebuilds = @ + 1]
    /\ quiet' = AllFree
    /\ reb' = [pc |-> pc, pks |-> {}, batch |-> <<>>, full |-> TRUE]

\* Variant: the old entries are left in place.
RebuildNoClear == /\ Begin("list") /\ UNCHANGED <<site, rowOf, idx, drifted, wtr>>

\* SQLiteFTSBackend.rebuild empties the table (created by ensure_index) ...
RebuildClear ==
    /\ Sqlite /\ Begin("list")
    /\ idx' = [o \in Objs |-> "none"]
    /\ UNCHANGED <<site, rowOf, drifted, wtr>>

\* PostgresFTSBackend._rebuild_set_based: one UPDATE over the whole table.
rebuild_set_based ==
    /\ site.backend = "postgres" /\ set_based_columns
    /\ reb.pc \in {"free", "done"} /\ spent.rebuilds < MaxRebuilds
    /\ spent' = [spent EXCEPT !.rebuilds = @ + 1]
    /\ quiet' = AllFree
    /\ reb' = [pc |-> "done", pks |-> {}, batch |-> <<>>, full |-> TRUE]
    /\ idx' = [o \in Objs |-> IF rowOf[o].live THEN rowOf[o].text ELSE "none"]
    /\ UNCHANGED <<site, rowOf, drifted, wtr>>

rebuild_per_row ==
    /\ site.backend = "postgres" /\ ~set_based_columns /\ Begin("list")
    /\ UNCHANGED <<site, rowOf, idx, drifted, wtr>>

\* reindex_instances over chosen rows: as a rebuild, without the drop.
reindex_instances ==
    /\ site.backend # "fallback"
    /\ reb.pc \in {"free", "done"} /\ spent.rebuilds < MaxRebuilds
    /\ spent' = [spent EXCEPT !.rebuilds = @ + 1]
    /\ quiet' = FALSE
    /\ \E pks \in SUBSET Live :
          reb' = [pc |-> "read", pks |-> pks, batch |-> <<>>, full |-> FALSE]
    /\ UNCHANGED <<site, rowOf, idx, drifted, wtr>>

\* ... lists the keys ...
RebuildList ==
    /\ reb.pc = "list"
    /\ reb' = [reb EXCEPT !.pc = "read", !.pks = Live]
    /\ UNCHANGED <<site, rowOf, idx, drifted, wtr, quiet, spent>>

\* ... reads the next chunk of rows, one row here, by its keys ...
RebuildRead ==
    /\ reb.pc = "read"
    /\ IF reb.pks = {} THEN reb' = [reb EXCEPT !.pc = "done"]
       ELSE LET o == CHOOSE p \in reb.pks : \A q \in reb.pks : p <= q IN
            reb' = [reb EXCEPT !.pc = "write", !.pks = @ \ {o},
                               !.batch = IF rowOf[o].live THEN <<o, rowOf[o].text>> ELSE <<>>]
    /\ UNCHANGED <<site, rowOf, idx, drifted, wtr, quiet, spent>>

\* ... and indexes it, in one transaction.
RebuildWrite ==
    /\ reb.pc = "write"
    /\ idx' = IF reb.batch = <<>> THEN idx ELSE index_object(idx, reb.batch[1], reb.batch[2])
    /\ reb' = [reb EXCEPT !.pc = "read", !.batch = <<>>]
    /\ UNCHANGED <<site, rowOf, drifted, wtr, quiet, spent>>

\* The rebuild raises, or its process is killed, between two chunks.
RebuildStops ==
    /\ reb.pc \notin {"free", "done"} /\ spent.faults < MaxFaults
    /\ spent' = [spent EXCEPT !.faults = @ + 1]
    /\ reb' = Free
    /\ UNCHANGED <<site, rowOf, idx, drifted, wtr, quiet>>

\* A deploy changes search_fields.
Deploy ==
    /\ ~drifted /\ spent.faults < MaxFaults
    /\ spent' = [spent EXCEPT !.faults = @ + 1]
    /\ drifted' = TRUE
    /\ UNCHANGED <<site, rowOf, idx, wtr, reb, quiet>>

\* ensure_index after migrate: an index with other columns is dropped and created empty.
ensure_index ==
    /\ Sqlite /\ drifted /\ reb.pc \in {"free", "done"}
    /\ drifted' = FALSE
    /\ idx' = [o \in Objs |-> "none"]
    /\ quiet' = FALSE
    /\ UNCHANGED <<site, rowOf, wtr, reb, spent>>

Next ==
    \/ \E w \in Writers :
          \/ on_save(w) \/ on_delete(w) \/ SignalFails(w)
          \/ \E o \in Objs :
                Delete(w, o) \/ \E t \in Words, m \in BOOLEAN : Save(w, o, t, m)
    \/ \E o \in Objs, t \in Words : BulkWrite(o, t)
    \/ RebuildClear \/ rebuild_set_based \/ rebuild_per_row \/ reindex_instances
    \/ RebuildList \/ RebuildRead \/ RebuildWrite \/ RebuildStops
    \/ Deploy \/ ensure_index

Spec == Init /\ [][Next]_seVars

(***************************************************************************)
(* Who finds what.                                                         *)
(***************************************************************************)
\* register: an unknown level falls back to STAFF.
register == IF site.declared = "odd" THEN "staff" ELSE site.declared

\* _user_can_see
user_can_see(u) ==
    \/ u \in {"cli", "staff"}
    \/ register = "authenticated" /\ u = "user"
    \/ register = "anonymous"

is_privileged(u) == u \in {"cli", "staff"}

\* The search_visibility callback over the hits' rows; {} when it raises.
Visible(u, hits) ==
    CASE site.visibility = "unset" \/ is_privileged(u) -> hits
      [] site.visibility = "mine" -> {o \in hits : rowOf[o].live /\ rowOf[o].mine}
      [] OTHER -> {}

\* search_all, for the pages and the search_all tool.
search_all(u, word) == IF user_can_see(u) THEN Visible(u, query(word)) ELSE {}

SearchPageView(u, word) == IF u = "anon" THEN {} ELSE search_all(u, word)
search_view(u, word) == search_all(u, word)
OmnibarSearchView(u, word) == IF u = "anon" THEN {} ELSE search_all(u, word)

\* group_by_model: the page's groups hold every hit.
group_by_model(hits) == {h \in hits : TRUE}

\* register_search_tools: the per-model tool's handler, and when it is offered.
tool_handler(u, word) == IF user_can_see(u) THEN Visible(u, query(word)) ELSE {}

tool_visible(u) == user_can_see(u)

\* get_indexed_sources: the model is listed with the number of its rows.
get_indexed_sources(u) == IF user_can_see(u) THEN {Cardinality(Live)} ELSE {}

\* search_doctor --audit: the audiences that can find the model.
audit == {u \in {"anon", "user", "staff"} : user_can_see(u)}

\* _source_health: rows missing from the index.
source_health ==
    CASE Sqlite -> Max({0, Cardinality(Live) - Cardinality({o \in Objs : idx[o] # "none"})})
      [] site.backend = "postgres" -> Cardinality({o \in Live : idx[o] = "none"})
      [] OTHER -> 0

-----------------------------------------------------------------------------
\* A rebuild that no row's write overlaps leaves the index with exactly the rows' texts,
\* whatever failed signals, bulk writes, interrupted rebuilds and changed fields had left
\* in it, and the diagnostics page then reports no backlog.
RebuildHeals ==
    reb.pc = "done" /\ reb.full /\ quiet =>
        /\ \A o \in Objs : idx[o] = (IF rowOf[o].live THEN rowOf[o].text ELSE "none")
        /\ source_health = 0

\* mcp_tools.py: the per-model tools "give the same results" as search_all.  However stale
\* the index is, every surface finds the same rows for the same user; all of them exist and
\* are the user's to see, and a user who finds anything is offered the tool, listed the
\* source and counted by the audit.
SurfacesAgree ==
    \A u \in Audiences, word \in Words :
        LET hits == search_all(u, word) IN
        /\ tool_handler(u, word) = hits
        /\ group_by_model(SearchPageView(u, word)) \subseteq hits
        /\ OmnibarSearchView(u, word) \subseteq search_view(u, word)
        /\ \A o \in hits : /\ rowOf[o].live
                           /\ site.visibility = "mine" => is_privileged(u) \/ rowOf[o].mine
        /\ hits # {} => /\ tool_visible(u) /\ get_indexed_sources(u) # {}
                        /\ u \in audit \cup {"cli"}

(***************************************************************************)
(* The inductive invariant behind RebuildHeals.                            *)
(***************************************************************************)
\* Every variable the rebuilds use keeps its type.
TypeOK ==
    /\ site.backend \in get_backend
    /\ rowOf \in [Objs -> [live : BOOLEAN, text : Words, mine : BOOLEAN]]
    /\ idx \in [Objs -> Words \cup {"none"}]
    /\ wtr \in [Writers -> {Free} \cup [pc : {"saved"}, o : Objs, text : Words]
                                  \cup [pc : {"deleted"}, o : Objs]]
    /\ reb \in {Free} \cup [pc : {"list", "read", "write", "done"}, pks : SUBSET Objs,
                            batch : {<<>>} \cup (Objs \X Words), full : BOOLEAN]
    /\ quiet \in BOOLEAN

\* The index's entry of a row is what a rebuild would give it.
Right(o) == idx[o] = (IF rowOf[o].live THEN rowOf[o].text ELSE "none")

\* Only SQLite's index outlives its rows; the fallback has none to rebuild.
NoOrphans == ~Sqlite => \A o \in Objs : ~rowOf[o].live => idx[o] = "none"
NoFallbackRebuild == site.backend = "fallback" => reb = Free

\* A rebuild no row's write has overlapped: the keys still to read are rows, the row in
\* hand is as it was read, and all the others are right.
Undisturbed ==
    /\ reb.pc = "list" => \A o \in Objs : ~rowOf[o].live => idx[o] = "none"
    /\ reb.pc = "read" => reb.pks \subseteq Live /\ \A o \in Objs \ reb.pks : Right(o)
    /\ reb.pc = "write" =>
          /\ reb.pks \subseteq Live
          /\ \E o \in Live :
                /\ reb.batch = <<o, rowOf[o].text>>
                /\ \A p \in Objs \ (reb.pks \cup {o}) : Right(p)
    /\ reb.pc = "done" => \A o \in Objs : Right(o)

IInv ==
    /\ TypeOK /\ NoOrphans /\ NoFallbackRebuild
    /\ quiet => AllFree /\ (reb # Free => reb.full /\ Undisturbed)
=============================================================================
