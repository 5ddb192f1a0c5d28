------------------------------ MODULE Datasets ------------------------------
(***************************************************************************)
(* Datasets: named querysets with a schema, served in Python, over REST    *)
(* and as MCP tools, as rows, as a series grouped by a dimension, as one   *)
(* number and as CSV.  A chart is drawn from a series; clicking a segment  *)
(* asks for the rows of its bucket, in a later request, after the buckets  *)
(* have been derived again from the table as it is then.                   *)
(*                                                                         *)
(* A row has a grouped column (0 is NULL), a flag and a day.               *)
(***************************************************************************)
EXTENDS Integers, FiniteSets, FiniteSetsExt

CONSTANTS
    Pks,         \* rows there can be
    Values,      \* values of the grouped column, 0 for NULL
    AutoLimit,   \* auto buckets before the rest is "other"
    RowsMax,     \* _ROWS_LIMIT_MAX
    CsvCaps,     \* settings of SMALLSTACK_DATASET_CSV_MAX_ROWS
    MaxChanges,  \* bound on changes of the table
    Defs         \* datasets there can be: [key, api, mcp]

Null == 0

VARIABLES
    tbl,      \* pk -> row, or "none"
    ask,      \* the question: dimension, filters, transport, settings
    chart,    \* the series as drawn: bucket key -> count, with the buckets it came from
    drill,    \* the rows behind the clicked segment, or the exported file
    changes,  \* changes of the table so far
    reg,      \* the registry: key -> definition
    tools,    \* MCP tools: key -> definition the tool was built for
    built     \* register_dataset_tools has run

vars == <<tbl, ask, chart, drill, changes, reg, tools, built>>

None == [live |-> FALSE, v |-> Null, flag |-> FALSE, day |-> 0]
Rowset == {x \in Pks : tbl[x].live}

-----------------------------------------------------------------------------
(* Filters.                                                                *)

\* _split_range_filters: a bound on a day displaces the plain filter on it.
split_range_filters(f) == IF f.gte = "" THEN f ELSE [f EXCEPT !.day = ""]

\* _filtered_qs: the bounds that parse, then the list's own filters.
filtered_qs(f) ==
    LET g == split_range_filters(f) IN
    {x \in Rowset : /\ g.gte = "today" => tbl[x].day = 0
                    /\ g.day = "yesterday" => tbl[x].day = 1
                    /\ g.flag = "true" => tbl[x].flag}

\* An exported dataset's MCP input schema and _RESERVED: the filters a caller may name.
Filters == [flag : {"", "true"}, day : {"", "yesterday"}, gte : {"", "today", "bad"}]

-----------------------------------------------------------------------------
(* Buckets.                                                                *)

ByValue(v) == [key |-> v, kind |-> "value", vals |-> {v}, lo |-> 0, hi |-> 0]
Other == [key |-> 9, kind |-> "other", vals |-> {}, lo |-> 0, hi |-> 0]
Band(k, lo, hi) == [key |-> k, kind |-> "band", vals |-> {}, lo |-> lo, hi |-> hi]

\* _derive_buckets: the values by count, then by value, from the unfiltered rows; the first
\* AutoLimit of them, and "other" when there are more.
CountOf(v) == Cardinality({x \in Rowset : tbl[x].v = v})
derive_buckets ==
    LET present == {v \in Values : CountOf(v) > 0}
        ahead(v) == {w \in present : CountOf(w) > CountOf(v) \/ (CountOf(w) = CountOf(v) /\ w < v)}
        top == {v \in present : Cardinality(ahead(v)) < AutoLimit} IN
    {ByValue(v) : v \in top} \cup (IF top # present THEN {Other} ELSE {})

\* resolve_buckets: derived, or as the caller wrote them.
resolve_buckets(dim) ==
    CASE dim = "auto" -> derive_buckets
      [] dim = "bands" -> {Band(11, 1, 2), Band(12, 2, 0)}
      [] dim = "listed" -> {ByValue(1), Other}

\* _dimension_values: the values named by any bucket.
dimension_values(bs) == UNION {b.vals : b \in bs}

\* "Other" as a plain NOT IN, which drops NULL.
bucket_cond_not_in(b, bs, v) ==
    CASE b.kind = "value" -> v \in b.vals
      [] b.kind = "other" -> v # Null /\ v \notin dimension_values(bs)
      [] b.kind = "band" -> v # Null /\ v >= b.lo /\ (b.hi = 0 \/ v < b.hi)

\* _bucket_cond.  IN drops NULL, and a negated IN keeps it: a NULL row is always among the
\* others.
bucket_cond(b, bs, v) ==
    CASE b.kind = "value" -> v \in b.vals
      [] b.kind = "other" -> v \notin dimension_values(bs) \ {Null}
      [] b.kind = "band" -> v # Null /\ v >= b.lo /\ (b.hi = 0 \/ v < b.hi)

\* _bucketed_series: one count per bucket.
bucketed_series(bs, f) ==
    [k \in {b.key : b \in bs} |->
        Cardinality({x \in filtered_qs(f) : \E b \in bs : b.key = k /\ bucket_cond(b, bs, tbl[x].v)})]

\* _scoped_qs: with a dimension and a bucket its rows, and all of them without a dimension.
scoped_qs(f, dim, key) ==
    IF dim = "none" THEN filtered_qs(f)
    ELSE LET bs == resolve_buckets(dim) IN
         {x \in filtered_qs(f) : \E b \in bs : b.key = key /\ bucket_cond(b, bs, tbl[x].v)}

-----------------------------------------------------------------------------
(* Requests.                                                               *)

\* DatasetSeriesView, the MCP tool with group_by, ds.series(): the buckets are derived ...
Derive(dim) ==
    /\ chart.pc = "none" /\ drill.pc = "none"
    /\ chart' = [chart EXCEPT !.pc = "derived", !.dim = dim, !.buckets = resolve_buckets(dim)]
    /\ UNCHANGED <<tbl, ask, drill, changes, reg, tools, built>>

\* ... and then counted, by a second query.
Aggregate ==
    /\ chart.pc = "derived"
    /\ chart' = [chart EXCEPT !.pc = "drawn", !.counts = bucketed_series(chart.buckets, ask.filters),
                              !.total = Cardinality(filtered_qs(ask.filters)), !.at = changes]
    /\ UNCHANGED <<tbl, ask, drill, changes, reg, tools, built>>

\* DatasetRowsView and ds.rows() with the bucket; a key that is no bucket any more is a 400.
\* The MCP tool answers rows only without group_by, and then has no dimension.
Drill(key) ==
    /\ chart.pc = "drawn" /\ drill.pc = "none" /\ key \in DOMAIN chart.counts
    /\ LET dim == IF ask.via = "mcp" THEN "none" ELSE chart.dim IN
       drill' = IF dim # "none" /\ key \notin {b.key : b \in resolve_buckets(dim)}
                THEN [drill EXCEPT !.pc = "refused"]
                ELSE [drill EXCEPT !.pc = "rows", !.key = key, !.rows = scoped_qs(ask.filters, dim, key)]
    /\ UNCHANGED <<tbl, ask, chart, changes, reg, tools, built>>

\* ds.rows(): limit and offset are clamped; None is no limit.
page_length(n, limit) == IF limit < n THEN limit ELSE n
clamp(limit) == IF limit > RowsMax THEN RowsMax ELSE IF limit < 1 THEN 1 ELSE limit

\* ?format=csv without a limit asks for one row more than the cap, and is refused if it
\* gets it.
Csv ==
    /\ drill.pc = "none" /\ chart.pc = "none" /\ ask.via = "rest"
    /\ LET n == Cardinality(filtered_qs(ask.filters))
           got == page_length(n, clamp(ask.cap + 1)) IN
       drill' = IF got > ask.cap THEN [drill EXCEPT !.pc = "too big"]
                ELSE [drill EXCEPT !.pc = "file", !.sent = got, !.full = n]
    /\ UNCHANGED <<tbl, ask, chart, changes, reg, tools, built>>

\* A row is inserted, deleted or edited meanwhile.
Change(x, rec) ==
    /\ chart.pc # "none" /\ changes < MaxChanges
    /\ tbl[x] # rec
    /\ tbl' = [tbl EXCEPT ![x] = rec]
    /\ changes' = changes + 1
    /\ UNCHANGED <<ask, chart, drill, reg, tools, built>>

-----------------------------------------------------------------------------
(* Registration.                                                           *)

Keys == {d.key : d \in Defs}
NoDef == [key |-> "none", api |-> FALSE, mcp |-> FALSE]

\* _build_query_tool through mcp.server.tool: a name taken is left alone.
build_query_tool(t, d) == IF t[d.key] = NoDef /\ d.mcp THEN [t EXCEPT ![d.key] = d] ELSE t

\* register: the first definition of a key stays; hooks hear of a new one.
Register(d) ==
    /\ reg[d.key] = NoDef
    /\ reg' = [reg EXCEPT ![d.key] = d]
    /\ tools' = IF built THEN build_query_tool(tools, d) ELSE tools
    /\ UNCHANGED <<tbl, ask, chart, drill, changes, built>>

\* register_dataset_tools, when the MCP app is ready: the datasets there are, and a hook for
\* the ones to come.
RegisterTools ==
    /\ ~built
    /\ built' = TRUE
    /\ tools' = [k \in Keys |-> IF reg[k].mcp THEN reg[k] ELSE tools[k]]
    /\ UNCHANGED <<tbl, ask, chart, drill, changes, reg>>

\* list_datasets for REST and for MCP, and whom each serves.
list_datasets(api_only) == {k \in Keys : reg[k] # NoDef /\ (api_only => reg[k].api)}
mcp_list == {k \in list_datasets(FALSE) : reg[k].mcp}
require_api_dataset(k) == reg[k] # NoDef /\ reg[k].api

Records == [live : {TRUE}, v : Values, flag : BOOLEAN, day : {0, 1}] \cup {None}
NoChart == [pc |-> "none", dim |-> "none", buckets |-> {}, counts |-> <<>>, total |-> 0, at |-> 0]
NoDrill == [pc |-> "none", key |-> 0, rows |-> {}, sent |-> 0, full |-> 0]

Init ==
    /\ tbl \in {t \in [Pks -> Records] : \A x \in Pks : t[x].flag <=> t[x].day = 1}
    /\ ask \in [filters : Filters, via : {"rest", "mcp"}, cap : CsvCaps]
    /\ chart = NoChart /\ drill = NoDrill /\ changes = 0
    /\ reg = [k \in Keys |-> NoDef] /\ tools = [k \in Keys |-> NoDef] /\ built = FALSE

AskNext ==
    \/ \E dim \in {"auto", "bands", "listed"} : Derive(dim)
    \/ Aggregate \/ Csv
    \/ \E key \in DOMAIN chart.counts : Drill(key)
    \/ \E x \in Pks, rec \in {None, [live |-> TRUE, v |-> 1, flag |-> TRUE, day |-> 1]} : Change(x, rec)
RegNext == RegisterTools \/ \E d \in Defs : Register(d)
Next == AskNext \/ RegNext

Spec == Init /\ [][Next]_vars

-----------------------------------------------------------------------------
(* Properties.                                                             *)

Total(f) == MapThenSumSet(LAMBDA k : f[k], DOMAIN f)

\* A chart adds up and its segments open on what they counted.  With an "other" bucket the
\* counts of a table at rest sum to the filtered total, unless NULL is one of the listed
\* values (its rows are counted among the others too); the rows behind a segment are as many
\* as it counted, in Python and over REST, while the table is unchanged; buckets come from
\* the unfiltered rows, so a filter never makes a key unknown.
ChartReconciles ==
    /\ (/\ chart.pc = "drawn" /\ chart.at = 0 /\ Other \in chart.buckets
        /\ Null \notin dimension_values(chart.buckets))
       => Total(chart.counts) = chart.total
    /\ drill.pc = "rows" /\ changes = 0 /\ ask.via # "mcp" =>
         Cardinality(drill.rows) = chart.counts[drill.key]
    /\ chart.pc = "drawn" /\ drill.pc = "refused" => changes > 0 /\ chart.dim = "auto"

\* Every dataset with enable_mcp has its tool once the tools are built, whichever came
\* first, and what a list names is served.
ToolsFollowRegistry ==
    /\ built => \A k \in Keys : reg[k].mcp => tools[k] = reg[k]
    /\ built => mcp_list \subseteq {k \in Keys : tools[k] # NoDef}
    /\ \A k \in list_datasets(TRUE) : require_api_dataset(k)

\* datasets/api.py: "Over the cap is a loud 400, never a silently truncated file."
CsvNeverTruncated == drill.pc = "file" => drill.sent = drill.full
=============================================================================
