----------------------------- MODULE CrudLists ------------------------------
(***************************************************************************)
(* The list of a CRUDView, asked for through the HTML page, the REST API,  *)
(* the REST export, the MCP list tool and sc ls: the rows in the caller's  *)
(* scope, searched, filtered, ordered and cut into pages.  The database    *)
(* may return rows that compare equal in any order, and in another one for *)
(* the next page.                                                          *)
(*                                                                         *)
(* A row has a word, a flag and a day (days before today); day 2 is in the *)
(* month before.  A client walks the pages while the table changes.        *)
(***************************************************************************)
EXTENDS Integers, Sequences, FiniteSets

CONSTANTS
    Table,        \* the rows there can be: records [pk, word, flag, day, mine]
    PageSizes,    \* paginate_by, or page_size asked for
    MaxChanges    \* bound on rows inserted or deleted during a walk

VARIABLES
    here,     \* the rows there are
    ask,      \* the request's parameters and the view's declaration
    walk,     \* the client: page to fetch next, rows received, pages fetched
    changes   \* rows inserted or deleted so far

vars == <<here, ask, walk, changes>>

Via == {"html", "rest", "mcp", "cli"}
Searches == {"", "word", "date", "month", "padded"}   \* "month" is written 2024-3, "padded" 2024-03
Flags == {"", "true", "false", "yes", "bogus"}
Spans == {"", "today", "yesterday", "week", "month", "bogus"}
Orders == {"", "word", "-word", "ghost"}              \* "ghost" is no field of the model

ThisMonth(x) == x.day < 2

-----------------------------------------------------------------------------
(* The parts of a list.                                                    *)

\* get_list_queryset, for a view limited to the caller's rows.
get_list_queryset(rows) == {x \in rows : x.mine}

\* crud._apply_list_search, used by the HTML page, MCP and sc: text fields by substring,
\* date fields by year, month or date when the text looks like one.
apply_search(rows) ==
    IF ask.q = "" THEN rows
    ELSE {x \in rows : \/ ask.q = "word" /\ x.word = "a"
                       \/ ask.q = "date" /\ x.day = 0
                       \/ ask.q \in {"month", "padded"} /\ ThisMonth(x)}

\* api._apply_list_search: substring over every field, dates as stored.
api_search(rows) ==
    IF ask.q = "" THEN rows
    ELSE {x \in rows : \/ ask.q = "word" /\ x.word = "a"
                       \/ ask.q = "date" /\ x.day = 0
                       \/ ask.q = "padded" /\ ThisMonth(x)}

\* A Boolean and a date column of the page's toolbar, MCP and sc; an unknown value is no
\* filter, nor is "year": every row is of this year.  _filter_annotated_column reads
\* computed columns the same way.
by_flag(rows, v) ==
    CASE v \in {"true", "yes"} -> {x \in rows : x.flag}
      [] v = "false" -> {x \in rows : ~x.flag}
      [] OTHER -> rows
by_span(rows, v) ==
    CASE v = "today" -> {x \in rows : x.day = 0}
      [] v = "yesterday" -> {x \in rows : x.day = 1}
      [] v = "week" -> {x \in rows : x.day <= 7}
      [] v = "month" -> {x \in rows : ThisMonth(x)}
      [] OTHER -> rows

\* crud._apply_list_filters; apply_filter of the view comes first, in every transport.
apply_filters(rows) == by_span(by_flag(rows, ask.flag), ask.span)

\* api._apply_list_filter: a FilterSet, which knows "true" and "false" and takes a date for a
\* date: a span is an error.  What apply_filter of the view handles is consumed before.
api_filter_ok == ask.override \/ ask.span = ""
api_filter(rows) ==
    IF ask.override THEN apply_filters(rows)
    ELSE by_flag(rows, IF ask.flag \in {"true", "false"} THEN ask.flag ELSE "")

\* _build_filter_meta: what the toolbar offers for the flag and for the day.
filter_meta == [flag |-> {"true", "false"}, span |-> {"today", "yesterday", "week", "month"}]

\* _has_active_filters: the page says that it shows a part of the list.
has_active_filters == ask.q # "" \/ ask.flag # "" \/ ask.span # ""

\* _compute_aggregations: count_by=flag, keyed by the value as a filter writes it.
count_by(rows) ==
    [v \in {"true", "false"} |-> Cardinality({x \in rows : x.flag <=> v = "true"})]

\* _apply_ordering_fields keeps the parts that are fields; REST refuses the others.
api_ordering_ok == ask.order # "ghost"

\* May x come before y?  A request that orders by nothing gets the primary key on the HTML
\* page; elsewhere whatever order the queryset has.
Before(via, x, y) ==
    CASE ask.order = "word" -> x.word = "a" \/ y.word = "b"
      [] ask.order = "-word" -> x.word = "b" \/ y.word = "a"
      [] ask.order = "ghost" -> ask.ordered => x.pk <= y.pk
      [] ask.order = "" -> (via = "html" \/ ask.ordered) => x.pk <= y.pk

\* The rows a transport lists.
Rows(via) ==
    LET scoped == get_list_queryset(here) IN
    IF via = "rest" THEN api_filter(api_search(scoped)) ELSE apply_filters(apply_search(scoped))

\* Every sequence the database may return them in.
Sorted(via, rows) ==
    {s \in [1 .. Cardinality(rows) -> rows] :
        \A i, j \in DOMAIN s : i < j => s[i] # s[j] /\ Before(via, s[i], s[j])}

-----------------------------------------------------------------------------
(* Pages.                                                                  *)

Least(a, b) == IF a < b THEN a ELSE b
Most(a, b) == IF a > b THEN a ELSE b

\* A page count that forgets the last, partial page.
total_pages_full(n, size) == Most(1, n \div size)

total_pages(n, size) == Most(1, (n + size - 1) \div size)

\* _resolve_page for a number; paginate_queryset of the pages clamps alike.
resolve_page(page, pages) == Most(1, Least(page, pages))

\* _paginate: the slice.
Slice(s, page, size) == SubSeq(s, (page - 1) * size + 1, Least(page * size, Len(s)))

\* One page of the HTML list.
FetchPage(s) ==
    LET pages == total_pages(Len(s), ask.size)
        page == resolve_page(walk.page, pages) IN
    walk' = [walk EXCEPT !.got = @ \o Slice(s, page, ask.size), !.page = page + 1,
                         !.fetched = @ + 1, !.pc = IF page < pages THEN "more" ELSE "end"]
HtmlPage ==
    /\ walk.pc = "more" /\ walk.via = "html"
    /\ \E s \in Sorted("html", Rows("html")) : FetchPage(s)
    /\ UNCHANGED <<here, ask, changes>>

\* _api_list: one page, refused when a filter or the ordering is.
ApiPage ==
    /\ walk.pc = "more" /\ walk.via = "rest"
    /\ api_filter_ok /\ api_ordering_ok
    /\ \E s \in Sorted("rest", Rows("rest")) : FetchPage(s)
    /\ UNCHANGED <<here, ask, changes>>

\* _api_export: every row, before the ordering is looked at.
ApiExport ==
    /\ walk.pc = "more" /\ walk.via = "rest" /\ walk.fetched = 0 /\ api_filter_ok
    /\ \E s \in Sorted("rest", Rows("rest")) :
         walk' = [walk EXCEPT !.got = s, !.fetched = 1, !.pc = "end"]
    /\ UNCHANGED <<here, ask, changes>>

\* One answer, cut at the limit.
FetchLimited(via) ==
    /\ walk.pc = "more" /\ walk.via = via
    /\ \E s \in Sorted(via, Rows(via)) :
         walk' = [walk EXCEPT !.got = SubSeq(s, 1, Least(ask.size, Len(s))), !.fetched = 1, !.pc = "end"]
    /\ UNCHANGED <<here, ask, changes>>

\* The MCP list tool and sc ls.
McpList == FetchLimited("mcp")
ScLs == FetchLimited("cli")

\* Another client inserts or deletes a row.
Change(x) ==
    /\ walk.pc = "more" /\ changes < MaxChanges
    /\ here' = IF x \in here THEN here \ {x} ELSE here \cup {x}
    /\ changes' = changes + 1
    /\ UNCHANGED <<ask, walk>>

\* Questions about which rows, and questions about their order.
Questions ==
    [q : Searches, flag : Flags, span : Spans, override : BOOLEAN, order : {""}, ordered : {TRUE}, size : {1}]
    \cup [q : {""}, flag : {""}, span : {""}, override : {FALSE}, order : Orders, ordered : BOOLEAN,
          size : PageSizes]

Init ==
    /\ here \in SUBSET Table
    /\ ask \in Questions
    /\ \E via \in Via : walk = [pc |-> "more", via |-> via, page |-> 1, got |-> <<>>, fetched |-> 0]
    /\ changes = 0

Next ==
    \/ HtmlPage \/ ApiPage \/ ApiExport
    \/ McpList \/ ScLs
    \/ \E x \in Table : Change(x)

Spec == Init /\ [][Next]_vars

-----------------------------------------------------------------------------
(* Properties.                                                             *)

\* The order is total on the rows listed: no two of them tie.
Total(via) == \A x, y \in Rows(via) : Before(via, x, y) /\ Before(via, y, x) => x = y

\* The same question gets the same rows through every transport, as far as REST accepts it,
\* the search is not a one-digit month and the flag is spelled as the toolbar spells it;
\* nothing outside the caller's scope is listed; a page that hides rows says so; each offered
\* value of the flag selects what count_by counts for it.
ListsAgree ==
    LET scope == get_list_queryset(here) IN
    /\ \A via \in Via : Rows(via) \subseteq scope
    /\ api_filter_ok /\ ask.q # "month" /\ ask.flag # "yes" => Rows("rest") = Rows("html")
    /\ Rows("html") # scope => has_active_filters
    /\ \A v \in filter_meta.flag : Cardinality(by_flag(scope, v)) = count_by(scope)[v]
    /\ \A v \in filter_meta.span : by_span(Table, v) # Table \/ v = "week"

\* A walk over an unchanged table in a total order receives every row once; an export does
\* in any order; any walk ends within the pages there were, or came to be.
WalkSound ==
    /\ walk.pc = "end" /\ changes = 0 /\ walk.via \in {"html", "rest"}
       /\ (Total(walk.via) \/ walk.fetched = 1) =>
         /\ {walk.got[i] : i \in DOMAIN walk.got} = Rows(walk.via)
         /\ Len(walk.got) = Cardinality(Rows(walk.via))
    /\ walk.fetched <= total_pages(Cardinality(Table), ask.size)
=============================================================================
