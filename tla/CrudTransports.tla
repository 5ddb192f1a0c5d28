--------------------------- MODULE CrudTransports ---------------------------
(***************************************************************************)
(* One declaration, five ways in.  A CRUDView subclass is served as HTML   *)
(* pages, an HTML bulk endpoint, a REST API with bulk endpoints, MCP tools *)
(* and the sc command line; each transport has its own checks, its own     *)
(* order of save and audit, and loads the row some time before it writes.  *)
(*                                                                         *)
(* A row carries its owner, a note and a lock; the hooks a project may     *)
(* override are the three interesting ones: a queryset limited to the      *)
(* caller's rows, an object check on the owner, and can_update/can_delete  *)
(* that refuse a locked row.                                               *)
(***************************************************************************)
EXTENDS Integers, FiniteSets

CONSTANTS
    Keys,        \* primary keys
    Born,        \* the keys that exist at the start
    Linked,      \* the ones some other record refers to with on_delete=PROTECT
    Users,       \* signed-in users
    Staff,       \* the ones with is_staff
    Owner,       \* whose rows they are
    Requests,    \* the requests, each served once
    ProjectViews \* declarations a project makes, next to the Explorer's own

Nobody == "nobody"     \* AnonymousUser, and sc without --user

VARIABLES
    view,   \* the CRUDView subclass
    row,    \* the table
    wire,   \* the requests in flight
    trail,  \* the LogEntry rows
    wrote   \* history: what really happened to the table

vars == <<view, row, wire, trail, wrote>>

Actions == {"LIST", "CREATE", "DETAIL", "UPDATE", "DELETE"}

-----------------------------------------------------------------------------
(* Declarations.                                                           *)

\* ExplorerSite._build_one: the CRUDView the Explorer builds from a ModelAdmin.
build_one(readonly, bulk) ==
    [actions |-> IF readonly THEN {"LIST", "DETAIL"} ELSE Actions,
     mixins |-> "staff", public |-> FALSE, bulk |-> bulk, api |-> TRUE, mcp |-> {},
     scope |-> "all", hook |-> "none", veto |-> FALSE, tabs |-> TRUE,
     form |-> {"note", "lock"}, json |-> FALSE]

\* _resolve_bulk_actions: what the admin class declares, else delete alone.
resolve_bulk_actions(declared) ==
    IF declared = {"unset"} THEN {"DELETE"} ELSE declared \cap {"DELETE", "UPDATE"}

ExplorerViews ==
    {build_one(ro, resolve_bulk_actions(d)) : ro \in BOOLEAN, d \in {{"unset"}, {"UPDATE", "DELETE"}}}

\* CRUDView._resolved_mixins: declared mixins win, then public, then a login.
resolved_mixins(v) ==
    IF v.mixins # "unset" THEN v.mixins ELSE IF v.public THEN "none" ELSE "login"

\* CRUDView.get_urls, the HTML half.
get_urls(v) ==
    UNION {IF "LIST" \in v.actions THEN {"list", "preview"} ELSE {},
           IF "CREATE" \in v.actions THEN {"create"} ELSE {},
           IF v.bulk # {} THEN {"bulk"} ELSE {},
           IF "UPDATE" \in v.bulk THEN {"bulk-form"} ELSE {},
           IF "DETAIL" \in v.actions THEN {"detail"} ELSE {},
           IF "DETAIL" \in v.actions /\ v.tabs THEN {"related"} ELSE {},
           IF "UPDATE" \in v.actions THEN {"update"} ELSE {},
           IF "DELETE" \in v.actions THEN {"delete"} ELSE {}}

\* build_api_urls: the two resource routes always, a bulk route per bulk action.
build_api_urls(v) ==
    IF ~v.api THEN {} ELSE {"list", "detail"}
        \cup (IF "DELETE" \in v.bulk THEN {"bulk-delete"} ELSE {})
        \cup (IF "UPDATE" \in v.bulk THEN {"bulk-update"} ELSE {})

\* register_mcp_tools_from_crudview: declared actions that mcp_actions selects.
mcp_tools(v) == v.actions \cap v.mcp

\* _get_methods_from_actions, answered to OPTIONS and shown in the schema.
MethodsOf == [LIST |-> {"GET"}, DETAIL |-> {"GET"}, CREATE |-> {"POST"},
              UPDATE |-> {"PUT", "PATCH"}, DELETE |-> {"DELETE"}]
get_methods_from_actions(v) == UNION {MethodsOf[a] : a \in v.actions}

\* openapi._build_crud_paths: the documented operations.
build_crud_paths(v) ==
    {<<"list", "GET">> : x \in v.actions \cap {"LIST"}}
    \cup {<<"list", "POST">> : x \in v.actions \cap {"CREATE"}}
    \cup {<<"detail", "GET">> : x \in v.actions \cap {"DETAIL"}}
    \cup {<<"detail", m>> : m \in IF "UPDATE" \in v.actions THEN {"PUT", "PATCH"} ELSE {}}
    \cup {<<"detail", "DELETE">> : x \in v.actions \cap {"DELETE"}}

\* Where a page leads.  Every page: the list, the create form, the bulk endpoint.
context_urls(v) ==
    UNION {IF v.bulk # {} THEN {"bulk"} ELSE {},
           IF "CREATE" \in v.actions THEN {"create"} ELSE {},
           IF "LIST" \in v.actions THEN {"list"} ELSE {}}

\* A row of crud_table: its link, Edit and Delete; in a related tab, where only the first
\* of detail and update is kept, its link; a truncated text opens the field preview.
crud_table(acts) ==
    UNION {IF "DETAIL" \in acts THEN {"detail"} ELSE IF "UPDATE" \in acts THEN {"update"} ELSE {},
           IF "UPDATE" \in acts THEN {"update"} ELSE {},
           IF "DELETE" \in acts THEN {"delete"} ELSE {}}
list_page(v) == context_urls(v) \cup crud_table(v.actions) \cup {"preview"}
related_tab(v) ==
    crud_table(IF "DETAIL" \in v.actions THEN {"DETAIL"} ELSE v.actions \cap {"UPDATE"}) \cup {"list"}
detail_page(v) == context_urls(v) \cup (IF v.tabs THEN {"related"} ELSE {})

\* get_success_url after an edit; after a create or a delete it is the list.
update_success_url(v) == IF "DETAIL" \in v.actions THEN "detail" ELSE "list"

-----------------------------------------------------------------------------
(* Who may come in.  A credential is a session or a bearer token of a      *)
(* level; a login token has the level "".                                  *)

Tokens == {"readonly", "auth", "staff", ""}
Credentials == {"session"} \cup Tokens

\* The view's mixins, in front of every HTML view.
html_gate(u) ==
    CASE resolved_mixins(view) = "none" -> TRUE
      [] resolved_mixins(view) = "login" -> u # Nobody
      [] resolved_mixins(view) = "staff" -> u \in Staff

\* _authenticate_api_request and _check_api_permissions: someone, staff where the mixins
\* say so, and no write with a read-only token.
check_api_permissions(u, cred, method) ==
    /\ u # Nobody
    /\ resolved_mixins(view) = "staff" => u \in Staff
    /\ cred = "readonly" => method = "GET"

\* mcp.auth.check_tool_access for a tool of this view.
level_rank == [readonly |-> 0, auth |-> 1, staff |-> 2]
check_tool_access(u, cred, write) ==
    LET effective == IF cred = "" THEN (IF u \in Staff THEN "staff" ELSE "auth") ELSE cred
    IN  /\ u # Nobody /\ cred \in Tokens
        /\ resolved_mixins(view) = "staff" => level_rank[effective] >= 2 /\ u \in Staff
        /\ write => cred # "readonly"

\* sc: the staff gate reads the mixins attribute, and nothing else stands in front.
check_write_permission(u) == view.mixins = "staff" => u \in Staff

\* The project's hooks.
in_scope(u, rec) == rec.live /\ (view.scope = "own" => rec.owner = u)
check_object_permission(u, rec) == view.hook = "own" => rec.owner = u
can_update(rec) == view.veto => ~rec.lock
can_delete(rec) == view.veto => ~rec.lock
can_bulk_update_fields == view.form

-----------------------------------------------------------------------------
(* What a form makes of a payload.                                         *)

Blank == [note |-> 0, lock |-> FALSE]
Default == [note |-> 0, lock |-> TRUE]
NoPayload == [fields |-> {}, note |-> 0, lock |-> FALSE]
Payloads == {[fields |-> {"note"}, note |-> 1, lock |-> FALSE],
             [fields |-> {"lock"}, note |-> 0, lock |-> TRUE]}

\* merge_form_payload: what was sent, over the base.
merge_form_payload(base, pay) ==
    [note |-> IF "note" \in pay.fields THEN pay.note ELSE base.note,
     lock |-> IF "lock" \in pay.fields THEN pay.lock ELSE base.lock]

\* A bound form writes its own fields (_make_form_class) onto the instance.
make_form(inst, data) ==
    [inst EXCEPT !.note = IF "note" \in view.form THEN data.note ELSE @,
                 !.lock = IF "lock" \in view.form THEN data.lock ELSE @]

-----------------------------------------------------------------------------
(* Requests.  A request loads what it will write (Begin), then writes row  *)
(* by row; form.save() writes every column of the instance it loaded.      *)

Idle == [pc |-> "idle"]
Begin(r, via, op, u, cred, todo, pay) ==
    /\ todo # {}
    /\ wire' = [wire EXCEPT ![r] =
          [pc |-> "row", via |-> via, op |-> op, by |-> u, ro |-> cred = "readonly", todo |-> todo,
           seen |-> [k \in todo |-> row[k]], pay |-> pay, cur |-> 0, did |-> {}]]
    /\ UNCHANGED <<view, row, trail, wrote>>

Unborn == {k \in Keys : ~row[k].born}

\* The four HTML pages that write.  The mixins, then get_object; no can_update here.
HtmlCreate(r, u, k, pay) ==
    /\ "create" \in get_urls(view) /\ html_gate(u) /\ k \in Unborn
    /\ Begin(r, "html", "CREATE", u, "session", {k}, pay)
HtmlUpdate(r, u, k, pay) ==
    /\ "update" \in get_urls(view) /\ html_gate(u)
    /\ in_scope(u, row[k]) /\ check_object_permission(u, row[k])
    /\ Begin(r, "html", "REPLACE", u, "session", {k}, pay)
HtmlDelete(r, u, k) ==
    /\ "delete" \in get_urls(view) /\ html_gate(u)
    /\ in_scope(u, row[k]) /\ check_object_permission(u, row[k])
    /\ Begin(r, "html", "DELETE", u, "session", {k}, NoPayload)

\* _CRUDBulkActionView.post: the route, the mixins and a declared action.
bulk_post(u, op) == "bulk" \in get_urls(view) /\ html_gate(u) /\ op \in view.bulk

\* A bulk delete that leaves out the object check of the single one.
BulkDeleteUnchecked(r, u, ids) ==
    /\ bulk_post(u, "DELETE")
    /\ Begin(r, "bulk", "DELETE", u, "session",
             {k \in ids : in_scope(u, row[k]) /\ can_delete(row[k])}, NoPayload)

\* _CRUDBulkActionView: one load for all the ids, then a verdict per row.
BulkDelete(r, u, ids) ==
    /\ bulk_post(u, "DELETE")
    /\ Begin(r, "bulk", "DELETE", u, "session",
             {k \in ids : /\ in_scope(u, row[k]) /\ can_delete(row[k])
                          /\ check_object_permission(u, row[k])}, NoPayload)

BulkUpdate(r, u, ids, pay) ==
    /\ bulk_post(u, "UPDATE")
    /\ pay.fields \subseteq can_bulk_update_fields
    /\ Begin(r, "bulk", "UPDATE", u, "session",
             {k \in ids : /\ in_scope(u, row[k]) /\ can_update(row[k])
                          /\ check_object_permission(u, row[k])}, pay)

\* _make_api_list_view POST, _make_api_detail_view PUT, PATCH and DELETE.
ApiCreate(r, u, cred, k, pay) ==
    /\ "list" \in build_api_urls(view) /\ check_api_permissions(u, cred, "POST")
    /\ "CREATE" \in view.actions /\ k \in Unborn
    /\ Begin(r, "rest", "CREATE", u, cred, {k}, pay)
ApiDetail(r, u, cred, method, k, pay) ==
    /\ "detail" \in build_api_urls(view) /\ check_api_permissions(u, cred, method)
    /\ in_scope(u, row[k]) /\ check_object_permission(u, row[k])
    /\ \/ /\ method \in {"PUT", "PATCH"} /\ "UPDATE" \in view.actions /\ can_update(row[k])
          /\ Begin(r, "rest", IF method = "PUT" THEN "REPLACE" ELSE "UPDATE", u, cred, {k}, pay)
       \/ /\ method = "DELETE" /\ "DELETE" \in view.actions /\ can_delete(row[k])
          /\ Begin(r, "rest", "DELETE", u, cred, {k}, NoPayload)

\* The REST bulk endpoints are POSTs, judged as a DELETE and as a PATCH.  The update does
\* not use merge_form_payload: it turns the row's values into strings, and a form that holds
\* a filled JSON field refuses its own value, so no row is written.
ApiBulkDelete(r, u, cred, ids) ==
    /\ "bulk-delete" \in build_api_urls(view) /\ check_api_permissions(u, cred, "DELETE")
    /\ Begin(r, "apibulk", "DELETE", u, cred,
             {k \in ids : /\ in_scope(u, row[k]) /\ can_delete(row[k])
                          /\ check_object_permission(u, row[k])}, NoPayload)
ApiBulkUpdate(r, u, cred, ids, pay) ==
    /\ "bulk-update" \in build_api_urls(view) /\ check_api_permissions(u, cred, "PATCH")
    /\ pay.fields \subseteq can_bulk_update_fields /\ ~view.json
    /\ Begin(r, "apibulk", "UPDATE", u, cred,
             {k \in ids : /\ in_scope(u, row[k]) /\ can_update(row[k])
                          /\ check_object_permission(u, row[k])}, pay)

\* tools/list shows what tools/call lets the token do; _fetch_one hides what the hook
\* refuses.
Writes == {"CREATE", "UPDATE", "DELETE"}
tools_list(u, cred) == {a \in mcp_tools(view) : check_tool_access(u, cred, a \in Writes)}
tools_call(u, cred, a) == a \in mcp_tools(view) /\ check_tool_access(u, cred, a \in Writes)
fetch_one(u, k) == in_scope(u, row[k]) /\ check_object_permission(u, row[k])
McpCreate(r, u, cred, k, pay) ==
    /\ tools_call(u, cred, "CREATE") /\ k \in Unborn
    /\ Begin(r, "mcp", "CREATE", u, cred, {k}, pay)
McpUpdate(r, u, cred, k, pay) ==
    /\ tools_call(u, cred, "UPDATE")
    /\ fetch_one(u, k) /\ can_update(row[k])
    /\ Begin(r, "mcp", "UPDATE", u, cred, {k}, pay)
McpDelete(r, u, cred, k) ==
    /\ tools_call(u, cred, "DELETE")
    /\ fetch_one(u, k) /\ can_delete(row[k])
    /\ Begin(r, "mcp", "DELETE", u, cred, {k}, NoPayload)

\* sc new, set, rm: the operator's shell.  Without --user nothing is scoped; the declared
\* actions and the object check play no part.
scoped(u, k) == row[k].live /\ (u # Nobody => in_scope(u, row[k]))
validate_write_fields(pay) == pay.fields \subseteq view.form
CliNew(r, u, k, pay) ==
    /\ check_write_permission(u) /\ validate_write_fields(pay) /\ k \in Unborn
    /\ Begin(r, "cli", "CREATE", u, "session", {k}, pay)
CliSet(r, u, k, pay) ==
    /\ check_write_permission(u) /\ validate_write_fields(pay)
    /\ scoped(u, k) /\ can_update(row[k])
    /\ Begin(r, "cli", "UPDATE", u, "session", {k}, pay)
CliRm(r, u, k) ==
    /\ check_write_permission(u) /\ scoped(u, k) /\ can_delete(row[k])
    /\ Begin(r, "cli", "DELETE", u, "session", {k}, NoPayload)

-----------------------------------------------------------------------------
(* Writing.                                                                *)

Entry(q, k) == [op |-> IF q.op = "REPLACE" THEN "UPDATE" ELSE q.op, key |-> k, by |-> q.by]

\* log_write: nobody leaves no entry.
log_write(q, k) == IF q.by = Nobody THEN {} ELSE {Entry(q, k)}

\* Programmatic transports log each row; the HTML pages log nothing, the HTML bulk
\* endpoint logs what succeeded, at the end (_audit_bulk_action).
PerRow == {"rest", "apibulk", "mcp", "cli"}
audit_bulk_action(q) == IF q.by = Nobody THEN {} ELSE {Entry(q, k) : k \in q.did}

\* The instance a form is bound to, and the values under the payload: the instance's own
\* for a partial update, the model's defaults for a scripted create, blanks for a page's form
\* and a PUT.
Instance(q, k) ==
    IF q.op = "CREATE"
    THEN [born |-> TRUE, live |-> TRUE, owner |-> q.by, note |-> Default.note, lock |-> Default.lock]
    ELSE [q.seen[k] EXCEPT !.live = TRUE]
Base(q, k) ==
    CASE q.op = "REPLACE" \/ q.via = "html" -> Blank
      [] q.op = "CREATE" /\ q.via # "html" -> Default
      [] OTHER -> q.seen[k]

\* Where a request stands after its row k.
RowDone(r, k) == [wire EXCEPT ![r].pc = "row", ![r].todo = @ \ {k}, ![r].did = @ \cup {k}]

\* form.save() and on_form_valid: every column of the instance as it was loaded, under the
\* form's; UPDATE-or-INSERT, so a row deleted meanwhile is back.
Save(r, k) ==
    LET q == wire[r] IN
    /\ q.pc = "row" /\ k \in q.todo /\ q.op # "DELETE"
    /\ q.op = "CREATE" => k \in Unborn
    /\ row' = [row EXCEPT ![k] = make_form(Instance(q, k), merge_form_payload(Base(q, k), q.pay))]
    /\ wrote' = wrote \cup {Entry(q, k)}
    /\ wire' = IF q.via \in PerRow THEN [wire EXCEPT ![r].pc = "log", ![r].cur = k] ELSE RowDone(r, k)
    /\ UNCHANGED <<view, trail>>

\* The entry after the save.
LogSave(r) ==
    LET q == wire[r] IN
    /\ q.pc = "log"
    /\ trail' = trail \cup log_write(q, q.cur)
    /\ wire' = RowDone(r, q.cur)
    /\ UNCHANGED <<view, row, wrote>>

\* The entry before the delete: log_write(DELETION) precedes obj.delete() in the REST view,
\* the REST bulk view, the MCP tool and sc rm.
LogDelete(r, k) ==
    LET q == wire[r] IN
    /\ q.pc = "row" /\ k \in q.todo /\ q.op = "DELETE" /\ q.via \in PerRow
    /\ trail' = trail \cup log_write(q, k)
    /\ wire' = [wire EXCEPT ![r].pc = "drop", ![r].cur = k]
    /\ UNCHANGED <<view, row, wrote>>

\* obj.delete(): a protected row stays; a row already gone is no error.
Drop(r, k) ==
    LET q == wire[r] IN
    /\ \/ q.pc = "drop" /\ k = q.cur
       \/ q.pc = "row" /\ k \in q.todo /\ q.op = "DELETE" /\ q.via \notin PerRow
    /\ IF k \in Linked
       THEN /\ wrote' = wrote \cup {[Entry(q, k) EXCEPT !.op = "KEPT"]}
            /\ wire' = [wire EXCEPT ![r].pc = "row", ![r].todo = @ \ {k}]
            /\ UNCHANGED row
       ELSE /\ row' = [row EXCEPT ![k].live = FALSE]
            /\ wrote' = wrote \cup {Entry(q, k)}
            /\ wire' = RowDone(r, k)
    /\ UNCHANGED <<view, trail>>

\* The answer; the HTML bulk endpoint writes its entries now.
Finish(r) ==
    LET q == wire[r] IN
    /\ q.pc = "row" /\ q.todo = {}
    /\ trail' = trail \cup (IF q.via = "bulk" THEN audit_bulk_action(q) ELSE {})
    /\ wire' = [wire EXCEPT ![r].pc = "answered"]
    /\ UNCHANGED <<view, row, wrote>>

\* The process serving the request is killed.  Every statement is its own transaction.
Die(r) ==
    LET q == wire[r] IN
    /\ q.pc \in {"row", "log", "drop"}
    /\ wrote' = IF q.pc = "drop" THEN wrote \cup {[Entry(q, q.cur) EXCEPT !.op = "KEPT"]} ELSE wrote
    /\ wire' = [wire EXCEPT ![r] = [pc |-> "dead"]]
    /\ UNCHANGED <<view, row, trail>>

Init ==
    /\ view \in ProjectViews \cup ExplorerViews
    /\ row = [k \in Keys |-> [born |-> k \in Born, live |-> k \in Born, owner |-> Owner,
                              note |-> 0, lock |-> FALSE]]
    /\ wire = [r \in Requests |-> Idle]
    /\ trail = {} /\ wrote = {}

Waiting == {r \in Requests : wire[r].pc = "idle"}

Next ==
    \/ \E r \in Waiting, u \in Users \cup {Nobody}, k \in Keys :
         \/ \E pay \in Payloads :
              \/ HtmlCreate(r, u, k, pay) \/ HtmlUpdate(r, u, k, pay)
              \/ CliNew(r, u, k, pay) \/ CliSet(r, u, k, pay)
              \/ \E cred \in Credentials :
                   \/ ApiCreate(r, u, cred, k, pay)
                   \/ \E m \in {"PUT", "PATCH"} : ApiDetail(r, u, cred, m, k, pay)
                   \/ McpCreate(r, u, cred, k, pay) \/ McpUpdate(r, u, cred, k, pay)
         \/ HtmlDelete(r, u, k) \/ CliRm(r, u, k)
         \/ \E cred \in Credentials : ApiDetail(r, u, cred, "DELETE", k, NoPayload) \/ McpDelete(r, u, cred, k)
    \/ \E r \in Waiting, u \in Users \cup {Nobody}, ids \in SUBSET Keys :
         \/ BulkDelete(r, u, ids)
         \/ \E cred \in Credentials : ApiBulkDelete(r, u, cred, ids)
         \/ \E pay \in Payloads :
              \/ BulkUpdate(r, u, ids, pay)
              \/ \E cred \in Credentials : ApiBulkUpdate(r, u, cred, ids, pay)
    \/ \E r \in Requests : LogSave(r) \/ Finish(r) \/ Die(r)
    \/ \E r \in Requests, k \in Keys : Save(r, k) \/ LogDelete(r, k) \/ Drop(r, k)

Spec == Init /\ [][Next]_vars

-----------------------------------------------------------------------------
(* Properties.                                                             *)

\* What a write of row k by request q takes, whichever way it came in: staff where the view
\* is staff's, no read-only token, a signed-in caller unless the view is public or the
\* caller is the operator, a row that was the caller's when it was loaded, not a locked one
\* (the HTML edit and delete pages alone ignore the lock), and a declared action.
Permitted(q, k) ==
    LET op == Entry(q, k).op
        old == q.op # "CREATE"
        operator == q.via = "cli" /\ q.by = Nobody IN
    /\ resolved_mixins(view) = "staff" => q.by \in Staff
    /\ ~q.ro
    /\ q.by = Nobody => operator \/ (resolved_mixins(view) = "none" /\ q.via \in {"html", "bulk"})
    /\ old /\ view.scope = "own" => operator \/ q.seen[k].owner = q.by
    /\ old /\ view.hook = "own" => q.via = "cli" \/ q.seen[k].owner = q.by
    /\ old /\ view.veto => q.via = "html" \/ ~q.seen[k].lock
    /\ q.via \in {"html", "rest", "mcp"} => op \in view.actions
    /\ q.via \in {"bulk", "apibulk"} => op \in view.bulk

\* Every transport enforces the same declaration: a row changes only by a request that is
\* permitted to change it (crud.py, api.py, mcp/factory.py, sc.py).
TransportsAgree ==
    [][\A k \in Keys : row'[k] # row[k] =>
         \E r \in Requests : /\ wire'[r] # wire[r] /\ wire[r].pc \in {"row", "drop"}
                             /\ k \in wire[r].todo /\ Permitted(wire[r], k)]_vars

\* The audit trail says what was done.  A programmatic or bulk request that has answered has
\* an entry for every row it wrote.  An entry of an addition or a change is of one that was
\* made; an entry of a deletion is of one that was made, is about to be, or failed after it
\* was logged: log_write(DELETION) comes before obj.delete().
TrailTrue ==
    /\ \A r \in Requests : wire[r].pc = "answered" =>
         wire[r].via = "html" \/ \A k \in wire[r].did : log_write(wire[r], k) \subseteq trail
    /\ \A e \in trail :
         \/ e \in wrote
         \/ e.op = "DELETE" /\ [e EXCEPT !.op = "KEPT"] \in wrote
         \/ \E r \in Requests : wire[r].pc = "drop" /\ Entry(wire[r], wire[r].cur) = e

\* What is advertised is what is served: the OpenAPI paths, the OPTIONS methods and the MCP
\* tools agree on the writes, a token that may write through MCP may through REST, and
\* every link of a page has a route.
AdvertisedIsServed ==
    /\ {p[2] : p \in build_crud_paths(view)} = get_methods_from_actions(view)
    /\ \A u \in Users, cred \in Tokens : \A a \in tools_list(u, cred) :
         tools_call(u, cred, a) /\ a \in view.actions
    /\ \A u \in Users, cred \in Tokens, write \in BOOLEAN :
         check_tool_access(u, cred, write) => check_api_permissions(u, cred, IF write THEN "POST" ELSE "GET")
    /\ \A u \in Users : resolved_mixins(view) # "none" =>
         (html_gate(u) <=> check_api_permissions(u, "session", "POST"))
    /\ "LIST" \in view.actions =>
         /\ list_page(view) \cup related_tab(view) \subseteq get_urls(view)
         /\ "DETAIL" \in view.actions => detail_page(view) \subseteq get_urls(view)
         /\ "UPDATE" \in view.actions => update_success_url(view) \in get_urls(view)

\* A column the form leaves out keeps the value it was born with, whatever is sent.
FormHolds ==
    "lock" \notin view.form =>
        \A k \in Keys : row[k].lock = (row[k].born /\ k \notin Born /\ Default.lock)

=============================================================================
