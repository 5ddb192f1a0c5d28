----------------------------- MODULE CrudProofs -----------------------------
(***************************************************************************)
(* Proofs about what MCCrud composes.  CrudTransports, for any view, rows, *)
(* users and requests: a row changes only by a permitted request, whatever *)
(* the transport; the audit trail is true; a form keeps to its columns;    *)
(* what is advertised is served.  ApprovalQueue, for any accounts, kinds   *)
(* and routings: the surfaces agree.  Datasets, for any definitions: each  *)
(* has its tool.  Doctors, for any installation: no test leaves its token. *)
(* ActivityLog, for any requests and size: a prune keeps the newest rows.  *)
(***************************************************************************)
EXTENDS MCCrud, TLAPS, FiniteSetTheorems, WellFoundedInduction

----------------------------------------------------------------------------
(* Types.                                                                  *)

Rec == [born : BOOLEAN, live : BOOLEAN, owner : Users \cup {Owner, Crud!Nobody},
        note : Nat, lock : BOOLEAN]
Sent == [fields : SUBSET {"note", "lock"}, note : Nat, lock : BOOLEAN]
Seen == UNION {[S -> Rec] : S \in SUBSET RowKeys}
Gone == [pc |-> "dead"]
Served ==
    [pc : {"row", "log", "drop", "answered"}, via : Crud!PerRow \cup {"html", "bulk"},
     op : {"CREATE", "REPLACE", "UPDATE", "DELETE"}, by : Users \cup {Crud!Nobody}, ro : BOOLEAN,
     todo : SUBSET RowKeys, seen : Seen, pay : Sent, cur : RowKeys \cup {0}, did : SUBSET RowKeys]

CrudTyped ==
    /\ view \in Declarations /\ row \in [RowKeys -> Rec]
    /\ wire \in [Requests -> Served \cup {Crud!Idle, Gone}]

Busy(q) == q.pc \in {"row", "log", "drop"}

\* A row that is there was born, and so were those there were at the start.
RowsSane == \A k \in RowKeys : (row[k].live => row[k].born) /\ (k \in Born => row[k].born)

\* What a view v asks of a write of a row rec by a request that came in via a transport: what
\* Permitted says of a request in flight.
Allowed(v, via, op, by, ro, rec) ==
    LET act == IF op = "REPLACE" THEN "UPDATE" ELSE op
        operator == via = "cli" /\ by = Crud!Nobody IN
    /\ Crud!resolved_mixins(v) = "staff" => by \in Staff
    /\ ~ro
    /\ by = Crud!Nobody => operator \/ (Crud!resolved_mixins(v) = "none" /\ via \in {"html", "bulk"})
    /\ op # "CREATE" /\ v.scope = "own" => operator \/ rec.owner = by
    /\ op # "CREATE" /\ v.hook = "own" => via = "cli" \/ rec.owner = by
    /\ op # "CREATE" /\ v.veto => via = "html" \/ ~rec.lock
    /\ via \in {"html", "rest", "mcp"} => act \in v.actions
    /\ via \in {"bulk", "apibulk"} => act \in v.bulk

\* Where a request q stands between its statements, with the table's history w and the trail
\* t: what it may still write it is allowed to, and as it was read a column the form leaves
\* out had its first value; what it has written is in the history and, if it logs row by row
\* or has answered for all of them, in the trail.
Sane(v, w, t, q) ==
    /\ Busy(q) => \A k \in q.todo :
         /\ k \in DOMAIN q.seen /\ Allowed(v, q.via, q.op, q.by, q.ro, q.seen[k])
         /\ q.op = "CREATE" => k \notin Born
         /\ q.op # "CREATE" => /\ q.seen[k].born
                               /\ "lock" \notin v.form => (q.seen[k].lock <=> k \notin Born)
    /\ q.pc = "drop" => q.cur \in q.todo /\ q.op = "DELETE" /\ Crud!log_write(q, q.cur) \subseteq t
    /\ q.pc = "log" => q.cur \in q.todo /\ q.op # "DELETE" /\ Crud!Entry(q, q.cur) \in w
    /\ Busy(q) \/ q.pc = "answered" =>
         \A k \in q.did : /\ Crud!Entry(q, k) \in w
                          /\ q.via \in Crud!PerRow \/ (q.via = "bulk" /\ q.pc = "answered")
                             => Crud!log_write(q, k) \subseteq t

\* Every entry of the trail is of a write that was made, or of a deletion that was to be.
TrailBacked ==
    \A e \in trail :
        \/ e \in wrote
        \/ e.op = "DELETE" /\ [e EXCEPT !.op = "KEPT"] \in wrote
        \/ \E r \in Requests : wire[r].pc = "drop" /\ Crud!Entry(wire[r], wire[r].cur) = e

CrudInv ==
    /\ CrudTyped /\ RowsSane /\ Crud!FormHolds /\ TrailBacked
    /\ \A r \in Requests : Sane(view, wrote, trail, wire[r])

----------------------------------------------------------------------------
(* Which views there are, and what their routes say of them.               *)

\* The Explorer's views are declarations like a project's.
LEMMA ViewsAreDeclared == ProjectViews \cup Crud!ExplorerViews \subseteq Declarations
<1>1. ASSUME NEW ro \in BOOLEAN, NEW bulk \in SUBSET {"DELETE", "UPDATE"}
      PROVE  Crud!build_one(ro, bulk) \in Declarations
  <2>1. {"LIST", "DETAIL"} \in SUBSET Crud!Actions
    BY DEF Crud!Actions
  <2> QED BY <2>1 DEF Crud!build_one, Declarations
<1>2. \A d : Crud!resolve_bulk_actions(d) \in SUBSET {"DELETE", "UPDATE"}
  BY DEF Crud!resolve_bulk_actions
<1> QED BY <1>1, <1>2, CrudAssumption DEF Crud!ExplorerViews

\* The routes that write are there for declared actions alone.
LEMMA RoutesAreDeclared ==
    ASSUME NEW v \in Declarations
    PROVE  /\ "create" \in Crud!get_urls(v) => "CREATE" \in v.actions
           /\ "update" \in Crud!get_urls(v) => "UPDATE" \in v.actions
           /\ "delete" \in Crud!get_urls(v) => "DELETE" \in v.actions
           /\ "bulk-delete" \in Crud!build_api_urls(v) => "DELETE" \in v.bulk
           /\ "bulk-update" \in Crud!build_api_urls(v) => "UPDATE" \in v.bulk
BY DEF Crud!get_urls, Crud!build_api_urls

\* Whose mixins ask for what.
LEMMA MixinsResolved ==
    ASSUME NEW v \in Declarations
    PROVE  /\ Crud!resolved_mixins(v) \in {"none", "login", "staff"}
           /\ Crud!resolved_mixins(v) = "staff" <=> v.mixins = "staff"
BY DEF Declarations, Crud!resolved_mixins

----------------------------------------------------------------------------
(* The transports: whatever a request is let in to do, it is permitted.    *)

\* A request that was let in: it has done nothing yet and may do all it set out for.
Begun(r) ==
    \E via \in Crud!PerRow \cup {"html", "bulk"}, op \in {"CREATE", "REPLACE", "UPDATE", "DELETE"},
       u \in Users \cup {Crud!Nobody}, cred \in Crud!Credentials, ks \in SUBSET RowKeys, pay \in Sent :
        /\ Crud!Begin(r, via, op, u, cred, ks, pay)
        /\ \A k \in ks : /\ Allowed(view, via, op, u, cred = "readonly", row[k])
                         /\ op = "CREATE" => k \in Crud!Unborn
                         /\ op # "CREATE" => row[k].live

\* Payloads are payloads.
LEMMA PayloadsAreSent == Crud!Payloads \subseteq Sent /\ Crud!NoPayload \in Sent
BY DEF Crud!Payloads, Crud!NoPayload, Sent

\* One row, or none for a request that is to write several.
LEMMA BegunBy ==
    ASSUME NEW r, NEW via \in Crud!PerRow \cup {"html", "bulk"},
           NEW op \in {"CREATE", "REPLACE", "UPDATE", "DELETE"}, NEW u \in Users \cup {Crud!Nobody},
           NEW cred \in Crud!Credentials, NEW ks \in SUBSET RowKeys, NEW pay \in Sent,
           Crud!Begin(r, via, op, u, cred, ks, pay),
           \A k \in ks : /\ Allowed(view, via, op, u, cred = "readonly", row[k])
                         /\ op = "CREATE" => k \in Crud!Unborn
                         /\ op # "CREATE" => row[k].live
    PROVE  Begun(r)
BY DEF Begun

\* The mixins in front of every page.
LEMMA GateHolds ==
    ASSUME CrudTyped, NEW u, Crud!html_gate(u)
    PROVE  /\ Crud!resolved_mixins(view) = "staff" => u \in Staff
           /\ u = Crud!Nobody => Crud!resolved_mixins(view) = "none"
<1>1. view \in Declarations /\ Crud!Nobody \notin Staff
  BY CrudAssumption DEF CrudTyped
<1>2. Crud!resolved_mixins(view) \in {"none", "login", "staff"}
  BY <1>1, MixinsResolved
<1>3. /\ Crud!resolved_mixins(view) = "login" => u # Crud!Nobody
      /\ Crud!resolved_mixins(view) = "staff" => u \in Staff
  BY DEF Crud!html_gate
<1> QED BY <1>1, <1>2, <1>3

\* A session is not a token.
LEMMA SessionWrites == "session" \in Crud!Credentials /\ ("session" = "readonly") = FALSE
BY DEF Crud!Credentials

\* The four pages.
LEMMA PagesBegin ==
    ASSUME CrudTyped, NEW r \in Requests, NEW u \in Users \cup {Crud!Nobody}, NEW k \in RowKeys,
           NEW pay \in Crud!Payloads,
           Crud!HtmlCreate(r, u, k, pay) \/ Crud!HtmlUpdate(r, u, k, pay) \/ Crud!HtmlDelete(r, u, k)
    PROVE  Begun(r)
<1>1. Crud!html_gate(u) => /\ Crud!resolved_mixins(view) = "staff" => u \in Staff
                           /\ u = Crud!Nobody => Crud!resolved_mixins(view) = "none"
  BY GateHolds
<1>2. /\ "session" \in Crud!Credentials /\ {k} \in SUBSET RowKeys /\ \A x \in {k} : x = k
      /\ "html" \in Crud!PerRow \cup {"html", "bulk"} /\ pay \in Sent /\ Crud!NoPayload \in Sent
  BY SessionWrites, PayloadsAreSent
<1>3. CASE Crud!HtmlCreate(r, u, k, pay)
  <2>1. Allowed(view, "html", "CREATE", u, "session" = "readonly", row[k])
    BY <1>1, <1>3, RoutesAreDeclared DEF CrudTyped, Crud!HtmlCreate, Allowed
  <2>2. Crud!Begin(r, "html", "CREATE", u, "session", {k}, pay) /\ k \in Crud!Unborn
    BY <1>3 DEF Crud!HtmlCreate
  <2> DEFINE ks == {k}
             via == "html"
  <2>3. ks \in SUBSET RowKeys /\ (\A x \in ks : x = k) /\ via \in Crud!PerRow \cup {"html", "bulk"}
    OBVIOUS
  <2>4. /\ Crud!Begin(r, via, "CREATE", u, "session", ks, pay)
        /\ \A x \in ks : Allowed(view, via, "CREATE", u, "session" = "readonly", row[x]) /\ x \in Crud!Unborn
    BY <2>1, <2>2, <2>3
  <2> HIDE DEF ks, via
  <2> QED BY <1>2, <2>3, <2>4, BegunBy
<1>4. CASE Crud!HtmlUpdate(r, u, k, pay)
  <2>1. Allowed(view, "html", "REPLACE", u, "session" = "readonly", row[k]) /\ row[k].live
    BY <1>1, <1>4, RoutesAreDeclared
    DEF CrudTyped, Crud!HtmlUpdate, Allowed, Crud!in_scope, Crud!check_object_permission
  <2>2. Crud!Begin(r, "html", "REPLACE", u, "session", {k}, pay)
    BY <1>4 DEF Crud!HtmlUpdate
  <2> DEFINE ks == {k}
             via == "html"
  <2>3. ks \in SUBSET RowKeys /\ (\A x \in ks : x = k) /\ via \in Crud!PerRow \cup {"html", "bulk"}
    OBVIOUS
  <2>4. /\ Crud!Begin(r, via, "REPLACE", u, "session", ks, pay)
        /\ \A x \in ks : Allowed(view, via, "REPLACE", u, "session" = "readonly", row[x]) /\ row[x].live
    BY <2>1, <2>2, <2>3
  <2> HIDE DEF ks, via
  <2> QED BY <1>2, <2>3, <2>4, BegunBy
<1>5. CASE Crud!HtmlDelete(r, u, k)
  <2>1. Allowed(view, "html", "DELETE", u, "session" = "readonly", row[k]) /\ row[k].live
    BY <1>1, <1>5, RoutesAreDeclared
    DEF CrudTyped, Crud!HtmlDelete, Allowed, Crud!in_scope, Crud!check_object_permission
  <2>2. Crud!Begin(r, "html", "DELETE", u, "session", {k}, Crud!NoPayload)
    BY <1>5 DEF Crud!HtmlDelete
  <2> DEFINE ks == {k}
             via == "html"
  <2>3. ks \in SUBSET RowKeys /\ (\A x \in ks : x = k) /\ via \in Crud!PerRow \cup {"html", "bulk"}
    OBVIOUS
  <2>4. /\ Crud!Begin(r, via, "DELETE", u, "session", ks, Crud!NoPayload)
        /\ \A x \in ks : Allowed(view, via, "DELETE", u, "session" = "readonly", row[x]) /\ row[x].live
    BY <2>1, <2>2, <2>3
  <2> HIDE DEF ks, via
  <2> QED BY <1>2, <2>3, <2>4, BegunBy
<1> QED BY <1>3, <1>4, <1>5

\* The bulk endpoint of the list page.
LEMMA BulkBegins ==
    ASSUME CrudTyped, NEW r \in Requests, NEW u \in Users \cup {Crud!Nobody}, NEW ids \in SUBSET RowKeys,
           NEW pay \in Crud!Payloads, Crud!BulkDelete(r, u, ids) \/ Crud!BulkUpdate(r, u, ids, pay)
    PROVE  Begun(r)
<1>1. Crud!html_gate(u) => /\ Crud!resolved_mixins(view) = "staff" => u \in Staff
                           /\ u = Crud!Nobody => Crud!resolved_mixins(view) = "none"
  BY GateHolds
<1>2. /\ "session" \in Crud!Credentials /\ "bulk" \in Crud!PerRow \cup {"html", "bulk"}
      /\ pay \in Sent /\ Crud!NoPayload \in Sent
  BY SessionWrites, PayloadsAreSent
<1>3. CASE Crud!BulkDelete(r, u, ids)
  <2> DEFINE ks == {k \in ids : /\ Crud!in_scope(u, row[k]) /\ Crud!can_delete(row[k])
                                /\ Crud!check_object_permission(u, row[k])}
  <2>1. \A k \in ks : Allowed(view, "bulk", "DELETE", u, "session" = "readonly", row[k]) /\ row[k].live
    BY <1>1, <1>3 DEF Crud!BulkDelete, Crud!bulk_post, Allowed, Crud!in_scope,
                      Crud!check_object_permission, Crud!can_delete
  <2>2. Crud!Begin(r, "bulk", "DELETE", u, "session", ks, Crud!NoPayload) /\ ks \in SUBSET RowKeys
    BY <1>3 DEF Crud!BulkDelete
  <2> HIDE DEF ks
  <2> QED BY <1>2, <2>1, <2>2, BegunBy
<1>4. CASE Crud!BulkUpdate(r, u, ids, pay)
  <2> DEFINE ks == {k \in ids : /\ Crud!in_scope(u, row[k]) /\ Crud!can_update(row[k])
                                /\ Crud!check_object_permission(u, row[k])}
  <2>1. \A k \in ks : Allowed(view, "bulk", "UPDATE", u, "session" = "readonly", row[k]) /\ row[k].live
    BY <1>1, <1>4 DEF Crud!BulkUpdate, Crud!bulk_post, Allowed, Crud!in_scope,
                      Crud!check_object_permission, Crud!can_update
  <2>2. Crud!Begin(r, "bulk", "UPDATE", u, "session", ks, pay) /\ ks \in SUBSET RowKeys
    BY <1>4 DEF Crud!BulkUpdate
  <2> HIDE DEF ks
  <2> QED BY <1>2, <2>1, <2>2, BegunBy
<1> QED BY <1>3, <1>4

\* A token or session that may write over REST.
LEMMA RestHolds ==
    ASSUME NEW u, NEW cred, NEW method, method # "GET", Crud!check_api_permissions(u, cred, method)
    PROVE  /\ u # Crud!Nobody /\ ~(cred = "readonly")
           /\ Crud!resolved_mixins(view) = "staff" => u \in Staff
BY DEF Crud!check_api_permissions

\* The REST resource.
LEMMA RestBegins ==
    ASSUME CrudTyped, NEW r \in Requests, NEW u \in Users \cup {Crud!Nobody}, NEW k \in RowKeys,
           NEW cred \in Crud!Credentials, NEW m \in {"PUT", "PATCH", "DELETE"}, NEW pay \in Sent,
           Crud!ApiCreate(r, u, cred, k, pay) \/ Crud!ApiDetail(r, u, cred, m, k, pay)
    PROVE  Begun(r)
<1>1. {k} \in SUBSET RowKeys /\ "rest" \in Crud!PerRow \cup {"html", "bulk"} /\ Crud!NoPayload \in Sent
  BY PayloadsAreSent DEF Crud!PerRow
<1>2. CASE Crud!ApiCreate(r, u, cred, k, pay)
  <2>1. Allowed(view, "rest", "CREATE", u, cred = "readonly", row[k])
    BY <1>2, RestHolds DEF Crud!ApiCreate, Allowed
  <2>2. Crud!Begin(r, "rest", "CREATE", u, cred, {k}, pay) /\ k \in Crud!Unborn
    BY <1>2 DEF Crud!ApiCreate
  <2> QED BY <1>1, <2>1, <2>2, BegunBy
<1>3. CASE Crud!ApiDetail(r, u, cred, m, k, pay)
  <2>1. /\ u # Crud!Nobody /\ ~(cred = "readonly")
        /\ Crud!resolved_mixins(view) = "staff" => u \in Staff
    BY <1>3, RestHolds DEF Crud!ApiDetail
  <2>2. /\ row[k].live /\ (view.scope = "own" => row[k].owner = u)
        /\ view.hook = "own" => row[k].owner = u
    BY <1>3 DEF Crud!ApiDetail, Crud!in_scope, Crud!check_object_permission
  <2>3. CASE m \in {"PUT", "PATCH"}
    <3> DEFINE op == IF m = "PUT" THEN "REPLACE" ELSE "UPDATE"
    <3>1. Allowed(view, "rest", op, u, cred = "readonly", row[k])
      BY <1>3, <2>1, <2>2, <2>3 DEF Crud!ApiDetail, Allowed, Crud!can_update
    <3>2. Crud!Begin(r, "rest", op, u, cred, {k}, pay)
      BY <1>3, <2>3 DEF Crud!ApiDetail
    <3>3. op \in {"REPLACE", "UPDATE"}
      OBVIOUS
    <3> HIDE DEF op
    <3> QED BY <1>1, <2>2, <3>1, <3>2, <3>3, BegunBy
  <2>4. CASE m = "DELETE"
    <3>1. Allowed(view, "rest", "DELETE", u, cred = "readonly", row[k])
      BY <1>3, <2>1, <2>2, <2>4 DEF Crud!ApiDetail, Allowed, Crud!can_delete
    <3>2. Crud!Begin(r, "rest", "DELETE", u, cred, {k}, Crud!NoPayload)
      BY <1>3, <2>4 DEF Crud!ApiDetail
    <3> QED BY <1>1, <2>2, <3>1, <3>2, BegunBy
  <2> QED BY <2>3, <2>4
<1> QED BY <1>2, <1>3

\* The REST bulk endpoints.
LEMMA ApiBulkBegins ==
    ASSUME CrudTyped, NEW r \in Requests, NEW u \in Users \cup {Crud!Nobody}, NEW ids \in SUBSET RowKeys,
           NEW cred \in Crud!Credentials, NEW pay \in Crud!Payloads,
           Crud!ApiBulkDelete(r, u, cred, ids) \/ Crud!ApiBulkUpdate(r, u, cred, ids, pay)
    PROVE  Begun(r)
<1>1. /\ "apibulk" \in Crud!PerRow \cup {"html", "bulk"} /\ pay \in Sent /\ Crud!NoPayload \in Sent
      /\ view \in Declarations
  BY PayloadsAreSent DEF Crud!PerRow, CrudTyped
<1>2. CASE Crud!ApiBulkDelete(r, u, cred, ids)
  <2> DEFINE ks == {k \in ids : /\ Crud!in_scope(u, row[k]) /\ Crud!can_delete(row[k])
                                /\ Crud!check_object_permission(u, row[k])}
  <2>1. \A k \in ks : Allowed(view, "apibulk", "DELETE", u, cred = "readonly", row[k]) /\ row[k].live
    BY <1>1, <1>2, RestHolds, RoutesAreDeclared
    DEF Crud!ApiBulkDelete, Allowed, Crud!in_scope, Crud!check_object_permission, Crud!can_delete
  <2>2. Crud!Begin(r, "apibulk", "DELETE", u, cred, ks, Crud!NoPayload) /\ ks \in SUBSET RowKeys
    BY <1>2 DEF Crud!ApiBulkDelete
  <2> HIDE DEF ks
  <2> QED BY <1>1, <2>1, <2>2, BegunBy
<1>3. CASE Crud!ApiBulkUpdate(r, u, cred, ids, pay)
  <2> DEFINE ks == {k \in ids : /\ Crud!in_scope(u, row[k]) /\ Crud!can_update(row[k])
                                /\ Crud!check_object_permission(u, row[k])}
  <2>1. \A k \in ks : Allowed(view, "apibulk", "UPDATE", u, cred = "readonly", row[k]) /\ row[k].live
    BY <1>1, <1>3, RestHolds, RoutesAreDeclared
    DEF Crud!ApiBulkUpdate, Allowed, Crud!in_scope, Crud!check_object_permission, Crud!can_update
  <2>2. Crud!Begin(r, "apibulk", "UPDATE", u, cred, ks, pay) /\ ks \in SUBSET RowKeys
    BY <1>3 DEF Crud!ApiBulkUpdate
  <2> HIDE DEF ks
  <2> QED BY <1>1, <2>1, <2>2, BegunBy
<1> QED BY <1>2, <1>3

\* A tool call that may write.
LEMMA ToolHolds ==
    ASSUME NEW u, NEW cred, NEW a \in {"CREATE", "UPDATE", "DELETE"}, Crud!tools_call(u, cred, a)
    PROVE  /\ u # Crud!Nobody /\ ~(cred = "readonly") /\ a \in view.actions
           /\ Crud!resolved_mixins(view) = "staff" => u \in Staff
<1>1. a \in Crud!Writes /\ Crud!check_tool_access(u, cred, TRUE)
  BY DEF Crud!Writes, Crud!tools_call
<1> QED BY <1>1 DEF Crud!tools_call, Crud!check_tool_access, Crud!mcp_tools

\* The MCP tools.
LEMMA McpBegins ==
    ASSUME CrudTyped, NEW r \in Requests, NEW u \in Users \cup {Crud!Nobody}, NEW k \in RowKeys,
           NEW cred \in Crud!Credentials, NEW pay \in Crud!Payloads,
           \/ Crud!McpCreate(r, u, cred, k, pay) \/ Crud!McpUpdate(r, u, cred, k, pay)
           \/ Crud!McpDelete(r, u, cred, k)
    PROVE  Begun(r)
<1>1. /\ {k} \in SUBSET RowKeys /\ "mcp" \in Crud!PerRow \cup {"html", "bulk"}
      /\ pay \in Sent /\ Crud!NoPayload \in Sent
  BY PayloadsAreSent DEF Crud!PerRow
<1>2. CASE Crud!McpCreate(r, u, cred, k, pay)
  <2>1. Allowed(view, "mcp", "CREATE", u, cred = "readonly", row[k])
    BY <1>2, ToolHolds DEF Crud!McpCreate, Allowed
  <2>2. Crud!Begin(r, "mcp", "CREATE", u, cred, {k}, pay) /\ k \in Crud!Unborn
    BY <1>2 DEF Crud!McpCreate
  <2> QED BY <1>1, <2>1, <2>2, BegunBy
<1>3. CASE Crud!McpUpdate(r, u, cred, k, pay)
  <2>1. Allowed(view, "mcp", "UPDATE", u, cred = "readonly", row[k]) /\ row[k].live
    BY <1>3, ToolHolds DEF Crud!McpUpdate, Allowed, Crud!fetch_one, Crud!in_scope,
                           Crud!check_object_permission, Crud!can_update
  <2>2. Crud!Begin(r, "mcp", "UPDATE", u, cred, {k}, pay)
    BY <1>3 DEF Crud!McpUpdate
  <2> QED BY <1>1, <2>1, <2>2, BegunBy
<1>4. CASE Crud!McpDelete(r, u, cred, k)
  <2>1. Allowed(view, "mcp", "DELETE", u, cred = "readonly", row[k]) /\ row[k].live
    BY <1>4, ToolHolds DEF Crud!McpDelete, Allowed, Crud!fetch_one, Crud!in_scope,
                           Crud!check_object_permission, Crud!can_delete
  <2>2. Crud!Begin(r, "mcp", "DELETE", u, cred, {k}, Crud!NoPayload)
    BY <1>4 DEF Crud!McpDelete
  <2> QED BY <1>1, <2>1, <2>2, BegunBy
<1> QED BY <1>2, <1>3, <1>4

\* The operator's shell.
LEMMA CliBegins ==
    ASSUME CrudTyped, NEW r \in Requests, NEW u \in Users \cup {Crud!Nobody}, NEW k \in RowKeys,
           NEW pay \in Crud!Payloads,
           Crud!CliNew(r, u, k, pay) \/ Crud!CliSet(r, u, k, pay) \/ Crud!CliRm(r, u, k)
    PROVE  Begun(r)
<1>1. /\ {k} \in SUBSET RowKeys /\ "cli" \in Crud!PerRow \cup {"html", "bulk"}
      /\ pay \in Sent /\ Crud!NoPayload \in Sent /\ "session" \in Crud!Credentials
  BY PayloadsAreSent, SessionWrites DEF Crud!PerRow
<1>2. Crud!check_write_permission(u) => (Crud!resolved_mixins(view) = "staff" => u \in Staff)
  BY MixinsResolved DEF CrudTyped, Crud!check_write_permission
<1>3. CASE Crud!CliNew(r, u, k, pay)
  <2>1. Allowed(view, "cli", "CREATE", u, "session" = "readonly", row[k])
    BY <1>2, <1>3 DEF Crud!CliNew, Allowed
  <2>2. Crud!Begin(r, "cli", "CREATE", u, "session", {k}, pay) /\ k \in Crud!Unborn
    BY <1>3 DEF Crud!CliNew
  <2> QED BY <1>1, <2>1, <2>2, BegunBy
<1>4. CASE Crud!CliSet(r, u, k, pay)
  <2>1. Allowed(view, "cli", "UPDATE", u, "session" = "readonly", row[k]) /\ row[k].live
    BY <1>2, <1>4 DEF Crud!CliSet, Allowed, Crud!scoped, Crud!in_scope, Crud!can_update
  <2>2. Crud!Begin(r, "cli", "UPDATE", u, "session", {k}, pay)
    BY <1>4 DEF Crud!CliSet
  <2> QED BY <1>1, <2>1, <2>2, BegunBy
<1>5. CASE Crud!CliRm(r, u, k)
  <2>1. Allowed(view, "cli", "DELETE", u, "session" = "readonly", row[k]) /\ row[k].live
    BY <1>2, <1>5 DEF Crud!CliRm, Allowed, Crud!scoped, Crud!in_scope, Crud!can_delete
  <2>2. Crud!Begin(r, "cli", "DELETE", u, "session", {k}, Crud!NoPayload)
    BY <1>5 DEF Crud!CliRm
  <2>3. "DELETE" # "CREATE" /\ "DELETE" \in {"CREATE", "REPLACE", "UPDATE", "DELETE"}
    OBVIOUS
  <2>4. \A x \in {k} : /\ Allowed(view, "cli", "DELETE", u, "session" = "readonly", row[x])
                       /\ "DELETE" = "CREATE" => x \in Crud!Unborn
                       /\ "DELETE" # "CREATE" => row[x].live
    BY <2>1, <2>3
  <2> QED BY <1>1, <2>2, <2>3, <2>4, BegunBy
<1> QED BY <1>3, <1>4, <1>5

----------------------------------------------------------------------------
(* A request in flight: how its statements move it.                        *)

\* At statement pc, about row k; past row k, which it has written or left.
At(q, pc, k) == [q EXCEPT !.pc = pc, !.cur = k]
Done(q, k) == [q EXCEPT !.pc = "row", !.todo = @ \ {k}, !.did = @ \cup {k}]
Left(q, k) == [q EXCEPT !.pc = "row", !.todo = @ \ {k}]

LEMMA MovesAreServed ==
    ASSUME NEW q \in Served, NEW k \in RowKeys
    PROVE  /\ \A pc \in {"log", "drop"} : At(q, pc, k) \in Served
           /\ Done(q, k) \in Served /\ Left(q, k) \in Served
           /\ [q EXCEPT !.pc = "answered"] \in Served
<1>1. q.todo \ {k} \in SUBSET RowKeys /\ q.did \cup {k} \in SUBSET RowKeys
  BY DEF Served
<1>2. \A pc \in {"log", "drop"} : At(q, pc, k) \in Served
  BY DEF Served, At
<1>3. Left(q, k) \in Served
  BY <1>1 DEF Served, Left
<1>4. Done(q, k) \in Served
  BY <1>1 DEF Served, Done
<1> QED BY <1>2, <1>3, <1>4 DEF Served

\* The same, as the table of requests shows it.
LEMMA WireMoves ==
    ASSUME CrudTyped, NEW r \in Requests, wire[r] \in Served, NEW k, NEW pc
    PROVE  /\ [wire EXCEPT ![r].pc = pc, ![r].cur = k] = [wire EXCEPT ![r] = At(wire[r], pc, k)]
           /\ Crud!RowDone(r, k) = [wire EXCEPT ![r] = Done(wire[r], k)]
           /\ [wire EXCEPT ![r].pc = "row", ![r].todo = @ \ {k}] = [wire EXCEPT ![r] = Left(wire[r], k)]
           /\ [wire EXCEPT ![r].pc = "answered"] = [wire EXCEPT ![r] = [wire[r] EXCEPT !.pc = "answered"]]
BY DEF CrudTyped, At, Done, Left, Crud!RowDone, Served

\* A request that is neither waiting nor dead has all its fields.
LEMMA BusyIsServed ==
    ASSUME CrudTyped, NEW r \in Requests, Busy(wire[r])
    PROVE  wire[r] \in Served
BY DEF CrudTyped, Busy, Crud!Idle, Gone

\* The history and the trail only grow, and that disturbs no request.
LEMMA SaneGrows ==
    ASSUME NEW v, NEW w, NEW ww, NEW t, NEW tt, NEW q, Sane(v, w, t, q), w \subseteq ww, t \subseteq tt
    PROVE  Sane(v, ww, tt, q)
BY DEF Sane

\* One request moves on; the others stay where they were.
LEMMA OneMoves ==
    ASSUME CrudInv, NEW r \in Requests, NEW q \in Served \cup {Crud!Idle, Gone},
           wire' = [wire EXCEPT ![r] = q], view' = view,
           wrote \subseteq wrote', trail \subseteq trail', Sane(view, wrote', trail', q)
    PROVE  /\ wire' \in [Requests -> Served \cup {Crud!Idle, Gone}]
           /\ \A s \in Requests : Sane(view', wrote', trail', wire'[s])
           /\ \A s \in Requests \ {r} : wire'[s] = wire[s]
           /\ wire'[r] = q
<1>1. wire \in [Requests -> Served \cup {Crud!Idle, Gone}]
  BY DEF CrudInv, CrudTyped
<1>2. (\A s \in Requests \ {r} : wire'[s] = wire[s]) /\ wire'[r] = q
  BY <1>1
<1>3. ASSUME NEW s \in Requests PROVE Sane(view', wrote', trail', wire'[s])
  <2>1. CASE s = r
    BY <1>2, <2>1
  <2>2. CASE s # r
    <3>1. Sane(view, wrote, trail, wire[s])
      BY DEF CrudInv
    <3> QED BY <1>2, <2>2, <3>1, SaneGrows
  <2> QED BY <2>1, <2>2
<1> QED BY <1>1, <1>2, <1>3

\* The trail is as it was.
LEMMA TrailKept ==
    ASSUME CrudInv, NEW r \in Requests, wire[r].pc # "drop", trail' = trail, wrote \subseteq wrote',
           \A s \in Requests \ {r} : wire'[s] = wire[s]
    PROVE  TrailBacked'
<1> SUFFICES ASSUME NEW e \in trail'
             PROVE  \/ e \in wrote'
                    \/ e.op = "DELETE" /\ [e EXCEPT !.op = "KEPT"] \in wrote'
                    \/ \E s \in Requests : wire'[s].pc = "drop" /\ Crud!Entry(wire'[s], wire'[s].cur) = e
  BY DEF TrailBacked
<1>1. \/ e \in wrote
      \/ e.op = "DELETE" /\ [e EXCEPT !.op = "KEPT"] \in wrote
      \/ \E s \in Requests : wire[s].pc = "drop" /\ Crud!Entry(wire[s], wire[s].cur) = e
  BY DEF CrudInv, TrailBacked
<1>2. ASSUME NEW s \in Requests, wire[s].pc = "drop", Crud!Entry(wire[s], wire[s].cur) = e
      PROVE  wire'[s].pc = "drop" /\ Crud!Entry(wire'[s], wire'[s].cur) = e
  <2>1. wire'[s] = wire[s]
    BY <1>2
  <2> QED BY <1>2, <2>1
<1> QED BY <1>1, <1>2

----------------------------------------------------------------------------
(* The statements.                                                         *)

\* A request is let in.
LEMMA BeginKeeps ==
    ASSUME CrudInv, NEW r \in Requests, wire[r].pc = "idle", Begun(r)
    PROVE  CrudInv'
<1>1. PICK via \in Crud!PerRow \cup {"html", "bulk"}, op \in {"CREATE", "REPLACE", "UPDATE", "DELETE"},
           u \in Users \cup {Crud!Nobody}, cred \in Crud!Credentials, ks \in SUBSET RowKeys, pay \in Sent :
        /\ Crud!Begin(r, via, op, u, cred, ks, pay)
        /\ \A k \in ks : /\ Allowed(view, via, op, u, cred = "readonly", row[k])
                         /\ op = "CREATE" => k \in Crud!Unborn
                         /\ op # "CREATE" => row[k].live
  BY DEF Begun
<1> DEFINE q == [pc |-> "row", via |-> via, op |-> op, by |-> u, ro |-> cred = "readonly", todo |-> ks,
                 seen |-> [k \in ks |-> row[k]], pay |-> pay, cur |-> 0, did |-> {}]
<1>2. /\ wire' = [wire EXCEPT ![r] = q] /\ view' = view /\ row' = row
      /\ trail' = trail /\ wrote' = wrote
  BY <1>1 DEF Crud!Begin
<1>3. q \in Served
  <2>1. [k \in ks |-> row[k]] \in [ks -> Rec]
    BY DEF CrudInv, CrudTyped
  <2>2. [k \in ks |-> row[k]] \in Seen
    BY <2>1 DEF Seen
  <2> QED BY <1>1, <2>2 DEF Served
<1>4. Sane(view, wrote, trail, q)
  <2>1. ASSUME NEW k \in ks
        PROVE  /\ k \in DOMAIN q.seen /\ q.seen[k] = row[k]
               /\ op = "CREATE" => k \notin Born
               /\ op # "CREATE" => /\ row[k].born
                                   /\ "lock" \notin view.form => (row[k].lock <=> k \notin Born)
    BY <1>1, <2>1 DEF CrudInv, RowsSane, Crud!FormHolds, Crud!Unborn, Crud!Default
  <2> QED BY <1>1, <2>1 DEF Sane, Busy
<1> HIDE DEF q
<1>5. /\ wire' \in [Requests -> Served \cup {Crud!Idle, Gone}]
      /\ \A s \in Requests : Sane(view', wrote', trail', wire'[s])
      /\ \A s \in Requests \ {r} : wire'[s] = wire[s]
  BY <1>2, <1>3, <1>4, OneMoves
<1>6. TrailBacked'
  BY <1>2, <1>5, TrailKept
<1> QED BY <1>2, <1>5, <1>6 DEF CrudInv, CrudTyped, RowsSane, Crud!FormHolds

\* What a form makes of an instance is a row.
LEMMA FormMakesRow ==
    ASSUME CrudTyped, NEW inst \in Rec, NEW data, data.note \in Nat, data.lock \in BOOLEAN
    PROVE  /\ Crud!make_form(inst, data) \in Rec
           /\ Crud!make_form(inst, data).born = inst.born /\ Crud!make_form(inst, data).live = inst.live
           /\ "lock" \notin view.form => Crud!make_form(inst, data).lock = inst.lock
BY DEF Rec, Crud!make_form

\* form.save() of a row that may be written.
LEMMA SaveKeeps ==
    ASSUME CrudInv, NEW r \in Requests, NEW k \in RowKeys, Crud!Save(r, k)
    PROVE  CrudInv'
<1> DEFINE q == wire[r]
           inst == Crud!Instance(q, k)
           data == Crud!merge_form_payload(Crud!Base(q, k), q.pay)
<1>1. /\ q.pc = "row" /\ k \in q.todo /\ q.op # "DELETE"
      /\ q.op = "CREATE" => k \in Crud!Unborn
      /\ row' = [row EXCEPT ![k] = Crud!make_form(inst, data)]
      /\ wrote' = wrote \cup {Crud!Entry(q, k)} /\ view' = view /\ trail' = trail
  BY DEF Crud!Save
<1>2. q \in Served /\ Busy(q)
  BY <1>1, BusyIsServed DEF CrudInv, Busy
<1>3. Sane(view, wrote, trail, q)
  BY DEF CrudInv
<1>4. q.op # "CREATE" => q.seen[k] \in Rec
  <2>1. k \in DOMAIN q.seen
    BY <1>1, <1>2, <1>3 DEF Sane
  <2>2. PICK S \in SUBSET RowKeys : q.seen \in [S -> Rec]
    BY <1>2 DEF Served, Seen
  <2> QED BY <2>1, <2>2
<1>5. /\ inst \in Rec /\ inst.born
      /\ "lock" \notin view.form => (inst.lock <=> k \notin Born)
  <2>1. CASE q.op = "CREATE"
    <3>1. k \notin Born /\ q.by \in Users \cup {Owner, Crud!Nobody}
      BY <1>1, <1>2, <1>3, <2>1 DEF Sane, Served
    <3> QED BY <2>1, <3>1 DEF Crud!Instance, Crud!Default, Rec
  <2>2. CASE q.op # "CREATE"
    <3>1. q.seen[k].born /\ ("lock" \notin view.form => (q.seen[k].lock <=> k \notin Born))
      BY <1>1, <1>2, <1>3, <2>2 DEF Sane
    <3> QED BY <1>4, <2>2, <3>1 DEF Crud!Instance, Rec
  <2> QED BY <2>1, <2>2
<1>6. data.note \in Nat /\ data.lock \in BOOLEAN
  <2>1. q.pay \in Sent
    BY <1>2 DEF Served
  <2>2. Crud!Base(q, k).note \in Nat /\ Crud!Base(q, k).lock \in BOOLEAN
    <3>1. CASE q.op = "REPLACE" \/ q.via = "html"
      BY <3>1 DEF Crud!Base, Crud!Blank
    <3>2. CASE q.op = "CREATE" /\ q.via # "html"
      BY <3>2 DEF Crud!Base, Crud!Default
    <3>3. CASE q.op = "UPDATE" /\ q.via # "html"
      BY <1>4, <3>3 DEF Crud!Base, Rec
    <3> QED BY <1>1, <1>2, <3>1, <3>2, <3>3 DEF Served
  <2> QED BY <2>1, <2>2 DEF Crud!merge_form_payload, Sent
<1> DEFINE new == Crud!make_form(inst, data)
<1>7. /\ new \in Rec /\ new.born /\ ("lock" \notin view.form => (new.lock <=> k \notin Born))
  BY <1>5, <1>6, FormMakesRow DEF CrudInv
<1> HIDE DEF inst, data, new
<1>8. row' = [row EXCEPT ![k] = new]
  BY <1>1 DEF new
<1>9. row' \in [RowKeys -> Rec] /\ RowsSane' /\ Crud!FormHolds'
  <2>1. row \in [RowKeys -> Rec]
    BY DEF CrudInv, CrudTyped
  <2>2. row'[k] = new /\ \A x \in RowKeys \ {k} : row'[x] = row[x]
    BY <1>8, <2>1
  <2>3. row' \in [RowKeys -> Rec]
    BY <1>7, <1>8, <2>1
  <2>4. RowsSane'
    BY <1>7, <2>2 DEF CrudInv, RowsSane
  <2>5. Crud!FormHolds'
    <3>1. ASSUME "lock" \notin view.form, NEW x \in RowKeys
          PROVE  row'[x].lock <=> (row'[x].born /\ x \notin Born)
      BY <1>7, <2>2, <3>1 DEF CrudInv, Crud!FormHolds, Crud!Default
    <3>2. \A x \in RowKeys : row'[x].lock \in BOOLEAN /\ row'[x].born \in BOOLEAN
      BY <2>3 DEF Rec
    <3> QED BY <1>1, <3>1, <3>2 DEF Crud!FormHolds, Crud!Default
  <2> QED BY <2>3, <2>4, <2>5
<1>10. PICK z \in {At(q, "log", k), Done(q, k)} :
          /\ wire' = [wire EXCEPT ![r] = z]
          /\ z = Done(q, k) => q.via \notin Crud!PerRow \/ z = At(q, "log", k)
  <2>1. /\ [wire EXCEPT ![r].pc = "log", ![r].cur = k] = [wire EXCEPT ![r] = At(q, "log", k)]
        /\ Crud!RowDone(r, k) = [wire EXCEPT ![r] = Done(q, k)]
    BY <1>2, WireMoves, ZenonT(60) DEF CrudInv
  <2> QED BY <2>1 DEF Crud!Save
<1>11. z \in Served
  BY <1>2, <1>10, MovesAreServed
<1>12. Sane(view, wrote', trail', z)
  <2>1. CASE z = At(q, "log", k)
    <3>1. /\ z.pc = "log" /\ z.cur = k /\ z.todo = q.todo /\ z.did = q.did /\ z.op = q.op
          /\ z.via = q.via /\ z.by = q.by /\ z.ro = q.ro /\ z.seen = q.seen
      BY <1>2, <2>1 DEF At, Served
    <3>2. /\ Crud!Entry(z, k) = Crud!Entry(q, k)
          /\ \A x : Crud!Entry(z, x) = Crud!Entry(q, x) /\ Crud!log_write(z, x) = Crud!log_write(q, x)
      BY <3>1 DEF Crud!Entry, Crud!log_write
    <3> QED BY <1>1, <1>2, <1>3, <3>1, <3>2 DEF Sane, Busy
  <2>2. CASE z = Done(q, k) /\ q.via \notin Crud!PerRow
    <3>1. /\ z.pc = "row" /\ z.todo = q.todo \ {k} /\ z.did = q.did \cup {k} /\ z.op = q.op
          /\ z.via = q.via /\ z.by = q.by /\ z.ro = q.ro /\ z.seen = q.seen
      BY <1>2, <2>2 DEF Done, Served
    <3>2. \A x : Crud!Entry(z, x) = Crud!Entry(q, x)
      BY <3>1 DEF Crud!Entry
    <3> QED BY <1>1, <1>2, <1>3, <2>2, <3>1, <3>2 DEF Sane, Busy
  <2> QED BY <1>10, <2>1, <2>2
<1>13. /\ wire' \in [Requests -> Served \cup {Crud!Idle, Gone}]
       /\ \A s \in Requests : Sane(view', wrote', trail', wire'[s])
       /\ \A s \in Requests \ {r} : wire'[s] = wire[s]
  BY <1>1, <1>10, <1>11, <1>12, OneMoves
<1>14. TrailBacked'
  BY <1>1, <1>13, TrailKept
<1> QED BY <1>1, <1>9, <1>13, <1>14 DEF CrudInv, CrudTyped

\* The entry after a save.
LEMMA LogSaveKeeps ==
    ASSUME CrudInv, NEW r \in Requests, Crud!LogSave(r)
    PROVE  CrudInv'
<1> DEFINE q == wire[r]
           k == q.cur
           z == Done(q, k)
<1>1. /\ q.pc = "log" /\ trail' = trail \cup Crud!log_write(q, k)
      /\ view' = view /\ row' = row /\ wrote' = wrote
  BY DEF Crud!LogSave
<1>2. q \in Served /\ Busy(q)
  BY <1>1, BusyIsServed DEF CrudInv, Busy
<1>3. Sane(view, wrote, trail, q)
  BY DEF CrudInv
<1>4. k \in q.todo /\ q.op # "DELETE" /\ Crud!Entry(q, k) \in wrote /\ k \in RowKeys
  BY <1>1, <1>2, <1>3 DEF Sane, Served
<1>5. wire' = [wire EXCEPT ![r] = z]
  BY <1>2, WireMoves DEF CrudInv, Crud!LogSave
<1>6. z \in Served
  BY <1>2, <1>4, MovesAreServed
<1>7. Sane(view, wrote', trail', z)
  <2>1. /\ z.pc = "row" /\ z.todo = q.todo \ {k} /\ z.did = q.did \cup {k} /\ z.op = q.op
        /\ z.via = q.via /\ z.by = q.by /\ z.ro = q.ro /\ z.seen = q.seen
    BY <1>2 DEF Done, Served
  <2>2. \A x : Crud!Entry(z, x) = Crud!Entry(q, x) /\ Crud!log_write(z, x) = Crud!log_write(q, x)
    BY <2>1 DEF Crud!Entry, Crud!log_write
  <2> HIDE DEF z, k, q
  <2> QED BY <1>1, <1>2, <1>3, <1>4, <2>1, <2>2 DEF Sane, Busy
<1> HIDE DEF z
<1>8. /\ wire' \in [Requests -> Served \cup {Crud!Idle, Gone}]
      /\ \A s \in Requests : Sane(view', wrote', trail', wire'[s])
      /\ \A s \in Requests \ {r} : wire'[s] = wire[s]
  BY <1>1, <1>5, <1>6, <1>7, OneMoves
<1>9. TrailBacked'
  <2>1. ASSUME NEW e \in trail, NEW s \in Requests, wire[s].pc = "drop", Crud!Entry(wire[s], wire[s].cur) = e
        PROVE  wire'[s].pc = "drop" /\ Crud!Entry(wire'[s], wire'[s].cur) = e
    <3>1. s # r
      BY <1>1, <2>1
    <3>2. wire'[s] = wire[s]
      BY <1>8, <3>1
    <3> QED BY <2>1, <3>2
  <2>2. Crud!log_write(q, k) \subseteq wrote
    BY <1>4 DEF Crud!log_write
  <2> QED BY <1>1, <2>1, <2>2 DEF CrudInv, TrailBacked
<1> QED BY <1>1, <1>8, <1>9 DEF CrudInv, CrudTyped, RowsSane, Crud!FormHolds

\* The entry before a delete.
LEMMA LogDeleteKeeps ==
    ASSUME CrudInv, NEW r \in Requests, NEW k \in RowKeys, Crud!LogDelete(r, k)
    PROVE  CrudInv'
<1> DEFINE q == wire[r]
           z == At(q, "drop", k)
<1>1. /\ q.pc = "row" /\ k \in q.todo /\ q.op = "DELETE" /\ q.via \in Crud!PerRow
      /\ trail' = trail \cup Crud!log_write(q, k)
      /\ view' = view /\ row' = row /\ wrote' = wrote
  BY DEF Crud!LogDelete
<1>2. q \in Served /\ Busy(q)
  BY <1>1, BusyIsServed DEF CrudInv, Busy
<1>3. Sane(view, wrote, trail, q)
  BY DEF CrudInv
<1>4. wire' = [wire EXCEPT ![r] = z]
  <2>1. wire' = [wire EXCEPT ![r].pc = "drop", ![r].cur = k]
    BY DEF Crud!LogDelete
  <2> QED BY <1>2, <2>1, WireMoves, ZenonT(60) DEF CrudInv
<1>5. z \in Served
  BY <1>2, MovesAreServed
<1>6. /\ z.pc = "drop" /\ z.cur = k /\ z.todo = q.todo /\ z.did = q.did /\ z.op = q.op
      /\ z.via = q.via /\ z.by = q.by /\ z.ro = q.ro /\ z.seen = q.seen
  BY <1>2 DEF At, Served
<1>7. \A x : Crud!Entry(z, x) = Crud!Entry(q, x) /\ Crud!log_write(z, x) = Crud!log_write(q, x)
  BY <1>6 DEF Crud!Entry, Crud!log_write
<1> HIDE DEF z
<1>8. Sane(view, wrote', trail', z)
  BY <1>1, <1>2, <1>3, <1>6, <1>7 DEF Sane, Busy
<1>9. /\ wire' \in [Requests -> Served \cup {Crud!Idle, Gone}]
      /\ \A s \in Requests : Sane(view', wrote', trail', wire'[s])
      /\ \A s \in Requests \ {r} : wire'[s] = wire[s]
      /\ wire'[r] = z
  BY <1>1, <1>4, <1>5, <1>8, OneMoves
<1>10. TrailBacked'
  <2>1. ASSUME NEW e \in trail, NEW s \in Requests, wire[s].pc = "drop", Crud!Entry(wire[s], wire[s].cur) = e
        PROVE  wire'[s].pc = "drop" /\ Crud!Entry(wire'[s], wire'[s].cur) = e
    <3>1. s # r
      BY <1>1, <2>1
    <3>2. wire'[s] = wire[s]
      BY <1>9, <3>1
    <3> QED BY <2>1, <3>2
  <2>2. \A e \in Crud!log_write(q, k) : wire'[r].pc = "drop" /\ Crud!Entry(wire'[r], wire'[r].cur) = e
    BY <1>6, <1>7, <1>9 DEF Crud!log_write
  <2> QED BY <1>1, <2>1, <2>2 DEF CrudInv, TrailBacked
<1> QED BY <1>1, <1>9, <1>10 DEF CrudInv, CrudTyped, RowsSane, Crud!FormHolds

\* When request r is about to delete, its entry is backed by what happens now, and the others
\* by what backed them.
LEMMA TrailSettles ==
    ASSUME CrudInv, NEW r \in Requests, trail' = trail, wrote \subseteq wrote',
           \A s \in Requests \ {r} : wire'[s] = wire[s],
           wire[r].pc = "drop" =>
              \/ Crud!Entry(wire[r], wire[r].cur) \in wrote'
              \/ [Crud!Entry(wire[r], wire[r].cur) EXCEPT !.op = "KEPT"] \in wrote'
    PROVE  TrailBacked'
<1>1. ASSUME NEW e \in trail, NEW s \in Requests, wire[s].pc = "drop",
             Crud!Entry(wire[s], wire[s].cur) = e
      PROVE  \/ e \in wrote'
             \/ e.op = "DELETE" /\ [e EXCEPT !.op = "KEPT"] \in wrote'
             \/ wire'[s].pc = "drop" /\ Crud!Entry(wire'[s], wire'[s].cur) = e
  <2>1. CASE s = r
    <3>1. Sane(view, wrote, trail, wire[r])
      BY DEF CrudInv
    <3>2. wire[r].op = "DELETE"
      BY <1>1, <2>1, <3>1 DEF Sane
    <3>3. e.op = "DELETE"
      BY <1>1, <2>1, <3>2 DEF Crud!Entry
    <3> QED BY <1>1, <2>1, <3>3
  <2>2. CASE s # r
    <3>1. wire'[s] = wire[s]
      BY <2>2
    <3> QED BY <1>1, <3>1
  <2> QED BY <2>1, <2>2
<1> QED BY <1>1 DEF CrudInv, TrailBacked

\* obj.delete().
LEMMA DropKeeps ==
    ASSUME CrudInv, NEW r \in Requests, NEW k \in RowKeys, Crud!Drop(r, k)
    PROVE  CrudInv'
<1> DEFINE q == wire[r]
<1>1. /\ \/ q.pc = "drop" /\ k = q.cur
         \/ q.pc = "row" /\ k \in q.todo /\ q.op = "DELETE" /\ q.via \notin Crud!PerRow
      /\ view' = view /\ trail' = trail
  BY DEF Crud!Drop
<1>2. q \in Served /\ Busy(q)
  BY <1>1, BusyIsServed DEF CrudInv, Busy
<1>3. Sane(view, wrote, trail, q)
  BY DEF CrudInv
<1>4. k \in q.todo /\ q.op = "DELETE"
  BY <1>1, <1>3 DEF Sane
<1>5. PICK z \in {Left(q, k), Done(q, k)} :
         /\ wire' = [wire EXCEPT ![r] = z]
         /\ \/ /\ z = Left(q, k) /\ row' = row
               /\ wrote' = wrote \cup {[Crud!Entry(q, k) EXCEPT !.op = "KEPT"]}
            \/ /\ z = Done(q, k) /\ row' = [row EXCEPT ![k].live = FALSE]
               /\ wrote' = wrote \cup {Crud!Entry(q, k)}
  <2>1. /\ [wire EXCEPT ![r].pc = "row", ![r].todo = @ \ {k}] = [wire EXCEPT ![r] = Left(wire[r], k)]
        /\ Crud!RowDone(r, k) = [wire EXCEPT ![r] = Done(wire[r], k)]
    BY <1>2, WireMoves DEF CrudInv
  <2> QED BY <2>1 DEF Crud!Drop
<1>6. z \in Served
  BY <1>2, <1>5, MovesAreServed
<1>7. Sane(view, wrote', trail', z)
  <2>1. CASE z = Left(q, k) /\ wrote \subseteq wrote'
    <3>1. /\ z.pc = "row" /\ z.todo = q.todo \ {k} /\ z.did = q.did /\ z.op = q.op
          /\ z.via = q.via /\ z.by = q.by /\ z.ro = q.ro /\ z.seen = q.seen
      BY <1>2, <2>1 DEF Left, Served
    <3>2. \A x : Crud!Entry(z, x) = Crud!Entry(q, x) /\ Crud!log_write(z, x) = Crud!log_write(q, x)
      BY <3>1 DEF Crud!Entry, Crud!log_write
    <3> QED BY <1>1, <1>2, <1>3, <2>1, <3>1, <3>2 DEF Sane, Busy
  <2>2. CASE z = Done(q, k) /\ wrote' = wrote \cup {Crud!Entry(q, k)}
    <3>1. /\ z.pc = "row" /\ z.todo = q.todo \ {k} /\ z.did = q.did \cup {k} /\ z.op = q.op
          /\ z.via = q.via /\ z.by = q.by /\ z.ro = q.ro /\ z.seen = q.seen
      BY <1>2, <2>2 DEF Done, Served
    <3>2. \A x : Crud!Entry(z, x) = Crud!Entry(q, x) /\ Crud!log_write(z, x) = Crud!log_write(q, x)
      BY <3>1 DEF Crud!Entry, Crud!log_write
    <3>3. q.via \in Crud!PerRow => Crud!log_write(q, k) \subseteq trail
      BY <1>1, <1>3 DEF Sane
    <3> QED BY <1>1, <1>2, <1>3, <2>2, <3>1, <3>2, <3>3 DEF Sane, Busy
  <2> QED BY <1>5, <2>1, <2>2
<1>8. /\ wire' \in [Requests -> Served \cup {Crud!Idle, Gone}]
      /\ \A s \in Requests : Sane(view', wrote', trail', wire'[s])
      /\ \A s \in Requests \ {r} : wire'[s] = wire[s]
  BY <1>1, <1>5, <1>6, <1>7, OneMoves
<1>9. TrailBacked'
  BY <1>1, <1>5, <1>8, TrailSettles
<1>10. row' \in [RowKeys -> Rec] /\ RowsSane' /\ Crud!FormHolds'
  <2>1. row \in [RowKeys -> Rec] /\ RowsSane /\ Crud!FormHolds
    BY DEF CrudInv, CrudTyped
  <2>2. CASE row' = row
    BY <1>1, <2>1, <2>2 DEF RowsSane, Crud!FormHolds
  <2>3. CASE row' = [row EXCEPT ![k].live = FALSE]
    <3> DEFINE new == [row[k] EXCEPT !.live = FALSE]
    <3>1. new \in Rec /\ ~new.live /\ new.born = row[k].born /\ new.lock = row[k].lock
      BY <2>1 DEF Rec
    <3>2. row' = [row EXCEPT ![k] = new]
      BY <2>1, <2>3
    <3> HIDE DEF new
    <3>3. row'[k] = new /\ \A x \in RowKeys \ {k} : row'[x] = row[x]
      BY <2>1, <3>2
    <3>4. \A x \in RowKeys : row'[x].born = row[x].born /\ row'[x].lock = row[x].lock
                          /\ (row'[x].live => row[x].live)
      BY <3>1, <3>3
    <3> QED BY <1>1, <2>1, <3>1, <3>2, <3>4 DEF RowsSane, Crud!FormHolds
  <2> QED BY <1>5, <2>2, <2>3
<1> QED BY <1>1, <1>8, <1>9, <1>10 DEF CrudInv, CrudTyped

\* The answer.
LEMMA FinishKeeps ==
    ASSUME CrudInv, NEW r \in Requests, Crud!Finish(r)
    PROVE  CrudInv'
<1> DEFINE q == wire[r]
           z == [q EXCEPT !.pc = "answered"]
           more == IF q.via = "bulk" THEN Crud!audit_bulk_action(q) ELSE {}
<1>1. /\ q.pc = "row" /\ trail' = trail \cup more
      /\ view' = view /\ row' = row /\ wrote' = wrote
  BY DEF Crud!Finish
<1>2. q \in Served /\ Busy(q)
  BY <1>1, BusyIsServed DEF CrudInv, Busy
<1>3. Sane(view, wrote, trail, q)
  BY DEF CrudInv
<1>4. wire' = [wire EXCEPT ![r] = z] /\ z \in Served
  <2>1. z \in Served
    BY <1>2 DEF Served
  <2> QED BY <1>2, <2>1, WireMoves DEF CrudInv, Crud!Finish
<1>5. /\ z.pc = "answered" /\ z.did = q.did /\ z.op = q.op /\ z.via = q.via /\ z.by = q.by
  BY <1>2 DEF Served
<1>6. \A x : Crud!Entry(z, x) = Crud!Entry(q, x) /\ Crud!log_write(z, x) = Crud!log_write(q, x)
  BY <1>5 DEF Crud!Entry, Crud!log_write
<1>7. q.via = "bulk" => \A x \in q.did : Crud!log_write(q, x) \subseteq more
  BY DEF Crud!log_write, Crud!audit_bulk_action
<1>8. more \subseteq wrote
  BY <1>2, <1>3 DEF Sane, Crud!audit_bulk_action
<1> HIDE DEF z, more
<1>9. Sane(view, wrote', trail', z)
  BY <1>1, <1>2, <1>3, <1>5, <1>6, <1>7 DEF Sane, Busy
<1>10. /\ wire' \in [Requests -> Served \cup {Crud!Idle, Gone}]
       /\ \A s \in Requests : Sane(view', wrote', trail', wire'[s])
       /\ \A s \in Requests \ {r} : wire'[s] = wire[s]
  BY <1>1, <1>4, <1>9, OneMoves
<1>11. TrailBacked'
  <2>1. ASSUME NEW e \in trail, NEW s \in Requests, wire[s].pc = "drop", Crud!Entry(wire[s], wire[s].cur) = e
        PROVE  wire'[s].pc = "drop" /\ Crud!Entry(wire'[s], wire'[s].cur) = e
    <3>1. s # r
      BY <1>1, <2>1
    <3>2. wire'[s] = wire[s]
      BY <1>10, <3>1
    <3> QED BY <2>1, <3>2
  <2> QED BY <1>1, <1>8, <2>1 DEF CrudInv, TrailBacked
<1> QED BY <1>1, <1>10, <1>11 DEF CrudInv, CrudTyped, RowsSane, Crud!FormHolds

\* A killed process.
LEMMA DieKeeps ==
    ASSUME CrudInv, NEW r \in Requests, Crud!Die(r)
    PROVE  CrudInv'
<1> DEFINE q == wire[r]
<1>1. /\ wire' = [wire EXCEPT ![r] = Gone] /\ wrote \subseteq wrote'
      /\ view' = view /\ row' = row /\ trail' = trail
      /\ q.pc = "drop" => [Crud!Entry(q, q.cur) EXCEPT !.op = "KEPT"] \in wrote'
  BY DEF Crud!Die, Gone
<1>2. Sane(view, wrote', trail', Gone)
  BY DEF Sane, Busy, Gone
<1>3. /\ wire' \in [Requests -> Served \cup {Crud!Idle, Gone}]
      /\ \A s \in Requests : Sane(view', wrote', trail', wire'[s])
      /\ \A s \in Requests \ {r} : wire'[s] = wire[s]
  BY <1>1, <1>2, OneMoves
<1>4. TrailBacked'
  BY <1>1, <1>3, TrailSettles
<1> QED BY <1>1, <1>3, <1>4 DEF CrudInv, CrudTyped, RowsSane, Crud!FormHolds

----------------------------------------------------------------------------
(* The theorems.                                                           *)

\* Whoever writes to the table: a step lets a request in, or is a statement of one in flight.
LEMMA StepIsOfOne ==
    ASSUME CrudTyped, Crud!Next
    PROVE  \E r \in Requests :
             \/ wire[r].pc = "idle" /\ Begun(r)
             \/ Crud!LogSave(r) \/ Crud!Finish(r) \/ Crud!Die(r)
             \/ \E k \in RowKeys : Crud!Save(r, k) \/ Crud!LogDelete(r, k) \/ Crud!Drop(r, k)
<1>1. ASSUME NEW r \in Crud!Waiting, NEW u \in Users \cup {Crud!Nobody}, NEW k \in RowKeys,
             \/ \E pay \in Crud!Payloads :
                  \/ Crud!HtmlCreate(r, u, k, pay) \/ Crud!HtmlUpdate(r, u, k, pay)
                  \/ Crud!CliNew(r, u, k, pay) \/ Crud!CliSet(r, u, k, pay)
                  \/ \E cred \in Crud!Credentials :
                       \/ Crud!ApiCreate(r, u, cred, k, pay)
                       \/ \E m \in {"PUT", "PATCH"} : Crud!ApiDetail(r, u, cred, m, k, pay)
                       \/ Crud!McpCreate(r, u, cred, k, pay) \/ Crud!McpUpdate(r, u, cred, k, pay)
             \/ Crud!HtmlDelete(r, u, k) \/ Crud!CliRm(r, u, k)
             \/ \E cred \in Crud!Credentials :
                  Crud!ApiDetail(r, u, cred, "DELETE", k, Crud!NoPayload) \/ Crud!McpDelete(r, u, cred, k)
      PROVE  r \in Requests /\ wire[r].pc = "idle" /\ Begun(r)
  <2>1. r \in Requests /\ wire[r].pc = "idle"
    BY DEF Crud!Waiting
  <2>2. \E pay \in Crud!Payloads : TRUE
    BY DEF Crud!Payloads
  <2>3. ASSUME NEW pay \in Crud!Payloads,
               \/ Crud!HtmlCreate(r, u, k, pay) \/ Crud!HtmlUpdate(r, u, k, pay)
               \/ Crud!HtmlDelete(r, u, k)
        PROVE  Begun(r)
    BY <2>1, <2>3, PagesBegin
  <2>4. ASSUME NEW pay \in Crud!Payloads,
               Crud!CliNew(r, u, k, pay) \/ Crud!CliSet(r, u, k, pay) \/ Crud!CliRm(r, u, k)
        PROVE  Begun(r)
    BY <2>1, <2>4, CliBegins
  <2>5. ASSUME NEW pay \in Crud!Payloads, NEW cred \in Crud!Credentials,
               \/ Crud!McpCreate(r, u, cred, k, pay) \/ Crud!McpUpdate(r, u, cred, k, pay)
               \/ Crud!McpDelete(r, u, cred, k)
        PROVE  Begun(r)
    BY <2>1, <2>5, McpBegins
  <2>6. ASSUME NEW pay \in Sent, NEW cred \in Crud!Credentials, NEW m \in {"PUT", "PATCH", "DELETE"},
               Crud!ApiCreate(r, u, cred, k, pay) \/ Crud!ApiDetail(r, u, cred, m, k, pay)
        PROVE  Begun(r)
    BY <2>1, <2>6, RestBegins
  <2>7. Crud!Payloads \subseteq Sent /\ Crud!NoPayload \in Sent
    BY PayloadsAreSent
  <2>8. Begun(r)
    BY <1>1, <2>2, <2>3, <2>4, <2>5, <2>6, <2>7
  <2> QED BY <2>1, <2>8
<1>2. ASSUME NEW r \in Crud!Waiting, NEW u \in Users \cup {Crud!Nobody}, NEW ids \in SUBSET RowKeys,
             \/ Crud!BulkDelete(r, u, ids)
             \/ \E cred \in Crud!Credentials : Crud!ApiBulkDelete(r, u, cred, ids)
             \/ \E pay \in Crud!Payloads :
                  \/ Crud!BulkUpdate(r, u, ids, pay)
                  \/ \E cred \in Crud!Credentials : Crud!ApiBulkUpdate(r, u, cred, ids, pay)
      PROVE  r \in Requests /\ wire[r].pc = "idle" /\ Begun(r)
  <2>1. r \in Requests /\ wire[r].pc = "idle"
    BY DEF Crud!Waiting
  <2>2. \E pay \in Crud!Payloads : TRUE
    BY DEF Crud!Payloads
  <2>3. ASSUME NEW pay \in Crud!Payloads, Crud!BulkDelete(r, u, ids) \/ Crud!BulkUpdate(r, u, ids, pay)
        PROVE  Begun(r)
    BY <2>1, <2>3, BulkBegins
  <2>4. ASSUME NEW pay \in Crud!Payloads, NEW cred \in Crud!Credentials,
               Crud!ApiBulkDelete(r, u, cred, ids) \/ Crud!ApiBulkUpdate(r, u, cred, ids, pay)
        PROVE  Begun(r)
    BY <2>1, <2>4, ApiBulkBegins
  <2>5. Begun(r)
    BY <1>2, <2>2, <2>3, <2>4
  <2> QED BY <2>1, <2>5
<1> QED BY <1>1, <1>2 DEF Crud!Next

\* Every statement of every request keeps the invariant.
LEMMA CrudStep == CrudInv /\ [Crud!Next]_crudVars => CrudInv'
<1> SUFFICES ASSUME CrudInv, [Crud!Next]_crudVars PROVE CrudInv'
  OBVIOUS
<1>1. CASE UNCHANGED crudVars
  BY <1>1 DEF crudVars, CrudInv, CrudTyped, RowsSane, Crud!FormHolds, TrailBacked
<1>2. CASE Crud!Next
  <2>1. CrudTyped
    BY DEF CrudInv
  <2> QED BY <1>2, <2>1, StepIsOfOne, BeginKeeps, LogSaveKeeps, FinishKeeps, DieKeeps,
             SaveKeeps, LogDeleteKeeps, DropKeeps
<1> QED BY <1>1, <1>2

\* Initially.
LEMMA CrudInit == Init => CrudInv
<1> SUFFICES ASSUME Crud!Init PROVE CrudInv
  BY DEF Init
<1>1. view \in Declarations
  BY ViewsAreDeclared DEF Crud!Init
<1>2. row \in [RowKeys -> Rec] /\ RowsSane /\ Crud!FormHolds
  <2>1. ASSUME NEW k \in RowKeys
        PROVE  /\ row[k] \in Rec /\ (row[k].born <=> k \in Born) /\ (row[k].live <=> k \in Born)
               /\ row[k].lock = FALSE
    <3> DEFINE old == k \in Born
    <3>1. old \in BOOLEAN
      OBVIOUS
    <3>2. row[k] = [born |-> old, live |-> old, owner |-> Owner, note |-> 0, lock |-> FALSE]
      BY DEF Crud!Init
    <3> HIDE DEF old
    <3>3. row[k] \in Rec /\ row[k].born = old /\ row[k].live = old /\ row[k].lock = FALSE
      BY <3>1, <3>2 DEF Rec
    <3> QED BY <3>3 DEF old
  <2>2. row \in [RowKeys -> Rec] /\ RowsSane
    BY <2>1 DEF Crud!Init, RowsSane
  <2>3. \A k \in RowKeys : row[k].lock = (row[k].born /\ k \notin Born /\ Crud!Default.lock)
    BY <2>1
  <2> QED BY <2>2, <2>3 DEF Crud!FormHolds
<1>3. wire \in [Requests -> Served \cup {Crud!Idle, Gone}] /\ TrailBacked
  BY DEF Crud!Init, TrailBacked
<1>4. \A r \in Requests : Sane(view, wrote, trail, wire[r])
  BY DEF Crud!Init, Crud!Idle, Sane, Busy
<1> QED BY <1>1, <1>2, <1>3, <1>4 DEF CrudInv, CrudTyped

\* The invariant, of whatever MCCrud holds beside.
THEOREM CrudHolds == Spec => []CrudInv
<1>1. CrudInv /\ [Next]_<<part, crudVars, listVars, calVars, dataVars, queueVars, logVars, docVars>>
        => CrudInv'
  <2> SUFFICES ASSUME [Next]_<<part, crudVars, listVars, calVars, dataVars, queueVars, logVars, docVars>>
               PROVE  [Crud!Next]_crudVars
    BY CrudStep
  <2> QED BY DEF Next
<1> QED BY <1>1, CrudInit, PTL DEF Spec

\* Every transport enforces the same declaration: whatever the views, users, tokens and rows,
\* and however many requests interleave or are killed, a row changes only by a request that is
\* permitted to change it.
THEOREM EveryWriteIsPermitted == Spec => TransportsAgree
<1> DEFINE Agreed ==
      \A k \in RowKeys : row'[k] # row[k] =>
         \E r \in Requests : /\ wire'[r] # wire[r] /\ wire[r].pc \in {"row", "drop"}
                             /\ k \in wire[r].todo /\ Crud!Permitted(wire[r], k)
<1>1. CrudInv /\ [Crud!Next]_crudVars => Agreed \/ UNCHANGED row
  <2> SUFFICES ASSUME CrudInv, Crud!Next, NEW k \in RowKeys, row'[k] # row[k]
               PROVE  \E r \in Requests : /\ wire'[r] # wire[r] /\ wire[r].pc \in {"row", "drop"}
                                          /\ k \in wire[r].todo /\ Crud!Permitted(wire[r], k)
    BY DEF crudVars
  <2>1. PICK r \in Requests : Crud!Save(r, k) \/ Crud!Drop(r, k)
    <3>1. row \in [RowKeys -> Rec]
      BY DEF CrudInv, CrudTyped
    <3>2. \E r \in Requests, x \in RowKeys : Crud!Save(r, x) \/ Crud!Drop(r, x)
      <4>1. CrudTyped
        BY DEF CrudInv
      <4>2. ASSUME NEW r, \/ Begun(r) \/ Crud!LogSave(r) \/ Crud!Finish(r) \/ Crud!Die(r)
                          \/ \E x \in RowKeys : Crud!LogDelete(r, x)
            PROVE  row' = row
        BY <4>2 DEF Begun, Crud!Begin, Crud!LogSave, Crud!Finish, Crud!Die, Crud!LogDelete
      <4> QED BY <4>1, <4>2, StepIsOfOne
    <3>3. ASSUME NEW r \in Requests, NEW x \in RowKeys, x # k, Crud!Save(r, x) \/ Crud!Drop(r, x)
          PROVE  FALSE
      BY <3>1, <3>3 DEF Crud!Save, Crud!Drop
    <3> QED BY <3>2, <3>3
  <2>2. wire[r].pc \in {"row", "drop"} /\ Busy(wire[r])
    BY <2>1 DEF Crud!Save, Crud!Drop, Busy
  <2>3. wire[r] \in Served
    BY <2>2, BusyIsServed DEF CrudInv
  <2>4. Sane(view, wrote, trail, wire[r])
    BY DEF CrudInv
  <2>5. k \in wire[r].todo
    BY <2>1, <2>4 DEF Crud!Save, Crud!Drop, Sane
  <2>6. Crud!Permitted(wire[r], k)
    BY <2>2, <2>4, <2>5 DEF Sane, Allowed, Crud!Permitted, Crud!Entry
  <2>7. wire'[r] # wire[r]
    <3>1. /\ [wire EXCEPT ![r].pc = "log", ![r].cur = k] = [wire EXCEPT ![r] = At(wire[r], "log", k)]
          /\ Crud!RowDone(r, k) = [wire EXCEPT ![r] = Done(wire[r], k)]
          /\ [wire EXCEPT ![r].pc = "row", ![r].todo = @ \ {k}] = [wire EXCEPT ![r] = Left(wire[r], k)]
      BY <2>3, WireMoves, ZenonT(60) DEF CrudInv
    <3>2. PICK z : /\ wire' = [wire EXCEPT ![r] = z]
                   /\ \/ z = At(wire[r], "log", k) /\ wire[r].pc = "row"
                      \/ z = Done(wire[r], k)
                      \/ z = Left(wire[r], k)
      <4>1. CASE Crud!Save(r, k)
        BY <3>1, <4>1 DEF Crud!Save
      <4>2. CASE Crud!Drop(r, k)
        BY <3>1, <4>2 DEF Crud!Drop
      <4> QED BY <2>1, <4>1, <4>2
    <3>3. (z.pc = "log" /\ wire[r].pc = "row") \/ k \notin z.todo
      BY <2>3, <3>2 DEF At, Done, Left, Served
    <3>4. wire'[r] = z
      BY <3>2 DEF CrudInv, CrudTyped
    <3> QED BY <2>5, <3>3, <3>4
  <2> QED BY <2>2, <2>5, <2>6, <2>7
<1>2. CrudInv /\ [Next]_<<part, crudVars, listVars, calVars, dataVars, queueVars, logVars, docVars>>
        => [Agreed]_(Crud!vars)
  <2> SUFFICES ASSUME CrudInv, [Crud!Next]_crudVars PROVE [Agreed]_(Crud!vars)
    BY DEF Next
  <2>1. CASE UNCHANGED crudVars
    BY <2>1 DEF crudVars, Crud!vars
  <2>2. CASE UNCHANGED row
    BY <2>2
  <2> QED BY <1>1, <2>1, <2>2
<1> QED BY <1>2, CrudHolds, PTL DEF Spec, TransportsAgree, Crud!TransportsAgree

\* The audit trail says what was done, a request killed at any statement included, and a
\* column the form leaves out keeps the value it was born with.
THEOREM TrailIsTrue == Spec => [](Crud!TrailTrue /\ Crud!FormHolds)
<1>1. CrudInv => Crud!TrailTrue /\ Crud!FormHolds
  <2> SUFFICES ASSUME CrudInv, NEW r \in Requests, wire[r].pc = "answered", wire[r].via # "html",
                      NEW k \in wire[r].did
               PROVE  Crud!log_write(wire[r], k) \subseteq trail
    BY DEF CrudInv, TrailBacked, Crud!TrailTrue
  <2>1. wire[r] \in Served
    BY DEF CrudInv, CrudTyped, Crud!Idle, Gone
  <2> QED BY <2>1 DEF CrudInv, Sane, Served
<1> QED BY <1>1, CrudHolds, PTL

\* The declaration of the view is one that a project or the Explorer makes.
LEMMA DeclaredActions ==
    ASSUME NEW v \in Declarations
    PROVE  /\ v.actions \subseteq Crud!Actions /\ v.bulk \subseteq {"DELETE", "UPDATE"}
           /\ v.public \in BOOLEAN /\ v.tabs \in BOOLEAN
BY DEF Declarations

\* The documented methods are the served ones.
LEMMA MethodsAgree ==
    ASSUME NEW v \in Declarations
    PROVE  {p[2] : p \in Crud!build_crud_paths(v)} = Crud!get_methods_from_actions(v)
<1> DEFINE M == Crud!MethodsOf
<1>1. /\ M["LIST"] = {"GET"} /\ M["DETAIL"] = {"GET"} /\ M["CREATE"] = {"POST"}
      /\ M["UPDATE"] = {"PUT", "PATCH"} /\ M["DELETE"] = {"DELETE"}
  BY DEF Crud!MethodsOf
<1>2. v.actions \subseteq {"LIST", "CREATE", "DETAIL", "UPDATE", "DELETE"}
  BY DeclaredActions DEF Crud!Actions
<1>3. \A x : x \in Crud!get_methods_from_actions(v) <=> \E a \in v.actions : x \in M[a]
  BY DEF Crud!get_methods_from_actions
<1> HIDE DEF M
<1>4. \A x : x \in Crud!get_methods_from_actions(v) <=>
               \/ x = "GET" /\ ("LIST" \in v.actions \/ "DETAIL" \in v.actions)
               \/ x = "POST" /\ "CREATE" \in v.actions
               \/ x \in {"PUT", "PATCH"} /\ "UPDATE" \in v.actions
               \/ x = "DELETE" /\ "DELETE" \in v.actions
  BY <1>1, <1>2, <1>3
<1>5. \A x : x \in {p[2] : p \in Crud!build_crud_paths(v)} <=>
               \/ x = "GET" /\ ("LIST" \in v.actions \/ "DETAIL" \in v.actions)
               \/ x = "POST" /\ "CREATE" \in v.actions
               \/ x \in {"PUT", "PATCH"} /\ "UPDATE" \in v.actions
               \/ x = "DELETE" /\ "DELETE" \in v.actions
  <2> TAKE x
  <2>1. \A p : p \in Crud!build_crud_paths(v) <=>
            \/ p = <<"list", "GET">> /\ "LIST" \in v.actions
            \/ p = <<"list", "POST">> /\ "CREATE" \in v.actions
            \/ p = <<"detail", "GET">> /\ "DETAIL" \in v.actions
            \/ p \in {<<"detail", "PUT">>, <<"detail", "PATCH">>} /\ "UPDATE" \in v.actions
            \/ p = <<"detail", "DELETE">> /\ "DELETE" \in v.actions
    BY DEF Crud!build_crud_paths
  <2>2. x \in {p[2] : p \in Crud!build_crud_paths(v)} <=> \E p \in Crud!build_crud_paths(v) : p[2] = x
    OBVIOUS
  <2>3. ASSUME NEW p \in Crud!build_crud_paths(v), p[2] = x
        PROVE  \/ x = "GET" /\ ("LIST" \in v.actions \/ "DETAIL" \in v.actions)
               \/ x = "POST" /\ "CREATE" \in v.actions
               \/ x \in {"PUT", "PATCH"} /\ "UPDATE" \in v.actions
               \/ x = "DELETE" /\ "DELETE" \in v.actions
    BY <2>1, <2>3
  <2>4. ASSUME NEW r, NEW m, <<r, m>> \in Crud!build_crud_paths(v), x = m
        PROVE  \E p \in Crud!build_crud_paths(v) : p[2] = x
    <3> WITNESS <<r, m>> \in Crud!build_crud_paths(v)
    <3> QED BY <2>4
  <2> QED BY <2>1, <2>2, <2>3, <2>4
<1> QED BY <1>4, <1>5

\* A token that may call a tool may do the same over REST.
LEMMA ToolsAreServed ==
    ASSUME NEW u, NEW cred, NEW write \in BOOLEAN, Crud!check_tool_access(u, cred, write)
    PROVE  Crud!check_api_permissions(u, cred, IF write THEN "POST" ELSE "GET")
BY DEF Crud!check_tool_access, Crud!check_api_permissions

\* Every link of a page has its route.
LEMMA LinksAreRoutes ==
    ASSUME NEW v \in Declarations, "LIST" \in v.actions
    PROVE  /\ Crud!list_page(v) \cup Crud!related_tab(v) \subseteq Crud!get_urls(v)
           /\ "DETAIL" \in v.actions => Crud!detail_page(v) \subseteq Crud!get_urls(v)
           /\ "UPDATE" \in v.actions => Crud!update_success_url(v) \in Crud!get_urls(v)
<1>1. \A x : x \in Crud!get_urls(v) <=>
            \/ x \in {"list", "preview"}
            \/ x = "create" /\ "CREATE" \in v.actions
            \/ x = "bulk" /\ v.bulk # {}
            \/ x = "bulk-form" /\ "UPDATE" \in v.bulk
            \/ x = "detail" /\ "DETAIL" \in v.actions
            \/ x = "related" /\ "DETAIL" \in v.actions /\ v.tabs
            \/ x = "update" /\ "UPDATE" \in v.actions
            \/ x = "delete" /\ "DELETE" \in v.actions
  BY DEF Crud!get_urls
<1>2. \A x : x \in Crud!context_urls(v) =>
            \/ x = "list" \/ (x = "bulk" /\ v.bulk # {}) \/ (x = "create" /\ "CREATE" \in v.actions)
  BY DEF Crud!context_urls
<1>3. \A acts, x : x \in Crud!crud_table(acts) =>
            \/ x = "detail" /\ "DETAIL" \in acts
            \/ x = "update" /\ "UPDATE" \in acts
            \/ x = "delete" /\ "DELETE" \in acts
  BY DEF Crud!crud_table
<1>4. Crud!list_page(v) \subseteq Crud!get_urls(v)
  BY <1>1, <1>2, <1>3 DEF Crud!list_page
<1>5. Crud!related_tab(v) \subseteq Crud!get_urls(v)
  BY <1>1, <1>3 DEF Crud!related_tab
<1>6. "DETAIL" \in v.actions => Crud!detail_page(v) \subseteq Crud!get_urls(v)
  BY <1>1, <1>2 DEF Crud!detail_page
<1>7. "UPDATE" \in v.actions => Crud!update_success_url(v) \in Crud!get_urls(v)
  BY <1>1 DEF Crud!update_success_url
<1> QED BY <1>4, <1>5, <1>6, <1>7

\* For every declaration: what the schema, the OPTIONS answer, the tool list and the links of
\* the pages promise is what the routes serve.
THEOREM AdvertisedAndServed == Spec => []Crud!AdvertisedIsServed
<1>1. CrudInv => Crud!AdvertisedIsServed
  <2> SUFFICES ASSUME view \in Declarations PROVE Crud!AdvertisedIsServed
    BY DEF CrudInv, CrudTyped
  <2>1. {p[2] : p \in Crud!build_crud_paths(view)} = Crud!get_methods_from_actions(view)
    BY MethodsAgree
  <2>2. \A u \in Users, cred \in Crud!Tokens : \A a \in Crud!tools_list(u, cred) :
            Crud!tools_call(u, cred, a) /\ a \in view.actions
    BY DEF Crud!tools_list, Crud!tools_call, Crud!mcp_tools
  <2>3. \A u \in Users, cred \in Crud!Tokens, write \in BOOLEAN :
            Crud!check_tool_access(u, cred, write)
              => Crud!check_api_permissions(u, cred, IF write THEN "POST" ELSE "GET")
    BY ToolsAreServed
  <2>4. \A u \in Users : Crud!resolved_mixins(view) # "none" =>
            (Crud!html_gate(u) <=> Crud!check_api_permissions(u, "session", "POST"))
    <3> SUFFICES ASSUME NEW u \in Users, Crud!resolved_mixins(view) # "none"
                 PROVE  Crud!html_gate(u) <=> Crud!check_api_permissions(u, "session", "POST")
      OBVIOUS
    <3>1. u # Crud!Nobody /\ Crud!resolved_mixins(view) \in {"login", "staff"}
      BY CrudAssumption, MixinsResolved
    <3> QED BY <3>1 DEF Crud!html_gate, Crud!check_api_permissions
  <2>5. "LIST" \in view.actions =>
          /\ Crud!list_page(view) \cup Crud!related_tab(view) \subseteq Crud!get_urls(view)
          /\ "DETAIL" \in view.actions => Crud!detail_page(view) \subseteq Crud!get_urls(view)
          /\ "UPDATE" \in view.actions => Crud!update_success_url(view) \in Crud!get_urls(view)
    BY LinksAreRoutes
  <2> QED BY <2>1, <2>2, <2>3, <2>4, <2>5 DEF Crud!AdvertisedIsServed
<1> QED BY <1>1, CrudHolds, PTL

-----------------------------------------------------------------------------
(* ApprovalQueue.                                                          *)

\* What is typed, and: a row that was expired had been due.
Items == [status : Queue!Statuses \cup {"none"}, from : Filers \cup {"nobody"}, to : Routings \cup {{}}, due : Nat]
QueueTyped == minute \in Nat /\ item \in [Ids -> Items] /\ kind \in Kinds \cup {Queue!NoKind}
ExpiredWasDue == \A i \in Ids : item[i].status = "expired" => item[i].due # 0 /\ item[i].due <= minute
QueueInv == QueueTyped /\ ExpiredWasDue

LEMMA KindsLast == \A k \in Kinds \cup {Queue!NoKind} : k.ttl \in Nat
BY QueueAssumption DEF Queue!NoKind

\* A row closes in a terminal status, as expired only when it is overdue.
LEMMA CloseKeeps ==
    ASSUME QueueInv, NEW i \in Ids, NEW s \in Queue!Statuses, Queue!Close(i, s),
           s = "expired" => Queue!IsOverdue(i)
    PROVE  QueueInv'
<1>1. item' = [item EXCEPT ![i].status = s] /\ minute' = minute /\ kind' = kind
  BY DEF Queue!Close
<1>2. item[i] \in Items
  BY DEF QueueInv, QueueTyped
<1>3. PICK r : r = [item[i] EXCEPT !.status = s]
  OBVIOUS
<1>4. r \in Items /\ r.due = item[i].due /\ r.status = s
  BY <1>2, <1>3 DEF Items
<1>5. item' = [item EXCEPT ![i] = r]
  BY <1>1, <1>3
<1>6. QueueTyped'
  BY <1>1, <1>4, <1>5 DEF QueueInv, QueueTyped
<1>7. ExpiredWasDue'
  BY <1>1, <1>4, <1>5 DEF QueueInv, QueueTyped, ExpiredWasDue, Queue!IsOverdue
<1> QED BY <1>6, <1>7 DEF QueueInv

\* decide, whoever asks.
LEMMA DecideKeeps ==
    ASSUME QueueInv, NEW u, NEW i \in Ids, NEW v \in {"approved", "rejected"}, Queue!decide(u, i, v)
    PROVE  QueueInv'
<1>1. CASE Queue!IsOverdue(i) /\ Queue!Close(i, "expired")
  BY <1>1, CloseKeeps DEF Queue!Statuses
<1>2. CASE Queue!Close(i, v)
  BY <1>2, CloseKeeps DEF Queue!Statuses
<1> QED BY <1>1, <1>2 DEF Queue!decide

\* A filing, through any surface.
LEMMA FilingKeeps ==
    ASSUME QueueInv, NEW u \in Filers, NEW to \in Routings, NEW ttl \in {0, 1}, NEW known \in BOOLEAN,
           Queue!request_approval(u, to, ttl, known)
    PROVE  QueueInv'
<1>1. PICK i \in Ids :
         /\ item' = [item EXCEPT ![i] = [status |-> "pending", from |-> u, to |-> to,
                          due |-> IF (IF ttl # 0 THEN ttl ELSE kind.ttl) = 0 THEN 0
                                  ELSE minute + (IF ttl # 0 THEN ttl ELSE kind.ttl)]]
         /\ minute' = minute /\ kind' = kind
  BY DEF Queue!request_approval
<1> DEFINE due == IF (IF ttl # 0 THEN ttl ELSE kind.ttl) = 0 THEN 0
                  ELSE minute + (IF ttl # 0 THEN ttl ELSE kind.ttl)
           r == [status |-> "pending", from |-> u, to |-> to, due |-> due]
<1>2. due \in Nat
  BY KindsLast DEF QueueInv, QueueTyped
<1> HIDE DEF due
<1>3. r \in Items /\ r.status = "pending"
  BY <1>2 DEF Items, Queue!Statuses
<1>4. item' = [item EXCEPT ![i] = r] /\ minute' = minute /\ kind' = kind
  BY <1>1 DEF due
<1> HIDE DEF r
<1> QED BY <1>3, <1>4 DEF QueueInv, QueueTyped, ExpiredWasDue

\* A sweep, of one reader's rows or of all.
LEMMA SweepKeeps ==
    ASSUME QueueInv, NEW S, S \subseteq Queue!overdue, NEW n, Queue!mark_expired(S, n)
    PROVE  QueueInv'
<1>1. PICK T \in SUBSET S :
         /\ item' = [i \in Ids |-> IF i \in T THEN [item[i] EXCEPT !.status = "expired"] ELSE item[i]]
         /\ minute' = minute /\ kind' = kind
  BY DEF Queue!mark_expired
<1>2. \A i \in T : i \in Ids /\ Queue!IsOverdue(i)
  BY DEF Queue!overdue, Queue!There
<1>3. \A i \in Ids :
         /\ item'[i] \in Items /\ item'[i].due = item[i].due
         /\ i \notin T => item'[i] = item[i]
  <2> TAKE i \in Ids
  <2>1. item[i] \in Items
    BY DEF QueueInv, QueueTyped
  <2>2. PICK r : r = [item[i] EXCEPT !.status = "expired"]
    OBVIOUS
  <2>3. r \in Items /\ r.due = item[i].due
    BY <2>1, <2>2 DEF Items, Queue!Statuses
  <2> QED BY <1>1, <2>1, <2>2, <2>3
<1>4. QueueTyped'
  BY <1>1, <1>3 DEF QueueInv, QueueTyped
<1>5. ExpiredWasDue'
  BY <1>1, <1>2, <1>3 DEF QueueInv, QueueTyped, ExpiredWasDue, Queue!IsOverdue
<1> QED BY <1>4, <1>5 DEF QueueInv

LEMMA QueueStep == QueueInv /\ [Queue!Next]_queueVars => QueueInv'
<1> SUFFICES ASSUME QueueInv, [Queue!Next]_queueVars PROVE QueueInv'
  OBVIOUS
<1>1. ASSUME NEW u \in Filers, NEW to \in Routings, NEW ttl \in {0, 1},
             \/ Queue!PythonFile(u, to, ttl) \/ Queue!api_create_request(u, to, ttl)
             \/ Queue!request_approval_tool(u, to, ttl)
      PROVE  QueueInv'
  BY <1>1, FilingKeeps DEF Queue!PythonFile, Queue!api_create_request, Queue!request_approval_tool
<1>2. ASSUME NEW u \in People, NEW i \in Ids, NEW v \in {"approved", "rejected"},
             \/ Queue!decide_request(u, i, v) \/ Queue!api_decide_request(u, i, v)
             \/ Queue!decide_approval_tool(u, i, v)
      PROVE  QueueInv'
  BY <1>2, DecideKeeps DEF Queue!decide_request, Queue!api_decide_request, Queue!decide_approval_tool
<1>3. ASSUME NEW u \in People, NEW i \in Ids, Queue!cancel_request(u, i) PROVE QueueInv'
  BY <1>3, CloseKeeps DEF Queue!cancel_request, Queue!Statuses
<1>4. ASSUME NEW u \in People, Queue!get_list_queryset(u) PROVE QueueInv'
  BY <1>4, SweepKeeps DEF Queue!get_list_queryset
<1>5. CASE Queue!sweep_expired_approvals
  BY <1>5, SweepKeeps DEF Queue!sweep_expired_approvals
<1>6. CASE Queue!Tick
  BY <1>6 DEF Queue!Tick, QueueInv, QueueTyped, ExpiredWasDue, Items
<1>7. CASE Queue!SendMail \/ (\E u \in People : Queue!Deactivate(u))
  BY <1>7 DEF Queue!SendMail, Queue!Deactivate, QueueInv, QueueTyped, ExpiredWasDue
<1>8. ASSUME NEW k \in Kinds \cup {Queue!NoKind}, Queue!Redeploy(k) PROVE QueueInv'
  BY <1>8 DEF Queue!Redeploy, QueueInv, QueueTyped, ExpiredWasDue
<1>9. CASE UNCHANGED queueVars
  BY <1>9 DEF queueVars, QueueInv, QueueTyped, ExpiredWasDue
<1> QED BY <1>1, <1>2, <1>3, <1>4, <1>5, <1>6, <1>7, <1>8, <1>9 DEF Queue!Next

LEMMA QueueInit == Init => QueueInv
<1>1. Queue!NoItem \in Items /\ Queue!NoItem.status = "none"
  BY DEF Queue!NoItem, Items, Queue!Statuses
<1>2. Queue!Init \/ NoQueue => QueueInv
  BY <1>1 DEF Queue!Init, NoQueue, QueueInv, QueueTyped, ExpiredWasDue
<1> QED BY <1>2 DEF Init

\* For any accounts, routings, kinds and redeployments: each filter of each reader lists the
\* rows whose badge says so, cards, widget and monitor count the same rows, search scopes like
\* the list, a button is offered on a reachable row alone, and what was expired was due.
THEOREM QueueAgrees == Spec => [](Queue!NumbersAgree /\ Queue!OfferedIsReachable)
<1>1. QueueInv /\ [Next]_<<part, crudVars, listVars, calVars, dataVars, queueVars, logVars, docVars>> => QueueInv'
  <2>1. [Next]_<<part, crudVars, listVars, calVars, dataVars, queueVars, logVars, docVars>> => [Queue!Next]_queueVars
    BY DEF Next
  <2> QED BY <2>1, QueueStep
<1>2. Queue!NumbersAgree
  <2>1. /\ Queue!check.clear => mail = "none"
        /\ mail = "stale" /\ setup.emails => ~Queue!check.up
        /\ Queue!check.waiting = Queue!Cardinality(Queue!actionable)
    <3> DEFINE late == Queue!Cardinality(Queue!overdue) > 4 * (IF setup.lazy > 1 THEN setup.lazy ELSE 1)
               bad == (IF Queue!queued_emails = "stale" THEN {"mail"} ELSE {}) \cup (IF late THEN {"expiry"} ELSE {})
               up == bad = {}
               clear == Queue!queued_emails = "none"
               n == Queue!Cardinality(Queue!actionable)
    <3>1. Queue!check = [up |-> up, problems |-> bad, clear |-> clear, waiting |-> n]
      BY DEF Queue!check
    <3>2. /\ clear \in BOOLEAN /\ clear => mail = "none"
          /\ up \in BOOLEAN /\ (mail = "stale" /\ setup.emails => ~up)
      BY DEF Queue!queued_emails
    <3> HIDE DEF late, bad, up, clear, n
    <3>3. Queue!check.waiting = n /\ Queue!check.up = up /\ Queue!check.clear = clear
      BY <3>1
    <3>4. (Queue!check.up <=> up) /\ (Queue!check.clear <=> clear)
      BY <3>2, <3>3
    <3> QED BY <3>2, <3>3, <3>4 DEF n
  <2>2. ASSUME NEW u \in People, NEW v \in Queue!Statuses
        PROVE  Queue!apply_filter(u, v) = {i \in Queue!viewable_requests(u) : Queue!effective_status(i) = v}
    <3>1. Queue!viewable_requests(u) \subseteq Queue!There
      BY DEF Queue!viewable_requests
    <3> QED
      BY <2>2, <3>1 DEF Queue!apply_filter, Queue!for_effective_status, Queue!actionable, Queue!overdue,
         Queue!IsOverdue, Queue!effective_status, Queue!Statuses
  <2>3. ASSUME NEW u \in People
        PROVE  /\ Queue!pending_card(u) = Queue!Cardinality(Queue!pending_for(u))
               /\ Queue!is_staff(u) => Queue!pending_card(u) = Queue!get_data /\ Queue!check.waiting = Queue!get_data
               /\ Queue!search_visibility(u) = Queue!viewable_requests(u)
    <3>1. Queue!pending_card(u) = Queue!Cardinality(Queue!viewable_requests(u) \cap Queue!actionable)
      <4>1. Queue!for_effective_status(Queue!viewable_requests(u), "pending") = Queue!viewable_requests(u) \cap Queue!actionable
        BY DEF Queue!for_effective_status
      <4> QED BY <4>1 DEF Queue!pending_card
    <3>2. Queue!is_staff(u) => Queue!viewable_requests(u) = Queue!There
      BY DEF Queue!is_staff, Queue!viewable_requests
    <3>3. Queue!There \cap Queue!actionable = Queue!actionable
      BY DEF Queue!actionable
    <3>4. Queue!viewable_requests(u) \cap Queue!actionable = Queue!pending_for(u)
      BY DEF Queue!pending_for
    <3> QED BY <2>1, <3>1, <3>2, <3>3, <3>4 DEF Queue!get_data, Queue!search_visibility, Queue!is_staff
  <2> QED BY <2>1, <2>3, <2>2 DEF Queue!NumbersAgree
<1>3. QueueInv => Queue!OfferedIsReachable
  <2> SUFFICES ASSUME QueueInv PROVE Queue!OfferedIsReachable
    OBVIOUS
  <2>1. \A u \in People, i \in Queue!There :
            Queue!approval_card(u, i).decide \/ Queue!approval_card(u, i).cancel => i \in Queue!viewable_requests(u)
    BY DEF Queue!approval_card, Queue!can_decide, Queue!can_cancel, Queue!viewable_requests, Queue!is_staff
  <2>2. \A u \in People : Queue!Cardinality(Queue!register_surfaces(u)) = 1
    <3> TAKE u \in People
    <3> DEFINE one == IF u \in Admins THEN "admin" ELSE "app"
    <3>1. Queue!register_surfaces(u) = {one}
      BY DEF Queue!register_surfaces
    <3> HIDE DEF one
    <3>2. Cardinality({one}) = 1
      BY FS_Singleton
    <3>3. Queue!Cardinality({one}) = Cardinality({one})
      BY DEF Cardinality, Queue!Cardinality
    <3> QED BY <3>1, <3>2, <3>3
  <2>3. \A i \in Queue!There : item[i].status = "expired" => item[i].due # 0 /\ item[i].due <= minute
    BY DEF QueueInv, ExpiredWasDue, Queue!There
  <2> QED BY <2>1, <2>2, <2>3 DEF Queue!OfferedIsReachable
<1> QED BY <1>1, <1>2, <1>3, QueueInit, PTL DEF Spec

-----------------------------------------------------------------------------
(* The registry of Datasets.                                               *)

\* A tool was built for the definition that is registered, or for nothing.
RegInv ==
    /\ reg \in [Data!Keys -> Defs \cup {Data!NoDef}] /\ tools \in [Data!Keys -> Defs \cup {Data!NoDef}]
    /\ built \in BOOLEAN
    /\ \A k \in Data!Keys :
         /\ reg[k] # Data!NoDef => reg[k].key = k
         /\ tools[k] = IF built /\ reg[k].mcp THEN reg[k] ELSE Data!NoDef

LEMMA DefsAreKeyed == \A d \in Defs : d.key \in Data!Keys /\ d.mcp \in BOOLEAN /\ d # Data!NoDef
BY DefsAssumption DEF Data!Keys

LEMMA RegStep == RegInv /\ [Data!RegNext]_dataVars => RegInv'
<1> SUFFICES ASSUME RegInv, [Data!RegNext]_dataVars PROVE RegInv'
  OBVIOUS
<1>0. Data!NoDef.mcp = FALSE
  BY DEF Data!NoDef
<1>1. CASE Data!RegisterTools
  <2>1. \A k \in Data!Keys : reg[k] \in Defs \cup {Data!NoDef} /\ tools[k] = Data!NoDef
    BY <1>1 DEF Data!RegisterTools, RegInv
  <2>2. built' = TRUE /\ reg' = reg /\ tools' = [k \in Data!Keys |-> IF reg[k].mcp THEN reg[k] ELSE Data!NoDef]
    BY <1>1, <2>1 DEF Data!RegisterTools
  <2> QED BY <2>1, <2>2 DEF RegInv
<1>2. ASSUME NEW d \in Defs, Data!Register(d) PROVE RegInv'
  <2>1. d.key \in Data!Keys /\ d.mcp \in BOOLEAN /\ d # Data!NoDef
    BY DefsAreKeyed
  <2>2. /\ reg[d.key] = Data!NoDef /\ reg' = [reg EXCEPT ![d.key] = d] /\ built' = built
        /\ tools' = IF built THEN Data!build_query_tool(tools, d) ELSE tools
    BY <1>2 DEF Data!Register
  <2>3. tools[d.key] = Data!NoDef
    BY <1>0, <2>1, <2>2 DEF RegInv
  <2>4. tools' = IF built /\ d.mcp THEN [tools EXCEPT ![d.key] = d] ELSE tools
    BY <2>2, <2>3 DEF Data!build_query_tool
  <2> QED BY <1>0, <2>1, <2>2, <2>3, <2>4 DEF RegInv
<1>3. CASE UNCHANGED dataVars
  BY <1>3 DEF dataVars, RegInv
<1> QED BY <1>1, <1>2, <1>3 DEF Data!RegNext

\* For any datasets, registered before or after the tools are built: each enabled one has
\* its tool, the tool of the first definition of its key, and what a list names is served.
THEOREM ToolsFollow == Spec => []Data!ToolsFollowRegistry
<1>1. Init => RegInv
  <2>1. Data!NoDef.mcp = FALSE
    BY DEF Data!NoDef
  <2> QED BY <2>1 DEF Init, Data!Init, OneTable, RegInv
<1>2. RegInv /\ [Next]_<<part, crudVars, listVars, calVars, dataVars, queueVars, logVars, docVars>> => RegInv'
  <2> SUFFICES ASSUME RegInv, [Next]_<<part, crudVars, listVars, calVars, dataVars, queueVars, logVars, docVars>>
               PROVE  RegInv'
    OBVIOUS
  <2>1. CASE Data!RegNext
    BY <2>1, RegStep
  <2>2. CASE Data!AskNext
    <3>1. ASSUME NEW dim \in {"auto", "bands", "listed"}, Data!Derive(dim) PROVE UNCHANGED <<reg, tools, built>>
      BY <3>1 DEF Data!Derive
    <3>2. ASSUME NEW key \in DOMAIN chart.counts, Data!Drill(key) PROVE UNCHANGED <<reg, tools, built>>
      BY <3>2 DEF Data!Drill
    <3>3. ASSUME NEW x, NEW rec, Data!Change(x, rec) PROVE UNCHANGED <<reg, tools, built>>
      BY <3>3 DEF Data!Change
    <3>4. ASSUME Data!Aggregate PROVE UNCHANGED <<reg, tools, built>>
      BY <3>4, Zenon DEF Data!Aggregate
    <3>5. ASSUME Data!Csv PROVE UNCHANGED <<reg, tools, built>>
      BY <3>5, Zenon DEF Data!Csv
    <3>6. UNCHANGED <<reg, tools, built>>
      BY <2>2, <3>1, <3>2, <3>3, <3>4, <3>5, Zenon DEF Data!AskNext
    <3> QED BY <3>6 DEF RegInv
  <2>3. CASE UNCHANGED dataVars
    BY <2>3, RegStep
  <2> QED BY <2>1, <2>2, <2>3 DEF Next
<1>3. RegInv => Data!ToolsFollowRegistry
  <2> SUFFICES ASSUME RegInv PROVE Data!ToolsFollowRegistry
    OBVIOUS
  <2>1. \A k \in Data!mcp_list : built => tools[k] # Data!NoDef
    BY DEF Data!mcp_list, Data!list_datasets, RegInv
  <2>2. \A k \in Data!list_datasets(TRUE) : Data!require_api_dataset(k)
    BY DEF Data!list_datasets, Data!require_api_dataset
  <2> QED BY <2>1, <2>2 DEF Data!ToolsFollowRegistry, RegInv, Data!mcp_list, Data!list_datasets
<1> QED BY <1>1, <1>2, <1>3, PTL DEF Spec

-----------------------------------------------------------------------------
(* Doctors.                                                                *)

\* A minted key stays in its test's hands.
Tests == [pc : {"idle", "minted", "asked", "called", "done", "killed"}, user : Testees \cup {0},
          key : {"none", "active", "revoked"},
          out : {"none", "PASS", "WARN", "FAIL", "raised", "unreached", "interrupted"}]
Held(x) == x.key = "active" => x.pc \in {"minted", "asked", "called", "killed"}
DocInv == /\ site \in Sites /\ test \in [Doc!Testers -> Tests]
          /\ \A t \in Doc!Testers : Held(test[t])

\* A step of one test that leaves it sane.
LEMMA TestMoves ==
    ASSUME DocInv, NEW t \in Doc!Testers, NEW r \in Tests, Held(r),
           test' = [test EXCEPT ![t] = r], site' = site
    PROVE  DocInv'
BY DEF DocInv, Held

\* A set of natural numbers has a least element.
LEMMA LeastOf ==
    ASSUME NEW S \in SUBSET Nat, S # {}
    PROVE  \E x \in S : \A y \in S : x <= y
<1> DEFINE R == {ss \in Nat \X Nat : ss[1] < ss[2]}
<1>1. IsWellFoundedOn(R, Nat)
  BY NatLessThanWellFounded DEF OpToRel
<1>2. PICK x \in S : \A y \in S : <<y, x>> \notin R
  <2> HIDE DEF R
  <2> QED BY <1>1, WFMin
<1>3. \A y \in S : x <= y
  <2> TAKE y \in S
  <2>1. x \in Nat /\ y \in Nat
    OBVIOUS
  <2>2. y < x => <<y, x>> \in R
    BY <2>1
  <2> QED BY <1>2, <2>1, <2>2
<1> QED BY <1>3

\* The first of the users there are.
LEMMA SomeoneFirst ==
    ASSUME NEW us \in SUBSET Testees, us # {}
    PROVE  Doc!First(us) \in us
<1>1. us \in SUBSET Nat
  BY TesteesAssumption
<1>2. \E u \in us : \A w \in us : u <= w
  BY <1>1, LeastOf
<1> QED BY <1>2 DEF Doc!First

LEMMA TestingKeeps ==
    ASSUME DocInv, NEW t \in Doc!Testers,
           \/ Doc!Mint(t) \/ Doc!Ask(t) \/ Doc!Call(t) \/ Doc!Finish(t) \/ Doc!Interrupt(t) \/ Doc!Kill(t)
    PROVE  DocInv'
<1>1. test \in [Doc!Testers -> Tests] /\ test[t] \in Tests /\ Held(test[t])
  BY DEF DocInv
<1>2. site' = site
  BY DEF Doc!Mint, Doc!Ask, Doc!Call, Doc!Finish, Doc!Interrupt, Doc!Kill, Doc!OnlyTest
<1>3. CASE Doc!Mint(t)
  <2>1. CASE Doc!Standing = {}
    <3> DEFINE o == IF t = "smoke" THEN "raised" ELSE "WARN"
    <3>1. PICK r : r = [[test[t] EXCEPT !.pc = "done"] EXCEPT !.out = o]
      OBVIOUS
    <3>2. r \in Tests /\ Held(r)
      <4>1. test[t].pc = "idle"
        BY <1>3 DEF Doc!Mint
      <4> QED BY <1>1, <3>1, <4>1 DEF Tests, Held
    <3>3. test' = [test EXCEPT ![t] = r]
      BY <1>1, <1>3, <2>1, <3>1 DEF Doc!Mint, Doc!W
    <3> QED BY <1>2, <3>2, <3>3, TestMoves
  <2>2. CASE Doc!Standing # {}
    <3> DEFINE who == Doc!self_test_user
    <3>1. who \in Testees
      BY <2>2, SomeoneFirst DEF Doc!self_test_user, Doc!Standing
    <3> HIDE DEF who
    <3>2. PICK r : r = [[[test[t] EXCEPT !.pc = "minted"] EXCEPT !.user = who] EXCEPT !.key = "active"]
      OBVIOUS
    <3>3. r \in Tests /\ Held(r)
      BY <1>1, <3>1, <3>2 DEF Tests, Held
    <3>4. test' = [test EXCEPT ![t] = r]
      BY <1>1, <1>3, <2>2, <3>2 DEF Doc!Mint, who
    <3> QED BY <1>2, <3>3, <3>4, TestMoves
  <2> QED BY <2>1, <2>2
<1>4. CASE Doc!Ask(t)
  <2>1. PICK a \in Doc!Answer(t) :
          test' = [test EXCEPT ![t].pc = IF a = Doc!P THEN "asked" ELSE "called", ![t].out = a]
    BY <1>4 DEF Doc!Ask
  <2>2. a \in {"PASS", "FAIL", "raised", "unreached"}
    BY <2>1 DEF Doc!Answer, Doc!Testers, Doc!P, Doc!F
  <2> DEFINE q == IF a = Doc!P THEN "asked" ELSE "called"
  <2>3. q \in {"asked", "called"}
    OBVIOUS
  <2>4. test' = [test EXCEPT ![t].pc = q, ![t].out = a]
    BY <2>1
  <2> HIDE DEF q
  <2>5. PICK r : r = [[test[t] EXCEPT !.pc = q] EXCEPT !.out = a]
    OBVIOUS
  <2>6. r \in Tests /\ Held(r)
    BY <1>1, <2>2, <2>3, <2>5 DEF Tests, Held
  <2>7. test' = [test EXCEPT ![t] = r]
    BY <1>1, <2>4, <2>5
  <2> QED BY <1>2, <2>6, <2>7, TestMoves
<1>5. CASE Doc!Call(t)
  <2> DEFINE o == IF t = "smoke" /\ Doc!pick_tool # {} /\ ~Doc!Usable(t) THEN Doc!F ELSE Doc!P
  <2>1. o \in {"PASS", "FAIL"}
    BY DEF Doc!F, Doc!P
  <2>2. test' = [test EXCEPT ![t].pc = "called", ![t].out = o]
    BY <1>5 DEF Doc!Call
  <2> HIDE DEF o
  <2>3. PICK r : r = [[test[t] EXCEPT !.pc = "called"] EXCEPT !.out = o]
    OBVIOUS
  <2>4. r \in Tests /\ Held(r)
    BY <1>1, <2>1, <2>3 DEF Tests, Held
  <2>5. test' = [test EXCEPT ![t] = r]
    BY <1>1, <2>2, <2>3
  <2> QED BY <1>2, <2>4, <2>5, TestMoves
<1>6. ASSUME NEW x \in Tests PROVE Doc!Finally(x, t) \in Tests /\ Held(Doc!Finally(x, t))
  <2> DEFINE k == IF t = "smoke" /\ x.key = "active" THEN "revoked" ELSE "none"
             o == IF t = "smoke" /\ x.key = "none" THEN "raised" ELSE x.out
  <2>1. k \in {"none", "revoked"} /\ o \in {"none", "PASS", "WARN", "FAIL", "raised", "unreached", "interrupted"}
    BY DEF Tests
  <2>2. Doc!Finally(x, t) = [x EXCEPT !.pc = "done", !.key = k, !.out = o]
    BY DEF Doc!Finally, Tests
  <2> HIDE DEF k, o
  <2>3. PICK r : r = [x EXCEPT !.pc = "done", !.key = k, !.out = o]
    OBVIOUS
  <2>4. r \in Tests /\ r.key = k
    BY <2>1, <2>3 DEF Tests
  <2> QED BY <2>1, <2>2, <2>3, <2>4 DEF Held
<1>7. CASE Doc!Finish(t)
  <2>1. test' = [test EXCEPT ![t] = Doc!Finally(test[t], t)]
    BY <1>1, <1>7 DEF Doc!Finish
  <2> QED BY <1>1, <1>2, <1>6, <2>1, TestMoves
<1>8. CASE Doc!Interrupt(t)
  <2>1. PICK x : x = [test[t] EXCEPT !.out = "interrupted"]
    OBVIOUS
  <2>2. x \in Tests
    BY <1>1, <2>1 DEF Tests
  <2>3. test' = [test EXCEPT ![t] = Doc!Finally(x, t)]
    BY <1>1, <1>8, <2>1 DEF Doc!Interrupt
  <2> QED BY <1>2, <1>6, <2>2, <2>3, TestMoves
<1>9. CASE Doc!Kill(t)
  <2>1. PICK r : r = [test[t] EXCEPT !.pc = "killed"]
    OBVIOUS
  <2>2. r \in Tests /\ Held(r)
    BY <1>1, <2>1 DEF Tests, Held
  <2>3. test' = [test EXCEPT ![t] = r]
    BY <1>1, <1>9, <2>1 DEF Doc!Kill
  <2> QED BY <1>2, <2>2, <2>3, TestMoves
<1> QED BY <1>3, <1>4, <1>5, <1>7, <1>8, <1>9

LEMMA DocStep == DocInv /\ [Doc!Next]_docVars => DocInv'
<1> SUFFICES ASSUME DocInv, [Doc!Next]_docVars PROVE DocInv'
  OBVIOUS
<1>1. CASE Doc!Testing
  BY <1>1, TestingKeeps DEF Doc!Testing
<1>2. ASSUME NEW u \in Testees, NEW how \in {"inactive", "gone"}, Doc!Close(u, how) PROVE DocInv'
  <2>1. /\ site' = site
        /\ test' = [t \in Doc!Testers |-> IF how = "gone" /\ test[t].user = u
                                          THEN [test[t] EXCEPT !.key = "none"] ELSE test[t]]
    BY <1>2 DEF Doc!Close
  <2>2. \A t \in Doc!Testers : test'[t] \in Tests /\ Held(test'[t])
    <3> TAKE t \in Doc!Testers
    <3>1. test[t] \in Tests /\ Held(test[t])
      BY DEF DocInv
    <3>2. PICK r : r = [test[t] EXCEPT !.key = "none"]
      OBVIOUS
    <3>3. r \in Tests /\ Held(r)
      BY <3>1, <3>2 DEF Tests, Held
    <3> QED BY <2>1, <3>1, <3>2, <3>3
  <2> QED BY <2>1, <2>2 DEF DocInv
<1>3. CASE Doc!Migrate
  BY <1>3 DEF Doc!Migrate, DocInv
<1>4. CASE \/ \E f \in AppFiles : Doc!autodiscover(f)
           \/ Doc!McpReady \/ Doc!SearchReady \/ Doc!ExplorerReady \/ Doc!LoadUrls \/ Doc!EditHooks
  <2>1. test' = test /\ site' = site
    BY <1>4 DEF Doc!autodiscover, Doc!McpReady, Doc!SearchReady, Doc!ExplorerReady, Doc!LoadUrls, Doc!EditHooks
  <2> QED BY <2>1 DEF DocInv
<1>5. CASE UNCHANGED docVars
  BY <1>5 DEF docVars, DocInv
<1> QED BY <1>1, <1>2, <1>3, <1>4, <1>5 DEF Doc!Next, Doc!TestNext, Doc!HookNext, Doc!Start

\* The tests mint and take back in any order, with interrupts, kills and closed accounts: a
\* token a doctor or the smoke test minted is never left behind except by a kill, or a Ctrl-C
\* before the try block (a Kill here).  A receiver open to anyone is named, and a database
\* that cannot be used is reported alone.
THEOREM DoctorsAreHonest == Spec => [](Doc!KeyNeverLeft /\ Doc!OpenIsNamed /\ Doc!BrokenSchemaAlone)
<1>1. Init => DocInv
  <2>1. Doc!NoTest \in Tests /\ Held(Doc!NoTest)
    BY DEF Doc!NoTest, Tests, Held
  <2> QED BY <2>1 DEF Init, Doc!Init, DocInv
<1>2. DocInv /\ [Next]_<<part, crudVars, listVars, calVars, dataVars, queueVars, logVars, docVars>> => DocInv'
  <2>1. [Next]_<<part, crudVars, listVars, calVars, dataVars, queueVars, logVars, docVars>> => [Doc!Next]_docVars
    BY DEF Next, Doc!Next
  <2> QED BY <2>1, DocStep
<1>3. DocInv => Doc!OpenIsNamed
  <2> SUFFICES ASSUME DocInv, Doc!Rested, site.hooks, site.inbound, NEW r \in hooked.recs, Doc!Accepts(r)
               PROVE  \/ r \in Doc!unsigned /\ <<"signatures", "WARN">> \in Doc!webhook_doctor
                      \/ r \in Doc!unknown_verifier /\ Doc!check_only(Doc!webhook_doctor) = 1
                      \/ r.verifier \in Doc!Verifiers \ {"hmac"}
    BY DEF Doc!OpenIsNamed, Doc!W
  <2>1. r \in Doc!On(hooked.recs) /\ ~r.signed
    BY DEF Doc!Accepts, Doc!On
  <2>2. <<"schema", "FAIL">> \notin Doc!schema_check
    BY DEF Doc!Rested, Doc!schema_check, Doc!F, Doc!W
  <2>3. Doc!hook_verification \subseteq Doc!webhook_doctor
    BY <2>2 DEF Doc!webhook_doctor, Doc!Guarded, Doc!hook_inbound, Doc!F
  <2>4. CASE r.verifier = "hmac"
    <3>1. r \in Doc!unsigned
      BY <2>1, <2>4 DEF Doc!unsigned
    <3> QED BY <2>3, <3>1 DEF Doc!hook_verification, Doc!W
  <2>5. CASE r.verifier # "hmac" /\ r.verifier \notin Doc!Verifiers
    <3>1. r \in Doc!unknown_verifier
      BY <2>1, <2>5 DEF Doc!unknown_verifier, Doc!CustomVerifier
    <3>2. <<"verifiers", "FAIL">> \in Doc!webhook_doctor
      BY <2>3, <3>1 DEF Doc!hook_verification, Doc!F
    <3> QED BY <3>1, <3>2 DEF Doc!check_only, Doc!Failing, Doc!F
  <2> QED BY <2>4, <2>5
<1>4. DocInv => Doc!BrokenSchemaAlone
  <2> SUFFICES ASSUME DocInv, <<"schema", Doc!F>> \in Doc!schema_check
               PROVE  \A d \in {Doc!api_doctor, Doc!mcp_doctor, Doc!webhook_doctor} :
                          d \in {{<<"schema", Doc!F>>}, {<<"enabled", Doc!P>>}}
    BY DEF Doc!BrokenSchemaAlone
  <2>1. Doc!schema_check = {<<"schema", Doc!F>>}
    BY SitesAssumption DEF DocInv, Doc!schema_check, Doc!F, Doc!W
  <2>2. ASSUME NEW checks PROVE Doc!Guarded(checks) = {<<"schema", Doc!F>>}
    BY <2>1 DEF Doc!Guarded
  <2> QED BY <2>2 DEF Doc!api_doctor, Doc!mcp_doctor, Doc!webhook_doctor
<1>5. DocInv => Doc!KeyNeverLeft
  BY DEF DocInv, Held, Doc!KeyNeverLeft
<1> QED BY <1>1, <1>2, <1>3, <1>4, <1>5, PTL DEF Spec

----------------------------------------------------------------------------
(* ActivityLog: ranks among the rows of the log, and the prune.            *)

\* The instance counts as the library does.
LEMMA LogCounts == ASSUME NEW S PROVE Log!Cardinality(S) = Cardinality(S)
BY DEF Cardinality, Log!Cardinality

\* A log, as a set of rows.
Stamped(S) ==
    /\ IsFiniteSet(S)
    /\ \A r \in S : r.pk \in Nat /\ r.at \in Nat /\ "pk" \in DOMAIN r /\ "at" \in DOMAIN r
    /\ \A r, s \in S : r.pk = s.pk => r = s

Over(S, r) == {s \in S : Log!Newer(s, r)}
Rank(S, r) == Cardinality(Over(S, r))

\* Of two rows one is the newer.
LEMMA NewerOrders ==
    ASSUME NEW S, Stamped(S)
    PROVE  /\ \A r \in S : ~Log!Newer(r, r)
           /\ \A r, s \in S : r = s \/ Log!Newer(r, s) \/ Log!Newer(s, r)
           /\ \A r, s, t \in S : Log!Newer(r, s) /\ Log!Newer(s, t) => Log!Newer(r, t)
BY DEF Stamped, Log!Newer

LEMMA RankTyped ==
    ASSUME NEW S, Stamped(S), NEW r \in S
    PROVE  IsFiniteSet(Over(S, r)) /\ Rank(S, r) \in Nat /\ Rank(S, r) <= Cardinality(S)
           /\ Cardinality(S) \in Nat
<1>1. Over(S, r) \in SUBSET S
  BY DEF Over
<1>2. IsFiniteSet(S)
  BY DEF Stamped
<1>3. IsFiniteSet(Over(S, r)) /\ Cardinality(Over(S, r)) <= Cardinality(S)
  BY <1>1, <1>2, FS_Subset
<1> QED BY <1>2, <1>3, FS_CardinalityType DEF Rank

\* An older row has a higher rank.
LEMMA RankGrows ==
    ASSUME NEW S, Stamped(S), NEW r \in S, NEW x \in S, Log!Newer(r, x)
    PROVE  Rank(S, r) < Rank(S, x)
<1>1. Over(S, r) \cup {r} \in SUBSET Over(S, x)
  BY NewerOrders DEF Over
<1>2. r \notin Over(S, r)
  BY NewerOrders DEF Over
<1>3. Cardinality(Over(S, r) \cup {r}) = Rank(S, r) + 1
  BY <1>2, RankTyped, FS_AddElement DEF Rank
<1>4. Cardinality(Over(S, r) \cup {r}) <= Rank(S, x)
  BY <1>1, RankTyped, FS_Subset DEF Rank
<1>5. Rank(S, r) \in Nat /\ Rank(S, x) \in Nat
  BY RankTyped
<1> QED BY <1>3, <1>4, <1>5

\* Some rows of a log have an oldest among them.
LEMMA OldestExists ==
    ASSUME NEW S, Stamped(S), NEW T \in SUBSET S, T # {}
    PROVE  \E r \in T : \A t \in T \ {r} : Log!Newer(t, r)
<1> DEFINE c == Cardinality(S)
           left == {c - Rank(S, t) : t \in T}
<1>1. \A t \in T : Rank(S, t) \in Nat /\ c \in Nat /\ c - Rank(S, t) \in Nat
  <2> TAKE t \in T
  <2>1. Rank(S, t) \in Nat /\ Rank(S, t) <= c /\ c \in Nat
    BY RankTyped
  <2> HIDE DEF c
  <2> QED BY <2>1
<1>2. left \in SUBSET Nat /\ left # {}
  BY <1>1
<1>3. PICK m \in left : \A n \in left : m <= n
  BY <1>2, LeastOf
<1>4. PICK r \in T : m = c - Rank(S, r)
  OBVIOUS
<1>5. ASSUME NEW t \in T \ {r} PROVE Log!Newer(t, r)
  <2>1. c - Rank(S, r) <= c - Rank(S, t)
    BY <1>3, <1>4
  <2>2. Rank(S, t) \in Nat /\ Rank(S, r) \in Nat /\ c \in Nat
    BY <1>1
  <2>3. ~(Rank(S, r) < Rank(S, t))
    <3> HIDE DEF c
    <3> QED BY <2>1, <2>2
  <2>4. ~Log!Newer(r, t)
    BY <2>3, RankGrows
  <2> QED BY <2>4, NewerOrders
<1> QED BY <1>5

\* A log has a row of every rank below its size.
LEMMA RankExists ==
    ASSUME NEW S, Stamped(S), NEW n \in Nat, n < Cardinality(S)
    PROVE  \E r \in S : Rank(S, r) = n
<1> DEFINE low == {r \in S : n <= Rank(S, r)}
           ranks == {Rank(S, r) : r \in low}
<1>1. low # {}
  <2>1. IsFiniteSet(S) /\ Cardinality(S) \in Nat /\ S # {}
    BY FS_CardinalityType, FS_EmptySet DEF Stamped
  <2>2. PICK r \in S : \A t \in S \ {r} : Log!Newer(t, r)
    BY <2>1, OldestExists
  <2>3. Over(S, r) = S \ {r}
    BY <2>2, NewerOrders DEF Over
  <2>4. Rank(S, r) = Cardinality(S) - 1
    BY <2>1, <2>3, FS_RemoveElement DEF Rank
  <2> QED BY <2>1, <2>4
<1>2. \A r \in low : Rank(S, r) \in Nat
  BY RankTyped
<1>3. PICK m \in ranks : \A k \in ranks : m <= k
  <2>1. ranks \in SUBSET Nat /\ ranks # {}
    BY <1>1, <1>2
  <2> QED BY <2>1, LeastOf
<1>4. PICK r \in low : m = Rank(S, r)
  OBVIOUS
<1>5. CASE Rank(S, r) # n
  <2>1. Rank(S, r) \in Nat /\ n < Rank(S, r) /\ IsFiniteSet(Over(S, r))
    BY <1>2, <1>5, RankTyped
  <2>2. Over(S, r) # {} /\ Over(S, r) \in SUBSET S
    BY <2>1, FS_EmptySet DEF Rank, Over
  <2>3. PICK s \in Over(S, r) : \A t \in Over(S, r) \ {s} : Log!Newer(t, s)
    BY <2>2, OldestExists
  <2>4. Over(S, s) = Over(S, r) \ {s}
    BY <2>3, NewerOrders DEF Over
  <2>5. Rank(S, s) = Rank(S, r) - 1
    BY <2>1, <2>4, FS_RemoveElement DEF Rank
  <2>6. s \in low
    BY <2>1, <2>2, <2>5
  <2>7. Rank(S, r) <= Rank(S, s)
    BY <1>3, <1>4, <2>6
  <2> QED BY <2>1, <2>5, <2>7
<1> QED BY <1>4, <1>5

\* Where keys and times agree, a row with a smaller key than the one of rank n - 1 is not
\* among the n newest.
LEMMA CutSpares ==
    ASSUME NEW S, Stamped(S), NEW n \in Nat \ {0}, NEW r \in S, Rank(S, r) = n - 1,
           \A a, b \in S : a.pk < b.pk => a.at <= b.at,
           NEW x \in S, x.pk < r.pk
    PROVE  x \notin Log!Newest(S, n)
<1>1. Log!Newer(r, x)
  <2>1. x.at <= r.at /\ x.at \in Nat /\ r.at \in Nat
    BY DEF Stamped
  <2> QED BY <2>1 DEF Log!Newer
<1>2. Rank(S, x) \in Nat /\ n - 1 < Rank(S, x)
  BY <1>1, RankGrows, RankTyped
<1>3. x \in Log!Newest(S, n) => Rank(S, x) < n
  BY LogCounts DEF Log!Newest, Rank, Over
<1> QED BY <1>2, <1>3

\* What a worker is at.
AtWork(j) ==
    \/ j = Log!Idle
    \/ /\ DOMAIN j = {"pc", "at", "t", "as"} /\ j = [x \in {"pc", "at", "t", "as"} |-> j[x]]
       /\ j.pc \in {"record", "insert"} /\ j.at \in Nat

\* Between its statements the prune knows that there are more rows than are kept, then the key
\* of the row that is to be the last kept.
CutSane(p) ==
    /\ DOMAIN p = {"pc", "cutoff", "seen"}
    /\ p.pc = "cut" => KeptRows < Cardinality(log)
    /\ p.pc = "delete" =>
         Stamped(p.seen) /\ \E r \in p.seen : Rank(p.seen, r) = KeptRows - 1 /\ p.cutoff = r.pk

LogInv ==
    /\ Stamped(log) /\ nextPk \in Nat /\ hour \in Nat
    /\ \A r \in log : r.pk < nextPk
    /\ worker = [w \in Requests |-> worker[w]] /\ \A w \in Requests : AtWork(worker[w])
    /\ CutSane(prune)
    /\ Log!PruneKeepsNewest

\* A step of a worker: it may insert one row.
LEMMA WorkerKeeps ==
    ASSUME LogInv, NEW w \in Requests,
           Log!Stamp(w) \/ Log!Insert(w) \/ \E t \in Traffic : Log!Answer(w, t)
    PROVE  LogInv'
<1>1. AtWork(worker[w]) /\ hour' = hour /\ prune' = prune /\ lost' = lost
  BY DEF LogInv, Log!Stamp, Log!Insert, Log!Answer
<1>2. \E j : AtWork(j) /\ worker' = [worker EXCEPT ![w] = j]
  <2>1. CASE Log!Stamp(w)
    <3> DEFINE j == [worker[w] EXCEPT !.pc = "insert", !.at = hour]
    <3>1. worker[w].pc = "record" /\ worker[w] # Log!Idle
      BY <2>1 DEF Log!Stamp, Log!Idle
    <3>2. worker' = [worker EXCEPT ![w] = j]
      BY <2>1 DEF Log!Stamp
    <3>3. hour \in Nat /\ DOMAIN worker[w] = {"pc", "at", "t", "as"}
      BY <1>1, <3>1 DEF AtWork, LogInv
    <3>4. DOMAIN j = {"pc", "at", "t", "as"} /\ j = [x \in {"pc", "at", "t", "as"} |-> j[x]]
      BY <3>3
    <3>5. j.pc = "insert" /\ j.at = hour
      BY <3>3
    <3> HIDE DEF j
    <3> QED BY <3>2, <3>3, <3>4, <3>5 DEF AtWork
  <2>2. CASE Log!Insert(w)
    BY <2>2 DEF AtWork, Log!Insert
  <2>3. CASE \E t \in Traffic : Log!Answer(w, t)
    <3>1. PICK t \in Traffic : Log!Answer(w, t)
      BY <2>3
    <3>2. CASE t.excluded
      <4>1. worker' = [worker EXCEPT ![w] = worker[w]]
        BY <3>1, <3>2 DEF Log!Answer, LogInv
      <4> QED BY <1>1, <4>1
    <3>3. CASE ~t.excluded
      <4>1. worker' = [worker EXCEPT ![w] = [pc |-> "record", at |-> 0, t |-> t, as |-> Log!authenticate(t)]]
        BY <3>1, <3>3 DEF Log!Answer
      <4>2. PICK j : j = [pc |-> "record", at |-> 0, t |-> t, as |-> Log!authenticate(t)]
        OBVIOUS
      <4>3. AtWork(j)
        BY <4>2 DEF AtWork
      <4> QED BY <4>1, <4>2, <4>3
    <3> QED BY <3>2, <3>3
  <2> QED BY <2>1, <2>2, <2>3
<1>3. worker' = [v \in Requests |-> worker'[v]] /\ \A v \in Requests : AtWork(worker'[v])
  BY <1>2 DEF LogInv
<1>4. Log!PruneKeepsNewest'
  BY <1>1 DEF LogInv, Log!PruneKeepsNewest, Log!Newest
<1>5. CASE log' = log /\ nextPk' = nextPk
  BY <1>1, <1>3, <1>4, <1>5 DEF LogInv, CutSane
<1>6. CASE ~(log' = log /\ nextPk' = nextPk)
  <2>1. Log!Insert(w)
    BY <1>6 DEF Log!Stamp, Log!Answer
  <2>2. worker[w].at \in Nat
    BY <1>1, <2>1 DEF AtWork, Log!Idle, Log!Insert
  <2> DEFINE as == worker[w].as
             sent == worker[w].t
             new == [pk |-> nextPk, at |-> worker[w].at, path |-> sent.path, ip |-> sent.ip,
                     ua |-> sent.ua, method |-> sent.method, code |-> as.code,
                     user |-> IF as.user \in {"ann", "bob"} /\ account[as.user].there
                              THEN as.user ELSE Log!Nobody,
                     token |-> as.token]
  <2>3. log' = log \cup {new} /\ nextPk' = nextPk + 1
    BY <1>6, <2>1 DEF Log!Insert
  <2>4. new.pk = nextPk /\ new.at = worker[w].at /\ "pk" \in DOMAIN new /\ "at" \in DOMAIN new
    OBVIOUS
  <2> HIDE DEF new, as, sent
  <2>5. PICK r : /\ log' = log \cup {r} /\ nextPk' = nextPk + 1
                 /\ r.pk = nextPk /\ r.at = worker[w].at /\ "pk" \in DOMAIN r /\ "at" \in DOMAIN r
    BY <2>3, <2>4
  <2>6. r \notin log
    BY <2>5 DEF LogInv
  <2>7. IsFiniteSet(log') /\ Cardinality(log') = Cardinality(log) + 1 /\ Cardinality(log) \in Nat
    BY <2>5, <2>6, FS_AddElement, FS_CardinalityType DEF LogInv, Stamped
  <2>8. Stamped(log') /\ nextPk' \in Nat /\ \A s \in log' : s.pk < nextPk'
    BY <2>2, <2>5, <2>7 DEF LogInv, Stamped
  <2>9. CutSane(prune)'
    BY <1>1, <2>7, KeptRowsAssumption DEF LogInv, CutSane
  <2> QED BY <1>1, <1>3, <1>4, <2>8, <2>9 DEF LogInv
<1> QED BY <1>5, <1>6

\* A step of the prune.
LEMMA PruningKeeps ==
    ASSUME LogInv, Log!PruneCount \/ Log!PruneCut \/ Log!PruneDelete
    PROVE  LogInv'
<1>1. worker' = worker /\ hour' = hour /\ nextPk' = nextPk
  BY DEF Log!PruneCount, Log!PruneCut, Log!PruneDelete
<1>2. CASE Log!PruneCount
  <2>1. CutSane(prune)'
    BY <1>2, LogCounts DEF Log!PruneCount, CutSane
  <2> QED BY <1>1, <1>2, <2>1 DEF Log!PruneCount, LogInv, Log!PruneKeepsNewest, Log!Newest
<1>3. CASE Log!PruneCut
  <2>1. Stamped(log) /\ KeptRows < Cardinality(log)
    BY <1>3 DEF Log!PruneCut, LogInv, CutSane
  <2>2. \E r \in log : Rank(log, r) = KeptRows - 1
    <3>1. KeptRows - 1 \in Nat /\ Cardinality(log) \in Nat
      BY <2>1, KeptRowsAssumption, FS_CardinalityType DEF Stamped
    <3>2. KeptRows - 1 < Cardinality(log)
      BY <2>1, <3>1, KeptRowsAssumption
    <3> QED BY <2>1, <3>1, <3>2, RankExists
  <2>3. prune' = [pc |-> "delete", seen |-> log,
                  cutoff |-> (CHOOSE r \in log : Rank(log, r) = KeptRows - 1).pk]
    BY <1>3, LogCounts DEF Log!PruneCut, Rank, Over
  <2>4. CutSane(prune)'
    BY <2>1, <2>2, <2>3 DEF CutSane
  <2> QED BY <1>1, <1>3, <2>4 DEF Log!PruneCut, LogInv, Log!PruneKeepsNewest, Log!Newest
<1>4. CASE Log!PruneDelete
  <2>1. PICK r \in prune.seen : Rank(prune.seen, r) = KeptRows - 1 /\ prune.cutoff = r.pk
    BY <1>4 DEF Log!PruneDelete, LogInv, CutSane
  <2>2. Stamped(prune.seen)
    BY <1>4 DEF Log!PruneDelete, LogInv, CutSane
  <2>3. lost'.rows = {x \in log : x.pk < r.pk} /\ lost'.seen = prune.seen
    BY <1>4, <2>1 DEF Log!PruneDelete
  <2>4. ASSUME \A a, b \in prune.seen : a.pk < b.pk => a.at <= b.at
        PROVE  {x \in log : x.pk < r.pk} \cap Log!Newest(prune.seen, KeptRows) = {}
    <3>1. Log!Newest(prune.seen, KeptRows) \subseteq prune.seen
      BY DEF Log!Newest
    <3> QED BY <2>1, <2>2, <2>4, <3>1, KeptRowsAssumption, CutSpares
  <2>5. Log!PruneKeepsNewest'
    BY <2>3, <2>4 DEF Log!PruneKeepsNewest, Log!Newest
  <2>6. log' \in SUBSET log /\ IsFiniteSet(log')
    BY <1>4, FS_Subset DEF Log!PruneDelete, LogInv, Stamped
  <2>7. Stamped(log') /\ \A s \in log' : s.pk < nextPk'
    BY <1>1, <2>6 DEF LogInv, Stamped
  <2>8. CutSane(prune)'
    BY <1>4 DEF Log!PruneDelete, LogInv, CutSane
  <2> QED BY <1>1, <2>5, <2>7, <2>8 DEF LogInv
<1> QED BY <1>2, <1>3, <1>4

\* A deleted account's rows lose their user, and stay as many.
LEMMA DeletedUserKeeps ==
    ASSUME LogInv, NEW u, Log!DeleteUser(u)
    PROVE  LogInv'
<1> DEFINE bare(r) == IF r.user = u THEN [r EXCEPT !.user = Log!Nobody] ELSE r
           f == [r \in log |-> bare(r)]
<1>1. log' = {bare(r) : r \in log}
  BY DEF Log!DeleteUser
<1>2. \A r \in log : /\ bare(r).pk = r.pk /\ bare(r).at = r.at
                     /\ "pk" \in DOMAIN bare(r) /\ "at" \in DOMAIN bare(r)
  BY DEF LogInv, Stamped
<1> HIDE DEF bare
<1>3. f \in Surjection(log, log') /\ f \in Injection(log, log')
  <2>1. f \in [log -> log'] /\ \A s \in log' : \E r \in log : f[r] = s
    BY <1>1
  <2>2. \A r, s \in log : f[r] = f[s] => r = s
    BY <1>2 DEF LogInv, Stamped
  <2> QED BY <2>1, <2>2 DEF Surjection, Injection, IsInjective
<1>4. IsFiniteSet(log') /\ Cardinality(log') = Cardinality(log)
  <2> HIDE DEF f
  <2> QED BY <1>3, FS_Surjection DEF LogInv, Stamped
<1>5. Stamped(log') /\ \A s \in log' : s.pk < nextPk
  <2>1. \A s \in log' : s.pk \in Nat /\ s.at \in Nat /\ "pk" \in DOMAIN s /\ "at" \in DOMAIN s /\ s.pk < nextPk
    BY <1>1, <1>2 DEF LogInv, Stamped
  <2>2. \A s, t \in log' : s.pk = t.pk => s = t
    BY <1>1, <1>2 DEF LogInv, Stamped
  <2> QED BY <1>4, <2>1, <2>2 DEF Stamped
<1>6. worker' = worker /\ hour' = hour /\ nextPk' = nextPk /\ prune' = prune /\ lost' = lost
  BY DEF Log!DeleteUser
<1> QED BY <1>4, <1>5, <1>6 DEF LogInv, CutSane, Log!PruneKeepsNewest, Log!Newest

\* Whatever is inserted between its statements, and whichever accounts are closed meanwhile, a
\* prune deletes none of the newest rows of the log it looked at, as long as their keys and
\* their times agree.
THEOREM PruningKeepsNewest == Spec => []Log!PruneKeepsNewest
<1>1. Init => LogInv
  <2> SUFFICES ASSUME Init PROVE LogInv
    OBVIOUS
  <2>1. Log!Init
    BY DEF Init
  <2>2. Stamped(log) /\ log = {} /\ nextPk \in Nat /\ hour \in Nat
    BY <2>1, FS_EmptySet DEF Log!Init, Stamped
  <2>3. worker = [w \in Requests |-> worker[w]] /\ \A w \in Requests : AtWork(worker[w])
    BY <2>1 DEF Log!Init, AtWork
  <2>4. CutSane(prune) /\ Log!PruneKeepsNewest
    BY <2>1 DEF Log!Init, CutSane, Log!PruneKeepsNewest
  <2> QED BY <2>2, <2>3, <2>4 DEF LogInv
<1>2. LogInv /\ [Next]_<<part, crudVars, listVars, calVars, dataVars, queueVars, logVars, docVars>> => LogInv'
  <2> SUFFICES ASSUME LogInv, [Next]_<<part, crudVars, listVars, calVars, dataVars, queueVars, logVars, docVars>>
               PROVE  LogInv'
    OBVIOUS
  <2>1. Log!Next \/ UNCHANGED logVars
    BY DEF Next
  <2>2. CASE \/ \E k \in {"k"} : Log!Revoke(k)
             \/ \E t \in Traffic : Log!LockOut(t.ip)
             \/ Log!Tick
             \/ UNCHANGED logVars
    <3>1. /\ log' = log /\ nextPk' = nextPk /\ worker' = worker /\ prune' = prune /\ lost' = lost
          /\ hour' = hour \/ hour' = hour + 1
      BY <2>2 DEF Log!Revoke, Log!LockOut, Log!Tick, logVars
    <3> QED BY <3>1 DEF LogInv, CutSane, Log!PruneKeepsNewest, Log!Newest
  <2> QED BY <2>1, <2>2, WorkerKeeps, PruningKeeps, DeletedUserKeeps DEF Log!Next
<1>3. LogInv => Log!PruneKeepsNewest
  BY DEF LogInv
<1> QED BY <1>1, <1>2, <1>3, PTL DEF Spec

----------------------------------------------------------------------------
(* CrudLists: which rows.                                                  *)

ListInv == part = "lists" => here \subseteq Table /\ lask \in Lists!Questions

\* A filter or search takes rows away from what it is given.
LEMMA PartsNarrow ==
    ASSUME NEW S
    PROVE  /\ \A v : Lists!by_flag(S, v) \subseteq S /\ Lists!by_span(S, v) \subseteq S
           /\ Lists!apply_search(S) \subseteq S /\ Lists!api_search(S) \subseteq S
<1>1. ASSUME NEW v PROVE Lists!by_flag(S, v) \subseteq S /\ Lists!by_span(S, v) \subseteq S
  <2>1. Lists!by_flag(S, v) \in {{x \in S : x.flag}, {x \in S : ~x.flag}, S}
    BY DEF Lists!by_flag
  <2>2. Lists!by_span(S, v) \in {{x \in S : x.day = 0}, {x \in S : x.day = 1}, {x \in S : x.day <= 7},
                                 {x \in S : Lists!ThisMonth(x)}, S}
    BY DEF Lists!by_span
  <2> QED BY <2>1, <2>2
<1>2. Lists!apply_search(S) \subseteq S /\ Lists!api_search(S) \subseteq S
  BY DEF Lists!apply_search, Lists!api_search
<1> QED BY <1>1, <1>2

\* Searching over every field as stored and over the columns by their type agree, a one-digit
\* month apart; so do a FilterSet and the toolbar's reading, of what both know.
LEMMA ReadAlike ==
    ASSUME NEW S, lask \in Lists!Questions, Lists!api_filter_ok, lask.q # "month", lask.flag # "yes"
    PROVE  Lists!api_search(S) = Lists!apply_search(S) /\ Lists!api_filter(S) = Lists!apply_filters(S)
<1>1. lask.flag \in {"", "true", "false", "yes", "bogus"}
  BY DEF Lists!Questions, Lists!Flags
<1>2. Lists!api_search(S) = Lists!apply_search(S)
  BY DEF Lists!api_search, Lists!apply_search
<1>3. CASE lask.override
  BY <1>2, <1>3 DEF Lists!api_filter
<1>4. CASE ~lask.override
  <2>1. lask.span = ""
    BY <1>4 DEF Lists!api_filter_ok
  <2>2. ASSUME NEW T PROVE Lists!by_span(T, "") = T
    BY DEF Lists!by_span
  <2>3. Lists!apply_filters(S) = Lists!by_flag(S, lask.flag)
    BY <2>1, <2>2 DEF Lists!apply_filters
  <2>4. Lists!api_filter(S) = Lists!by_flag(S, IF lask.flag \in {"true", "false"} THEN lask.flag ELSE "")
    BY <1>4 DEF Lists!api_filter
  <2>5. lask.flag \notin {"true", "false"} => Lists!by_flag(S, lask.flag) = S /\ Lists!by_flag(S, "") = S
    BY DEF Lists!by_flag
  <2> QED BY <1>2, <2>3, <2>4, <2>5
<1> QED BY <1>3, <1>4

\* Whatever is asked, and whatever is inserted or deleted during a walk: every transport lists
\* rows of the caller's scope alone, and the same rows as far as REST takes the question; a
\* page that hides some says so; a toolbar value selects what is counted for it.
THEOREM TransportsListAlike == Spec => [](part = "lists" => Lists!ListsAgree)
<1>1. Init => ListInv
  BY DEF Init, Lists!Init, ListInv
<1>2. ListInv /\ [Next]_<<part, crudVars, listVars, calVars, dataVars, queueVars, logVars, docVars>> => ListInv'
  <2> SUFFICES ASSUME ListInv, [Next]_<<part, crudVars, listVars, calVars, dataVars, queueVars, logVars, docVars>>,
                      part' = "lists"
               PROVE  (here \subseteq Table /\ lask \in Lists!Questions)'
    BY DEF ListInv
  <2>1. part = "lists" /\ (Lists!Next \/ UNCHANGED listVars)
    BY DEF Next
  <2>2. here \subseteq Table /\ lask \in Lists!Questions
    BY <2>1 DEF ListInv
  <2>3. CASE \E x \in Table : Lists!Change(x)
    BY <2>2, <2>3 DEF Lists!Change
  <2>4. CASE ~(\E x \in Table : Lists!Change(x))
    <3>1. here' = here /\ lask' = lask
      BY <2>1, <2>4 DEF Lists!Next, Lists!HtmlPage, Lists!ApiPage, Lists!ApiExport, Lists!McpList, Lists!ScLs,
                        Lists!FetchLimited, listVars
    <3> QED BY <2>2, <3>1
  <2> QED BY <2>3, <2>4
<1>3. ASSUME ListInv, part = "lists" PROVE Lists!ListsAgree
  <2> DEFINE scope == Lists!get_list_queryset(here)
  <2>1. here \subseteq Table /\ lask \in Lists!Questions
    BY <1>3 DEF ListInv
  <2>2. \A x \in scope : x.flag \in BOOLEAN
    BY <2>1, TableAssumption DEF Lists!get_list_queryset
  <2> HIDE DEF scope
  <2>3. \A via \in Lists!Via : Lists!Rows(via) \subseteq scope
    <3>1. ASSUME NEW S PROVE Lists!apply_filters(S) \subseteq S /\ Lists!api_filter(S) \subseteq S
      BY PartsNarrow DEF Lists!apply_filters, Lists!api_filter
    <3>2. Lists!apply_filters(Lists!apply_search(scope)) \subseteq scope
      BY <3>1, PartsNarrow
    <3>3. Lists!api_filter(Lists!api_search(scope)) \subseteq scope
      BY <3>1, PartsNarrow
    <3> QED BY <3>2, <3>3 DEF Lists!Rows, scope
  <2>4. Lists!api_filter_ok /\ lask.q # "month" /\ lask.flag # "yes" => Lists!Rows("rest") = Lists!Rows("html")
    BY <2>1, ReadAlike DEF Lists!Rows
  <2>5. Lists!Rows("html") # scope => Lists!has_active_filters
    <3>1. Lists!Rows("html") = Lists!apply_filters(Lists!apply_search(scope))
      BY DEF Lists!Rows, scope
    <3>2. lask.q = "" => Lists!apply_search(scope) = scope
      BY DEF Lists!apply_search
    <3>3. lask.flag = "" => Lists!by_flag(scope, lask.flag) = scope
      BY DEF Lists!by_flag
    <3>4. lask.span = "" => Lists!by_span(scope, lask.span) = scope
      BY DEF Lists!by_span
    <3> QED BY <3>1, <3>2, <3>3, <3>4 DEF Lists!apply_filters, Lists!has_active_filters
  <2>6. \A v \in Lists!filter_meta.flag : Lists!Cardinality(Lists!by_flag(scope, v)) = Lists!count_by(scope)[v]
    <3>1. Lists!by_flag(scope, "true") = {x \in scope : x.flag <=> "true" = "true"}
      BY <2>2 DEF Lists!by_flag
    <3>2. Lists!by_flag(scope, "false") = {x \in scope : x.flag <=> "false" = "true"}
      BY <2>2 DEF Lists!by_flag
    <3> QED BY <3>1, <3>2 DEF Lists!filter_meta, Lists!count_by
  <2>7. \A v \in Lists!filter_meta.span : Lists!by_span(Table, v) # Table \/ v = "week"
    <3>1. PICK x \in Table : x.day >= 2 /\ x.day \in Nat
      BY TableAssumption
    <3>2. x \notin Lists!by_span(Table, "today") /\ x \notin Lists!by_span(Table, "yesterday")
          /\ x \notin Lists!by_span(Table, "month")
      BY <3>1 DEF Lists!by_span, Lists!ThisMonth
    <3> QED BY <3>2 DEF Lists!filter_meta
  <2> QED BY <2>3, <2>4, <2>5, <2>6, <2>7 DEF Lists!ListsAgree, scope
<1> QED BY <1>1, <1>2, <1>3, PTL DEF Spec

----------------------------------------------------------------------------
\* What the pages, schemas, tool lists, cards, trails and doctors say is so, of any
\* declarations, rows, users, requests, kinds, definitions and installations, and a prune of the
\* log keeps the newest.
THEOREM WhatIsShownIsServed == Spec => []ShownIsServed
<1>1. /\ Crud!AdvertisedIsServed /\ (Crud!TrailTrue /\ Crud!FormHolds)
      /\ (Queue!NumbersAgree /\ Queue!OfferedIsReachable) /\ Data!ToolsFollowRegistry
      /\ (Doc!KeyNeverLeft /\ Doc!OpenIsNamed /\ Doc!BrokenSchemaAlone) /\ Log!PruneKeepsNewest
      /\ (part = "lists" => Lists!ListsAgree)
      => ShownIsServed
  BY DEF ShownIsServed
<1> QED BY <1>1, AdvertisedAndServed, TrailIsTrue, QueueAgrees, ToolsFollow, DoctorsAreHonest, PruningKeepsNewest,
           TransportsListAlike, PTL
=============================================================================
