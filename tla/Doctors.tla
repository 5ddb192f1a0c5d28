------------------------------ MODULE Doctors -------------------------------
(***************************************************************************)
(* What an installation offers is put together while it starts: the core   *)
(* app imports every app's views, the MCP app builds tools for the views   *)
(* registered by then, the search app indexes, the Explorer fills in       *)
(* models nobody declared, and the URL conf, loaded last, imports what is  *)
(* left and mounts the REST endpoints.  Four doctors, two health pages,    *)
(* dashboard widgets and monitors then report on the outcome, each with    *)
(* code of its own; two of them and a smoke test also mint a token, use it *)
(* and take it back.                                                       *)
(*                                                                         *)
(* A view: [id, file, model, api, mcp, search, hook (enable_webhooks),     *)
(* test (its file is a test), base (of its tool names), early (its class   *)
(* statement comes before the one that breaks the import), mounted,        *)
(* resolves (its list URL under the registered name), writes (it has more  *)
(* than list and detail), breaks (tool registration raises)].  The order   *)
(* of ids is the order of definition.                                      *)
(***************************************************************************)
EXTENDS Integers, Sequences, FiniteSets, FiniteSetsExt, SequencesExt

CONSTANTS
    Views,       \* the views of the code
    Auto,        \* files autodiscovery imports: an app's views.py
    Broken,      \* files whose import raises
    Late,        \* files the URL conf imports
    Explored,    \* models the Explorer has an admin for
    Sites,       \* settings and state of the installation
    Custom,      \* register_api_path entries: [path, method, resolves]
    Users, Staff,
    MaxTests,    \* bound on tests started
    Endpoints,   \* webhook endpoints there can be: [on, allowed, filter]
    Receivers    \* webhook receivers there can be: [on, handler, verifier, signed]

Testers == {"api", "mcp", "smoke"}   \* api_doctor, mcp_doctor, mcp_smoke

VARIABLES
    site,    \* one of Sites
    boot,    \* "core", "mcp", "search", "explorer", "urls", "served"
    tried,   \* files imported, or tried
    reg,     \* CRUDView._registry in order of insertion
    apis,    \* _api_registry
    tools,   \* TOOL_REGISTRY: [name, kind, of (a view, 0 for none)]
    found,   \* views in _search_registry
    account, \* user -> "active", "inactive", "gone"
    test,    \* tester -> [pc, user, key, out]
    hooked   \* webhook rows: [ends, recs, overdue]

vars == <<site, boot, tried, reg, apis, tools, found, account, test, hooked>>

NoTest == [pc |-> "idle", user |-> 0, key |-> "none", out |-> "none"]
Clone(m) == [id |-> 0, file |-> "explorer", model |-> m, api |-> FALSE, mcp |-> FALSE, search |-> FALSE,
             hook |-> FALSE, test |-> FALSE, base |-> m, early |-> TRUE, mounted |-> FALSE,
             resolves |-> TRUE, writes |-> FALSE, breaks |-> FALSE]

Init ==
    /\ site \in Sites /\ boot = "core" /\ tried = {} /\ reg = <<>> /\ apis = <<>>
    /\ tools = {} /\ found = {}
    /\ account = [u \in Users |-> "active"]
    /\ test = [t \in Testers |-> NoTest]
    /\ hooked = [ends |-> {}, recs |-> {}, overdue |-> FALSE]

-----------------------------------------------------------------------------
(* Starting.                                                               *)

ByDefinition(vs) == SetToSortSeq(vs, LAMBDA v, w : v.id < w.id)

\* CRUDView.__init_subclass__: the first view of a model keeps it.
init_subclass(r, v) == IF \E i \in DOMAIN r : r[i].model = v.model THEN r ELSE Append(r, v)

\* Importing a file defines its classes, up to the statement that raises.
Defined(fs) == {v \in Views : v.file \in fs /\ (v.file \in Broken => v.early)}
Import(r, fs) == FoldLeft(init_subclass, r, ByDefinition(Defined(fs)))

\* autodiscover_app_modules: one app's views after the other; an import that raises is
\* logged and the next one tried.
autodiscover(f) ==
    /\ boot = "core" /\ f \in Auto \ tried
    /\ tried' = tried \cup {f} /\ reg' = Import(reg, {f})
    /\ UNCHANGED <<site, boot, apis, tools, found, account, test, hooked>>

\* @tool: the first tool of a name is kept.
tool(offering) ==
    {reg[i] : i \in {j \in DOMAIN reg : /\ reg[j] \in offering
                                       /\ \A k \in 1..(j - 1) : ~(reg[k] \in offering /\ reg[k].base = reg[j].base)}}
Named(vs, kind) == {[name |-> v.base, kind |-> kind, of |-> v.id] : v \in vs}

\* MCPConfig.ready: tools for the views registered by now, those whose registration raises
\* left out.
McpReady ==
    /\ boot = "core" /\ Auto \subseteq tried
    /\ tools' = LET vs == tool({v \in ToSet(reg) : v.mcp /\ ~v.breaks}) IN
                IF site.mcp THEN Named(vs, "list") \cup Named({v \in vs : v.writes}, "create") ELSE {}
    /\ boot' = "mcp"
    /\ UNCHANGED <<site, tried, reg, apis, found, account, test, hooked>>

\* register_search_tools: one per indexed view, and those over all of them and the help.
search_tools == Named(tool({v \in ToSet(reg) : v.search}), "search") \cup {[name |-> "all", kind |-> "search", of |-> 0]}

\* SearchConfig.ready.
SearchReady ==
    /\ boot = "mcp"
    /\ found' = {v \in ToSet(reg) : v.search}
    /\ tools' = tools \cup (IF site.mcp THEN search_tools ELSE {})
    /\ boot' = "search"
    /\ UNCHANGED <<site, tried, reg, apis, account, test, hooked>>

\* ExplorerConfig.ready: a view for every model of an admin, which takes a free place only.
ExplorerReady ==
    /\ boot = "search"
    /\ reg' = FoldLeft(LAMBDA r, m : init_subclass(r, Clone(m)), reg, SetToSeq(Explored))
    /\ boot' = "explorer"
    /\ UNCHANGED <<site, tried, apis, tools, found, account, test, hooked>>

\* The URL conf: what is mounted is imported, and get_urls tops up both registries.
LoadUrls ==
    /\ boot = "explorer"
    /\ tried' = tried \cup Late
    /\ reg' = Import(reg, Late \ tried)
    /\ apis' = ByDefinition({v \in Defined(tried \cup Late) : v.mounted /\ v.api /\ site.api})
    /\ boot' = "served"
    /\ UNCHANGED <<site, tools, found, account, test, hooked>>

-----------------------------------------------------------------------------
(* The checks: each adds rows <<name, status>> to a report.                *)

P == "PASS"
W == "WARN"
F == "FAIL"
OkIf(name, c, otherwise) == {<<name, IF c THEN P ELSE otherwise>>}

\* schema_check: tables missing or the database unreachable, or migrations unapplied.
schema_check ==
    CASE site.schema \in {"unreachable", "missing"} -> {<<"schema", F>>}
      [] site.schema = "pending" -> {<<"schema", W>>}
      [] site.schema = "ok" -> {}

\* _find_unregistered_optins: files that declare the flag and hold no registered view.
scan_api == {v.file : v \in {w \in Views : w.api /\ ~w.test}}
scan_mcp == {v.file : v \in {w \in Views : w.mcp /\ ~w.test}}
unregistered_api == scan_api \ {v.file : v \in ToSet(apis)}
unregistered_mcp == scan_mcp \ {v.file : v \in {w \in ToSet(reg) : w.mcp}}

Unresolved == {v \in ToSet(apis) : ~v.resolves}
api_openapi_package == OkIf("validator", site.validator, F)
api_dependencies == OkIf("apps", site.installed = {"activity", "axes"}, W)
api_registry == OkIf("registry", apis # <<>>, W)
api_custom_paths == OkIf("custom", \A c \in Custom : c.resolves, W)
api_urls == OkIf("urls", "api" \in site.urls, F)
api_swagger_redoc == OkIf("shells", site.shells, F)
api_consistency == OkIf("consistency", Unresolved = {}, F)
api_orphans == OkIf("orphans", unregistered_api = {}, W)
api_token_auth == {<<"tokens", P>>}

\* build_openapi_spec: reversing a list URL may raise; an unresolvable custom path is left out.
spec_raises == Unresolved # {}
build_custom_paths == {<<c.path, c.method>> : c \in {d \in Custom : d.resolves}}
api_validity == OkIf("validity", site.validator /\ ~spec_raises, F)

mcp_settings == OkIf("settings", site.settings, F)
mcp_registry == OkIf("registry", unregistered_mcp = {}, W)
mcp_urls == OkIf("urls", "mcp" \in site.urls, F)
mcp_tokens == {<<"tokens", P>>}
mcp_apitoken_admin == OkIf("admin", site.admin, W)

search_backend == OkIf("backend", site.native, W)
search_registry == OkIf("registry", found # {}, W)
search_mcp_integration == OkIf("mcp", \E x \in tools : x.kind = "search", W)
search_urls == OkIf("urls", "search" \in site.urls, F)
search_index_health == IF found = {} THEN {} ELSE OkIf("index", site.schema = "ok", F)

Emitting == {v \in ToSet(reg) : v.hook}
hook_outbound_registry == IF site.outbound THEN OkIf("outbound", Emitting # {}, W) ELSE {<<"outbound", P>>}
hook_origin == OkIf("origin", site.origin, W)
On(rows) == {r \in rows : r.on}
hook_endpoints ==
    IF hooked.ends = {} THEN {<<"endpoints", W>>}
    ELSE OkIf("endpoint urls", \A e \in On(hooked.ends) : e.allowed, F)
         \cup (IF \E e \in On(hooked.ends) : ~e.filter THEN {<<"endpoint filters", W>>} ELSE {})
hook_stuck_retries == OkIf("tick", ~hooked.overdue, F)

\* _check_verification: a verifier of one's own is taken for verifying, whatever
\* require_signature says.
Verifiers == {"hmac", "stripe"}
CustomVerifier == {r \in On(hooked.recs) : r.verifier # "hmac"}
unsigned == {r \in On(hooked.recs) : ~r.signed /\ r.verifier = "hmac"}
unknown_verifier == {r \in CustomVerifier : r.verifier \notin Verifiers}
hook_verification ==
    (IF unknown_verifier # {} THEN {<<"verifiers", F>>}
     ELSE IF CustomVerifier # {} THEN {<<"verifiers", P>>} ELSE {})
    \cup (IF unsigned # {} THEN {<<"signatures", W>>} ELSE {})
hook_inbound ==
    IF ~site.inbound THEN {<<"inbound", P>>}
    ELSE OkIf("handlers", \A r \in On(hooked.recs) : r.handler, F) \cup hook_verification

-----------------------------------------------------------------------------
(* The reports.                                                            *)

Guarded(checks) == schema_check \cup IF <<"schema", F>> \in schema_check THEN {} ELSE checks
Verdict(t) == IF test[t].out \in {P, W, F} THEN {<<"self-test", test[t].out>>} ELSE {}

build_api_report ==
    api_openapi_package \cup api_dependencies \cup api_registry \cup api_urls \cup api_swagger_redoc
    \cup api_validity \cup api_consistency \cup api_orphans \cup api_token_auth
build_mcp_report == mcp_settings \cup mcp_registry \cup mcp_urls \cup mcp_tokens \cup mcp_apitoken_admin

api_doctor == IF site.api THEN Guarded(build_api_report \cup api_custom_paths \cup Verdict("api"))
              ELSE {<<"enabled", P>>}
mcp_doctor == IF site.mcp THEN Guarded(build_mcp_report \cup Verdict("mcp")) ELSE {<<"enabled", P>>}
search_doctor == search_backend \cup search_registry \cup search_mcp_integration \cup search_urls \cup search_index_health
webhook_doctor ==
    IF site.hooks THEN Guarded(hook_outbound_registry \cup hook_origin \cup hook_endpoints
                               \cup hook_stuck_retries \cup hook_inbound)
    ELSE {<<"enabled", P>>}

\* --check-only: the exit code.
Failing(report) == \E r \in report : r[2] = F
check_only(report) == IF Failing(report) THEN 1 ELSE 0

\* The health pages: cards, and the rows behind a card.
Cards(report) == [s \in {P, W, F} |-> Cardinality({r \in report : r[2] = s})]
api_health == Cards(build_api_report)
api_stat_detail(s) == {r \in build_api_report : r[2] = s}
mcp_health == Cards(build_mcp_report)
mcp_stat_detail(s) == IF s = "tools" THEN tools ELSE {r \in build_mcp_report : r[2] = s}

\* The endpoints page leaves out what cannot be described; --explain lists it without a URL.
api_endpoints == {v \in ToSet(apis) : v.resolves}
api_explain == [v \in ToSet(apis) |-> v.resolves]
mcp_explain == {<<x.name, x.kind>> : x \in tools}
search_explain == {v.model : v \in found}
hook_explain == {v.model : v \in Emitting}

mcp_tools_page == [write |-> Cardinality({x \in tools : x.kind = "create"}),
                   read |-> Cardinality({x \in tools : x.kind # "create"}), all |-> Cardinality(tools)]

\* The dashboard widgets (the threat signals of the API's are ActivityLog's).
api_widget == IF unregistered_api # {} THEN "degraded" ELSE "operational"
mcp_widget == IF unregistered_mcp # {} THEN "degraded" ELSE "operational"
search_widget == IF found = {} \/ ~site.native THEN "degraded" ELSE "operational"
hook_widget == Cardinality(On(hooked.ends))

\* The monitors.
api_monitor == IF "api" \in site.urls THEN "up" ELSE "down"
api_inventory == [ok |-> "api" \in site.urls, items |-> DOMAIN api_explain]
mcp_monitor == IF tools = {} THEN "down" ELSE "up"
search_monitor == IF found = {} THEN "down" ELSE "up"
hook_monitor == IF hooked.overdue THEN "down" ELSE "up"

\* api_schema: one entry per endpoint, and an exception when one cannot be reversed.
api_schema == IF Unresolved = {} THEN [status |-> 200, entries |-> ToSet(apis)]
              ELSE [status |-> 500, entries |-> {}]

\* receive_webhook: a POST without a credential.  hmac and a provider's verifier both say it
\* is not verified; get_verifier takes hmac for one it does not know.
Accepts(r) == r.on /\ ~r.signed

-----------------------------------------------------------------------------
(* The tests that use a token.                                             *)

\* The first staff user there is, active or not, else the first user.
Standing == {u \in Users : account[u] # "gone"}
First(us) == CHOOSE u \in us : \A w \in us : u <= w
self_test_user == IF Standing \cap Staff # {} THEN First(Standing \cap Staff) ELSE First(Standing)

\* APIToken.rejection_reason.
Usable(t) == test[t].key = "active" /\ account[test[t].user] = "active"
MayTest == boot = "served" /\ site.schema \notin {"unreachable", "missing"}
OnlyTest == UNCHANGED <<site, boot, tried, reg, apis, tools, found, account, hooked>>

Mint(t) ==
    /\ MayTest /\ test[t].pc = "idle" /\ Cardinality({x \in Testers : test[x].pc # "idle"}) < MaxTests
    /\ (t = "api" => site.api) /\ (t = "mcp" => site.mcp)
    /\ test' = [test EXCEPT ![t] =
                  IF Standing = {} THEN [@ EXCEPT !.pc = "done", !.out = IF t = "smoke" THEN "raised" ELSE W]
                  ELSE [@ EXCEPT !.pc = "minted", !.user = self_test_user, !.key = "active"]]
    /\ OnlyTest

\* What the first request is answered: the schema; tools/list in process; tools/list of the
\* running server, which may not be reached.
Answer(t) ==
    CASE t = "api" -> IF spec_raises THEN {"raised"} ELSE {P}
      [] t = "mcp" -> IF Usable(t) /\ "mcp" \in site.urls THEN {P} ELSE {F}
      [] t = "smoke" -> {"unreached"} \cup IF Usable(t) /\ "mcp" \in site.urls THEN {P} ELSE {F}

Ask(t) ==
    /\ test[t].pc = "minted"
    /\ \E a \in Answer(t) : test' = [test EXCEPT ![t].pc = IF a = P THEN "asked" ELSE "called", ![t].out = a]
    /\ OnlyTest

\* _pick_tool: a list tool.
pick_tool == {x \in tools : x.kind = "list"}

\* The sample endpoint may answer 401 or 403; ping and a notification need no token; the
\* smoke test calls the first list tool there is, which needs its token still.
Call(t) ==
    /\ test[t].pc = "asked"
    /\ test' = [test EXCEPT ![t].pc = "called",
                            ![t].out = IF t = "smoke" /\ pick_tool # {} /\ ~Usable(t) THEN F ELSE P]
    /\ OnlyTest

\* finally: the doctors delete the token; the smoke test revokes it, which raises when the
\* row has gone with its user.
Finally(x, t) ==
    [x EXCEPT !.pc = "done",
              !.key = IF t = "smoke" /\ @ = "active" THEN "revoked" ELSE "none",
              !.out = IF t = "smoke" /\ x.key = "none" THEN "raised" ELSE @]
Finish(t) ==
    /\ test[t].pc = "called"
    /\ test' = [test EXCEPT ![t] = Finally(@, t)]
    /\ OnlyTest


\* Ctrl-C inside the try block runs the finally; before it, and by a kill, nothing runs.
Interrupt(t) ==
    /\ test[t].pc \in {"asked", "called"}
    /\ test' = [test EXCEPT ![t] = Finally([@ EXCEPT !.out = "interrupted"], t)]
    /\ OnlyTest
Kill(t) ==
    /\ test[t].pc \in {"minted", "asked", "called"}
    /\ test' = [test EXCEPT ![t].pc = "killed"]
    /\ OnlyTest

\* sys.exit of the smoke test.
smoke_exit == CASE test["smoke"].out = P -> 0
                [] test["smoke"].out = "unreached" -> 2
                [] test["smoke"].out = F -> 4
                [] OTHER -> 1

\* An account is closed, or deleted with its tokens.
Close(u, how) ==
    /\ boot = "served" /\ account[u] # "gone" /\ account[u] # how
    /\ account' = [account EXCEPT ![u] = how]
    /\ test' = [t \in Testers |-> IF how = "gone" /\ test[t].user = u THEN [test[t] EXCEPT !.key = "none"] ELSE test[t]]
    /\ UNCHANGED <<site, boot, tried, reg, apis, tools, found, hooked>>

\* migrate: every table there is, every index made.
Migrate ==
    /\ site.schema \in {"missing", "pending"} /\ [site EXCEPT !.schema = "ok"] \in Sites
    /\ site' = [site EXCEPT !.schema = "ok"]
    /\ UNCHANGED <<boot, tried, reg, apis, tools, found, account, test, hooked>>

-----------------------------------------------------------------------------
(* The webhook rows the doctor reads.                                      *)

Toggle(s, x) == IF x \in s THEN s \ {x} ELSE s \cup {x}
EditHooks ==
    /\ boot = "served"
    /\ hooked' \in {[hooked EXCEPT !.ends = Toggle(@, e)] : e \in Endpoints}
              \cup {[hooked EXCEPT !.recs = Toggle(@, r)] : r \in Receivers}
              \cup {[hooked EXCEPT !.overdue = ~@]}
    /\ UNCHANGED <<site, boot, tried, reg, apis, tools, found, account, test>>

Start == (\E f \in Auto : autodiscover(f)) \/ McpReady \/ SearchReady \/ ExplorerReady \/ LoadUrls \/ Migrate
Testing == \E t \in Testers : Mint(t) \/ Ask(t) \/ Call(t) \/ Finish(t) \/ Interrupt(t) \/ Kill(t)
TestNext == Start \/ Testing \/ \E u \in Users : Close(u, "inactive") \/ Close(u, "gone")
HookNext == Start \/ EditHooks
Next == TestNext \/ HookNext
Spec == Init /\ [][Next]_vars

-----------------------------------------------------------------------------
(* Properties.                                                             *)

\* A token a test minted is active only while the test is under way, or after it was killed;
\* whatever else ended it, an exception, Ctrl-C or its own verdict (finally, api_doctor,
\* mcp_doctor, mcp_smoke).
KeyNeverLeft ==
    \A t \in Testers : test[t].key = "active" => test[t].pc \in {"minted", "asked", "called", "killed"}

\* A file nobody reports on has what it asked for: REST endpoints, and MCP tools unless the
\* only registered views of it came after the tools were built, failed to register, or lost
\* their tool names to a view before (_find_unregistered_optins against _api_registry and
\* TOOL_REGISTRY).
SilenceIsSound ==
    boot = "served" =>
        /\ site.api => \A f \in scan_api \ unregistered_api : \E v \in ToSet(apis) : v.file = f
        /\ site.mcp => \A f \in scan_mcp \ unregistered_mcp :
               \E v \in ToSet(reg) : /\ v.file = f /\ v.mcp
                                     /\ \/ v.breaks \/ f \in Late \ Auto
                                        \/ \E x \in tools : x.name = v.base /\ x.kind = "list"

\* A view declared and imported keeps its model against the Explorer's (CRUDView._registry):
\* every model of a view imported before has a view of the project's in the registry.
DeclaredKeepModel ==
    boot \in {"explorer", "served"} =>
        \A v \in Defined(Auto) : \E w \in ToSet(reg) : w.model = v.model /\ w.id > 0

\* The reports agree with each other: page and command, cards and rows, widgets, monitors,
\* the endpoints page, the schema and the self-test, which reach the same facts by separate
\* code.
Rested == site.schema \in {"ok", "pending"} /\ boot = "served"
ReportsAgree ==
    /\ Rested /\ site.api => /\ build_api_report = api_doctor \ (schema_check \cup api_custom_paths \cup Verdict("api"))
                             /\ \A s \in {P, W, F} : api_health[s] = Cardinality(api_stat_detail(s))
                             /\ (<<"consistency", P>> \in api_doctor) = (api_endpoints = api_schema.entries)
                             /\ (<<"orphans", P>> \in api_doctor) = (api_widget = "operational")
                             /\ (<<"custom", P>> \in api_doctor) = (Cardinality(build_custom_paths) = Cardinality(Custom))
                             /\ api_monitor = "down" => check_only(api_doctor) = 1
                             /\ test["api"].out = P => ~Failing(api_consistency) /\ api_schema.status = 200
                             /\ Failing(api_consistency) = (\E v \in api_inventory.items : ~api_explain[v])
    /\ Rested /\ site.mcp => /\ build_mcp_report = mcp_doctor \ (schema_check \cup Verdict("mcp"))
                             /\ \A s \in {P, W, F} : mcp_health[s] = Cardinality(mcp_stat_detail(s))
                             /\ (<<"registry", P>> \in mcp_doctor) = (mcp_widget = "operational")
                             /\ mcp_tools_page.all = Cardinality(mcp_stat_detail("tools"))
                             /\ mcp_tools_page.all = mcp_tools_page.write + mcp_tools_page.read
                             /\ Cardinality(mcp_explain) = mcp_tools_page.all
                             /\ mcp_monitor = "up"
                             /\ test["mcp"].out = P => ~Failing(mcp_urls)
                             /\ smoke_exit = 0 => ~Failing(mcp_urls)
    /\ Rested => /\ (search_monitor = "up") = (<<"registry", P>> \in search_doctor)
                 /\ (search_widget = "operational") = (site.native /\ search_explain # {})
                 /\ (<<"mcp", P>> \in search_doctor) = site.mcp
    /\ Rested /\ site.hooks => /\ (hook_monitor = "down") = (<<"tick", F>> \in webhook_doctor)
                               /\ <<"outbound", W>> \in webhook_doctor => hook_explain = {}
                               /\ <<"endpoints", W>> \in webhook_doctor => hook_widget = 0

\* A receiver that takes a POST nobody signed is named by the doctor, unless it has a verifier
\* of its own that is registered (_check_verification, receive_webhook).
OpenIsNamed ==
    Rested /\ site.hooks /\ site.inbound =>
        \A r \in hooked.recs : Accepts(r) =>
            \/ r \in unsigned /\ <<"signatures", W>> \in webhook_doctor
            \/ r \in unknown_verifier /\ check_only(webhook_doctor) = 1
            \/ r.verifier \in Verifiers \ {"hmac"}

\* A database that cannot be used is the only thing said of it, and it fails the command.
BrokenSchemaAlone ==
    <<"schema", F>> \in schema_check =>
        \A d \in {api_doctor, mcp_doctor, webhook_doctor} : d \in {{<<"schema", F>>}, {<<"enabled", P>>}}
=============================================================================
