------------------------------- MODULE MCCrud -------------------------------
(***************************************************************************)
(* Small instances of what a CRUDView and a dataset serve, side by side: a *)
(* behaviour belongs to one of them; the others rest.                      *)
(***************************************************************************)
EXTENDS Integers, TLC

CONSTANTS r1, r2   \* requests of CrudTransports and workers of ActivityLog, interchangeable

CONSTANTS
    RowKeys, Born, Linked, Users, Staff, Owner, Requests, ProjectViews,                            \* of CrudTransports
    Ids, People, Admins, Filers, Routings, Kinds, LazyLimits, Cap, Minutes, MaxLeavers,         \* of ApprovalQueue
    Table,                                                                                      \* of CrudLists
    Defs,                                                                                       \* of Datasets
    Traffic, KeptRows, MaxRequests, Hours,                                                      \* of ActivityLog
    Views, AppFiles, Broken, Late, Explored, Sites, Custom, Testees, Managers, MaxTests, Endpoints, Receivers \* of Doctors

VARIABLES part,
    view, row, wire, trail, wrote,                        \* CrudTransports
    here, lask, walk, lchanges,                           \* CrudLists
    cal, rows, todo, shown, over, listed,                 \* CalendarMonth
    tbl, dask, chart, drill, dchanges, reg, tools, built, \* Datasets
    item, kind, minute, mail, active, setup,              \* ApprovalQueue
    log, nextPk, worker, prune, lost, hour, live, retried, account, locked, requests,   \* ActivityLog
    site, boot, tried, vreg, apis, vtools, found, user, test, hooked   \* Doctors

\* Two requests, by a user, a staff member or nobody, against four declarations and the
\* Explorer's own: a view limited to the caller's rows with locked ones, a form without the
\* lock column, a public view without bulk actions, a staff view without delete.
Declared == [actions |-> {"LIST", "CREATE", "DETAIL", "UPDATE", "DELETE"}, mixins |-> "unset",
             public |-> FALSE, bulk |-> {"DELETE", "UPDATE"}, api |-> TRUE,
             mcp |-> {"LIST", "CREATE", "DETAIL", "UPDATE", "DELETE"}, scope |-> "all",
             hook |-> "none", veto |-> FALSE, tabs |-> TRUE, form |-> {"note", "lock"}, json |-> FALSE]
OwnRows == [Declared EXCEPT !.scope = "own", !.veto = TRUE]
OwnForm == [Declared EXCEPT !.hook = "own", !.form = {"note"}, !.json = TRUE]
Public == [Declared EXCEPT !.public = TRUE, !.mcp = {"LIST", "DETAIL", "UPDATE"}, !.bulk = {}]
StaffOnly == [Declared EXCEPT !.mixins = "staff", !.veto = TRUE, !.actions = @ \ {"DELETE"}]
FourViews == {OwnRows, OwnForm, Public, StaffOnly}
Crud == INSTANCE CrudTransports WITH Keys <- RowKeys

\* What a subclass of CRUDView may declare.
Declarations ==
    [actions : SUBSET Crud!Actions, mixins : {"unset", "none", "login", "staff"}, public : BOOLEAN,
     bulk : SUBSET {"DELETE", "UPDATE"}, api : BOOLEAN, mcp : SUBSET Crud!Actions,
     scope : {"all", "own"}, hook : {"none", "own"}, veto : BOOLEAN, tabs : BOOLEAN,
     form : SUBSET {"note", "lock"}, json : BOOLEAN]
ASSUME CrudAssumption ==
    /\ Staff \subseteq Users /\ Crud!Nobody \notin Users /\ Born \subseteq RowKeys
    /\ ProjectViews # {} /\ ProjectViews \subseteq Declarations

\* Four rows, two of which tie in the order by word, one out of scope; one change.
FourRows ==
    {[pk |-> 1, word |-> "a", flag |-> TRUE, day |-> 0, mine |-> TRUE],
     [pk |-> 2, word |-> "b", flag |-> TRUE, day |-> 1, mine |-> TRUE],
     [pk |-> 3, word |-> "a", flag |-> FALSE, day |-> 2, mine |-> TRUE],
     [pk |-> 4, word |-> "a", flag |-> FALSE, day |-> 0, mine |-> FALSE]}
Lists == INSTANCE CrudLists WITH
    PageSizes <- {1, 2}, MaxChanges <- 1, ask <- lask, changes <- lchanges
\* Not every row is of this month.
ASSUME TableAssumption ==
    /\ Table \subseteq [pk : Nat, word : {"a", "b"}, flag : BOOLEAN, day : Nat, mine : BOOLEAN]
    /\ \E x \in Table : x.day >= 2

\* Three months, rows that cross their borders, end on them or have no end.
Calendar == INSTANCE CalendarMonth WITH
    Lengths <- <<3, 9, 2>>, MaxPerDay <- 2,
    Spans <- {[pk |-> 1, start |-> 2, end |-> 5], [pk |-> 2, start |-> 4, end |-> 4],
              [pk |-> 3, start |-> 4, end |-> 14], [pk |-> 4, start |-> 12, end |-> 13],
              [pk |-> 5, start |-> 4, end |-> 0], [pk |-> 6, start |-> 1, end |-> 14]}

\* Three rows, one automatic bucket and the others, one change between chart and click; two
\* keys, one of them defined twice.
ThreeDefs == {[key |-> "a", api |-> TRUE, mcp |-> TRUE], [key |-> "a", api |-> FALSE, mcp |-> FALSE],
              [key |-> "b", api |-> FALSE, mcp |-> TRUE]}
Data == INSTANCE Datasets WITH
    Pks <- {1, 2, 3}, Values <- {0, 1, 2}, AutoLimit <- 1, RowsMax <- 2, CsvCaps <- {1, 3},
    MaxChanges <- 1, ask <- dask, changes <- dchanges
ASSUME DefsAssumption == Defs \subseteq [key : STRING, api : BOOLEAN, mcp : BOOLEAN] /\ Data!NoDef \notin Defs

\* Two approval requests, filed by a user and a staff member, routed or not, of a kind that
\* asks its hook or expires, over a minute; one account is closed.
TwoRoutings == {{}, {"dan"}}
TwoKinds == {[allow |-> {"dan"}, only |-> {"ann", "bob", "dan"}, ttl |-> 0],
             [allow |-> {}, only |-> {"bob"}, ttl |-> 1]}
Queue == INSTANCE ApprovalQueue WITH Users <- People, Staff <- Admins, Horizon <- Minutes
ASSUME QueueAssumption == \A k \in Kinds : k.ttl \in Nat

\* Two workers, two requests of seven kinds, a log of one row, a token, a deleted account.
Ask(path, excluded, ip, cred, ua, method, answer) ==
    [path |-> path, excluded |-> excluded, ip |-> ip, cred |-> cred, ua |-> ua, method |-> method, answer |-> answer]
SevenRequests ==
    {Ask("page", FALSE, "i1", "ann", "plain", "GET", 302), Ask("page", TRUE, "i1", "nobody", "plain", "GET", 200),
     Ask("api1", FALSE, "i1", "k", "plain", "GET", 200), Ask("api2", FALSE, "i1", "nobody", "scanner", "GET", 404),
     Ask("api1", FALSE, "nobody", "nobody", "scanner", "POST", 401),
     Ask("api1", FALSE, "i1", "bob", "plain", "POST", 500), Ask("api1", FALSE, "i1", "nobody", "plain", "GET", 404)}
Log == INSTANCE ActivityLog WITH
    Workers <- Requests, Users <- {"ann", "bob"}, Tokens <- {"k"}, Owner <- "bob",
    MaxRows <- KeptRows, AuthThreshold <- 2, BurstThreshold <- 2, PathThreshold <- 2, MissThreshold <- 2, Top <- 1,
    Profiles <- {[u \in {"ann", "bob"} |->
                    IF u = "ann" THEN [there |-> TRUE, joined |-> -1, theme |-> "dark", palette |-> ""]
                    ELSE [there |-> TRUE, joined |-> 0, theme |-> "light", palette |-> "blue"]]},
    Palettes <- {"django", "blue"}, LastPalette <- "blue", Horizon <- Hours
ASSUME KeptRowsAssumption == KeptRows \in Nat \ {0}

\* Eight views in five files: two of one model, one with the tool name of another, one after
\* the statement that breaks its file, one the URL conf alone imports, one whose list URL
\* does not resolve, one in a test; six installations, each with faults of its own.
View(id, file, model, flags) ==
    [id |-> id, file |-> file, model |-> model, api |-> "api" \in flags, mcp |-> "mcp" \in flags,
     search |-> "search" \in flags, hook |-> "hook" \in flags, test |-> "test" \in flags,
     base |-> IF "twin" \in flags THEN "twin" ELSE model, early |-> ~("after" \in flags),
     mounted |-> ~("loose" \in flags), resolves |-> ~("lost" \in flags), writes |-> "writes" \in flags,
     breaks |-> "breaks" \in flags]
Sound == [api |-> TRUE, mcp |-> TRUE, hooks |-> TRUE, outbound |-> TRUE, inbound |-> TRUE, validator |-> TRUE,
          installed |-> {"activity", "axes"}, urls |-> {"api", "mcp", "search"}, shells |-> TRUE,
          settings |-> TRUE, admin |-> TRUE, native |-> TRUE, origin |-> TRUE, schema |-> "ok"]
EightViews ==
    {View(1, "f1", "m1", {"api", "mcp", "search", "hook", "writes"}), View(2, "f2", "m1", {"mcp", "api"}),
     View(3, "f3", "m2", {"mcp", "api", "twin", "after"}), View(4, "f3", "m3", {"mcp", "twin", "api", "lost"}),
     View(5, "f4", "m4", {"mcp", "api", "search"}), View(6, "f5", "m5", {"api", "test"}),
     View(7, "f2", "m6", {"loose"}), View(8, "f1", "m7", {"mcp", "breaks"})}
TwoPaths == {[path |-> "p", method |-> "GET", resolves |-> TRUE], [path |-> "q", method |-> "POST", resolves |-> FALSE]}
SixSites ==
    {Sound, [Sound EXCEPT !.schema = "missing"], [Sound EXCEPT !.schema = "pending", !.admin = FALSE],
     [Sound EXCEPT !.api = FALSE, !.outbound = FALSE, !.native = FALSE],
     [Sound EXCEPT !.mcp = FALSE, !.inbound = FALSE, !.shells = FALSE],
     [Sound EXCEPT !.urls = {"search"}, !.validator = FALSE, !.installed = {}, !.settings = FALSE, !.origin = FALSE]}
ThreeEndpoints ==
    {[on |-> TRUE, allowed |-> TRUE, filter |-> FALSE], [on |-> FALSE, allowed |-> FALSE, filter |-> TRUE],
     [on |-> TRUE, allowed |-> FALSE, filter |-> TRUE]}
FourReceivers ==
    {[on |-> TRUE, handler |-> FALSE, verifier |-> "hmac", signed |-> TRUE],
     [on |-> TRUE, handler |-> TRUE, verifier |-> "hmac", signed |-> FALSE],
     [on |-> TRUE, handler |-> TRUE, verifier |-> "lost", signed |-> FALSE],
     [on |-> TRUE, handler |-> TRUE, verifier |-> "stripe", signed |-> FALSE]}
Doc == INSTANCE Doctors WITH
    Auto <- AppFiles, Users <- Testees, Staff <- Managers, reg <- vreg, tools <- vtools, account <- user
ASSUME TesteesAssumption == Testees \subseteq Nat
ASSUME SitesAssumption == \A s \in Sites : s.schema \in {"ok", "pending", "missing", "unreachable"}

crudVars == <<view, row, wire, trail, wrote>>
listVars == <<here, lask, walk, lchanges>>
calVars == <<cal, rows, todo, shown, over, listed>>
dataVars == <<tbl, dask, chart, drill, dchanges, reg, tools, built>>
queueVars == <<item, kind, minute, mail, active, setup>>
logVars == <<log, nextPk, worker, prune, lost, hour, live, retried, account, locked, requests>>
docVars == <<site, boot, tried, vreg, apis, vtools, found, user, test, hooked>>

\* Where a component that is not the one at work rests.
OneList == /\ here = {} /\ lask = CHOOSE q \in Lists!Questions : TRUE
           /\ walk = [pc |-> "more", via |-> "html", page |-> 1, got |-> <<>>, fetched |-> 0] /\ lchanges = 0
OneMonth == /\ cal = [month |-> 1, day |-> 0, ends |-> TRUE] /\ rows = {} /\ todo = {}
            /\ shown = [d \in Calendar!Days |-> {}] /\ over = [d \in Calendar!Days |-> 0] /\ listed = {}
OneTable == /\ tbl = [x \in {1, 2, 3} |-> Data!None] /\ dchanges = 0
            /\ dask = [filters |-> [flag |-> "", day |-> "", gte |-> ""], via |-> "rest", cap |-> 1]
            /\ chart = Data!NoChart /\ drill = Data!NoDrill
            /\ reg = [k \in Data!Keys |-> Data!NoDef] /\ tools = [k \in Data!Keys |-> Data!NoDef] /\ built = FALSE
NoQueue == /\ item = [i \in Ids |-> Queue!NoItem] /\ kind = Queue!NoKind /\ minute = 0 /\ mail = "none"
           /\ active = {} /\ setup = [emails |-> FALSE, lazy |-> 1]

Init ==
    /\ part \in {"crud", "lists", "calendar", "datasets", "registry", "approvals", "activity", "doctors", "receivers"}
    /\ Crud!Init /\ (part # "crud" => view = CHOOSE v \in ProjectViews : TRUE)
    /\ IF part = "lists" THEN Lists!Init ELSE OneList
    /\ IF part = "calendar" THEN Calendar!Init ELSE OneMonth
    /\ IF part = "datasets" THEN Data!Init ELSE OneTable
    /\ IF part = "approvals" THEN Queue!Init ELSE NoQueue
    /\ Log!Init
    /\ Doc!Init /\ (part \notin {"doctors", "receivers"} => site = CHOOSE s \in Sites : TRUE)

Next ==
    /\ UNCHANGED part
    /\ \/ part = "crud" /\ Crud!Next /\ UNCHANGED <<listVars, calVars, dataVars, queueVars, logVars, docVars>>
       \/ part = "lists" /\ Lists!Next /\ UNCHANGED <<crudVars, calVars, dataVars, queueVars, logVars, docVars>>
       \/ part = "calendar" /\ Calendar!Next /\ UNCHANGED <<crudVars, listVars, dataVars, queueVars, logVars, docVars>>
       \/ part = "datasets" /\ Data!AskNext /\ UNCHANGED <<crudVars, listVars, calVars, queueVars, logVars, docVars>>
       \/ part = "registry" /\ Data!RegNext /\ UNCHANGED <<crudVars, listVars, calVars, queueVars, logVars, docVars>>
       \/ part = "approvals" /\ Queue!Next /\ UNCHANGED <<crudVars, listVars, calVars, dataVars, logVars, docVars>>
       \/ part = "activity" /\ Log!Next /\ UNCHANGED <<crudVars, listVars, calVars, dataVars, queueVars, docVars>>
       \/ part = "doctors" /\ Doc!TestNext /\ UNCHANGED <<crudVars, listVars, calVars, dataVars, queueVars, logVars>>
       \/ part = "receivers" /\ Doc!HookNext /\ UNCHANGED <<crudVars, listVars, calVars, dataVars, queueVars, logVars>>

Spec == Init /\ [][Next]_<<part, crudVars, listVars, calVars, dataVars, queueVars, logVars, docVars>>

Interchangeable == Permutations({r1, r2})

\* CrudTransports: a row changes only by a request its view permits, whichever transport.
TransportsAgree == Crud!TransportsAgree
\* What is offered, recorded and listed is what there is.  CrudTransports: what is advertised
\* or linked is served, the audit trail records what was written, and a form changes its own
\* columns alone; ApprovalQueue: cards, filters, badges and monitors agree on what is pending,
\* and a button is offered on a reachable row alone; Datasets: every dataset has its tool;
\* Doctors: a broken schema is reported alone, a test takes its token back, and an open
\* receiver is named; ActivityLog: a prune keeps the newest rows; CrudLists: the same rows are
\* listed through every transport.
ShownIsServed ==
    /\ part = "crud" => Crud!AdvertisedIsServed /\ Crud!TrailTrue /\ Crud!FormHolds
    /\ part = "approvals" => Queue!NumbersAgree /\ Queue!OfferedIsReachable
    /\ part = "registry" => Data!ToolsFollowRegistry
    /\ part = "doctors" => Doc!BrokenSchemaAlone /\ Doc!KeyNeverLeft
    /\ part = "receivers" => Doc!OpenIsNamed
    /\ part = "activity" => Log!PruneKeepsNewest
    /\ part = "lists" => Lists!ListsAgree

\* What is walked, summed or ranked over the rows agrees with them.  CrudLists: a walk over the
\* pages receives each row once; CalendarMonth and Datasets: the counts are the rows behind
\* them; ActivityLog: every figure and every threat signal is backed by rows of the log;
\* Doctors: every report agrees with the others, a view keeps its model, and a file not
\* reported has what it asked for.
DerivedAgrees ==
    /\ part = "lists" => Lists!WalkSound
    /\ part = "calendar" => Calendar!CountsExact
    /\ part = "datasets" => Data!ChartReconciles
    /\ part = "activity" => Log!FiguresAgree /\ Log!SignalsBacked
    /\ part \in {"doctors", "receivers"} =>
          Doc!ReportsAgree /\ Doc!DeclaredKeepModel /\ Doc!SilenceIsSound
=============================================================================
