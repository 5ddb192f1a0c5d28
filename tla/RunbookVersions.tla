-------------------------- MODULE RunbookVersions --------------------------
(***************************************************************************)
(* One runbook document: its chain of versions, the head pointer with the  *)
(* head fields copied onto the document row, the writers (the locked       *)
(* upsert of the REST, MCP and command-line transports; the web views and  *)
(* version restore, which load the document first and write later), the    *)
(* background pruning of old versions and the retention sweep.             *)
(*                                                                         *)
(* The shipped database is SQLite with IMMEDIATE transactions: an atomic   *)
(* block is one step, and what was read before the block may be stale in   *)
(* it.  Who may write is modelled in RunbookAccess; here every writer is   *)
(* allowed to.  A body is the set of writes whose text it contains.        *)
(***************************************************************************)
EXTENDS Integers, FiniteSets, FiniteSetsExt

CONSTANTS
    Sessions,        \* web requests and restores in flight
    WebModes,        \* how the web requests save: "overwrite", "new_version", "restore"
    MaxVersions,     \* the effective max_versions policy, or NoLimit
    AgeLimit,        \* TRUE iff a max_version_age_days policy applies
    MaxWrites,       \* bound: writes in a behaviour
    MaxAgings        \* bound: times the clock passes the age limit and the TTL

NoLimit == -1         \* max_versions is NULL at every level
None == 0            \* no head: current_version is NULL
Idle == [pc |-> "idle"]

VARIABLES
    doc,       \* [state, head, version, text, archived, fresh]: the document row
    vers,      \* version number -> [body, old]: the DocumentVersion rows
    wr,        \* number of acknowledged or attempted writes so far
    sess,      \* web requests: what each loaded
    prunes,    \* prune_versions_task rows waiting to run
    pruner,    \* the worker's and the sweep's pruning: what each loaded and doomed
    sweep,     \* a retention sweep in progress: the copy it loaded
    ages,      \* times the clock has passed the limits
    kept,      \* history: the appended writes no replacing write came after
    rewound    \* history: a save from a stale copy has moved the head back

rvVars == <<doc, vers, wr, sess, prunes, pruner, sweep, ages, kept, rewound>>

Numbers == DOMAIN vers
Live == doc.state = "live"

Init ==
    /\ doc = [state |-> "absent", head |-> None, version |-> 1, text |-> {},
              archived |-> FALSE, fresh |-> TRUE]
    /\ vers = << >>
    /\ wr = 0
    /\ sess = [s \in Sessions |-> Idle]
    /\ prunes = 0 /\ pruner = [p \in {"worker", "sweep"} |-> Idle] /\ sweep = Idle
    /\ ages = 0 /\ kept = {} /\ rewound = FALSE

(***************************************************************************)
(* The head.  read_head reads the file of the version the caller's copy    *)
(* points at; the copy's head may have been pruned since (lookup fails).   *)
(***************************************************************************)
read_head(h) == IF h = None THEN {} ELSE vers[h].body

Readable(h) == h = None \/ h \in Numbers

sync_head(n, body) ==
    doc' = [doc EXCEPT !.head = n, !.version = n, !.text = body, !.fresh = TRUE]

\* create_new_version on a copy whose head is h; the unique constraint on
\* (document, version) refuses a number that is taken.
next_version(h) == IF h = None THEN 1 ELSE h + 1

create_new_version(h, body) ==
    /\ next_version(h) \notin Numbers
    /\ vers' = [n \in Numbers \cup {next_version(h)} |->
                   IF n = next_version(h) THEN [body |-> body, old |-> FALSE] ELSE vers[n]]
    /\ sync_head(next_version(h), body)

\* The in-place write: the copy's head version gets the body, and so does the
\* document's text, whatever the document's head is by now.
overwrite_head(h, body) ==
    /\ vers' = [vers EXCEPT ![h].body = body]
    /\ doc' = [doc EXCEPT !.text = body, !.fresh = TRUE]

\* document_written after the commit: only "new_version" enqueues a pruning.
emit_written(change) ==
    prunes' = IF change = "new_version" /\ prunes = 0 THEN 1 ELSE prunes

\* write_version in its four modes, for a caller whose copy has head h.
write_version(h, mode, w) ==
    /\ wr' = w
    /\ Readable(h)
    /\ \/ /\ mode = "new_version"
          /\ create_new_version(h, {w})
          /\ kept' = {}
       \/ /\ mode = "overwrite"
          /\ h # None
          /\ overwrite_head(h, {w})
          /\ kept' = {}
       \/ /\ mode = "append"
          /\ h # None
          /\ overwrite_head(h, read_head(h) \cup {w})
          /\ kept' = kept \cup {w}
       \/ /\ mode = "append_version"
          /\ create_new_version(h, read_head(h) \cup {w})
          /\ kept' = kept \cup {w}
    /\ emit_written(mode)

(***************************************************************************)
(* Writers.                                                                *)
(***************************************************************************)
\* create_document: the row, its first version, the head.
create_document(w) ==
    /\ wr' = w
    /\ vers' = [n \in {1} |-> [body |-> {w}, old |-> FALSE]]
    /\ doc' = [state |-> "live", head |-> 1, version |-> 1, text |-> {w},
               archived |-> FALSE, fresh |-> TRUE]
    /\ kept' = {w}
    /\ UNCHANGED prunes

\* The upsert: one atomic block that loads the row under its lock.  A version
\* conflict and on_exists = "fail" refuse the call and change nothing.  (After a
\* hard delete the upsert makes a new document; the model follows the first.)
put_document(mode, expected) ==
    /\ wr < MaxWrites
    /\ \/ doc.state = "absent" /\ create_document(wr + 1)
       \/ /\ doc.state = "live"
          /\ expected \in {None, doc.version}
          /\ write_version(doc.head, mode, wr + 1)
    /\ UNCHANGED <<sess, pruner, sweep, ages, rewound>>

append_to_document == put_document("append", None)

append_version == put_document("append_version", None)

api_document == \E m \in {"new_version", "overwrite"}, e \in {None, doc.version} : put_document(m, e)

api_document_append == append_to_document

do_append == append_to_document

\* A web request or a restore loads the document (and, for a restore, the old
\* version's body) outside any transaction.
WebLoad(s, mode) ==
    /\ Live
    /\ sess[s] = Idle
    /\ mode \in WebModes
    /\ sess' = [sess EXCEPT ![s] = [pc |-> "loaded", mode |-> mode, head |-> doc.head]]
    /\ UNCHANGED <<doc, vers, wr, prunes, pruner, sweep, ages, kept, rewound>>

NewVersionView(s) == WebLoad(s, "new_version")

DocumentEditContentView(s) == WebLoad(s, "overwrite") \/ WebLoad(s, "new_version")

\* A restore needs the old version's row to read its body.
restore_version(s) == Numbers # {} /\ WebLoad(s, "restore")

RestoreVersionView(s) == restore_version(s)

api_document_revert(s) == restore_version(s)

\* ... and writes through the copy it loaded; a taken number or a pruned head is
\* an error page and nothing is written.
WebSave(s) ==
    LET mode == IF sess[s].mode = "restore" THEN "new_version" ELSE sess[s].mode
        h    == sess[s].head
    IN  /\ sess[s].pc = "loaded"
        /\ \/ Live /\ wr < MaxWrites /\ write_version(h, mode, wr + 1)
           \/ /\ \/ ~Live
                 \/ ~Readable(h)
                 \/ mode = "new_version" /\ next_version(h) \in Numbers
                 \/ mode = "overwrite" /\ h = None
              /\ UNCHANGED <<doc, vers, wr, prunes, kept>>
        /\ rewound' = (rewound \/ (Live /\ doc'.version < doc.version))
        /\ sess' = [sess EXCEPT ![s] = Idle]
        /\ UNCHANGED <<pruner, sweep, ages>>

archive_document ==
    /\ Live /\ ~doc.archived
    /\ doc' = [doc EXCEPT !.archived = TRUE, !.fresh = TRUE]
    /\ UNCHANGED <<vers, wr, sess, prunes, pruner, sweep, ages, kept, rewound>>

unarchive_document ==
    /\ Live /\ doc.archived
    /\ doc' = [doc EXCEPT !.archived = FALSE, !.fresh = TRUE]
    /\ UNCHANGED <<vers, wr, sess, prunes, pruner, sweep, ages, kept, rewound>>

\* A hard delete takes the versions with it.
Gone ==
    /\ doc' = [state |-> "gone", head |-> None, version |-> 1, text |-> {},
               archived |-> FALSE, fresh |-> TRUE]
    /\ vers' = << >>
    /\ kept' = {}

delete_document ==
    /\ Live
    /\ Gone
    /\ UNCHANGED <<wr, sess, prunes, pruner, sweep, ages, rewound>>

\* The clock passes the version age limit and the TTL: days, in which no request,
\* pruning or sweep stays in flight.
Age ==
    /\ ages < MaxAgings
    /\ sweep = Idle
    /\ \A p \in DOMAIN pruner : pruner[p] = Idle
    /\ \A s \in Sessions : sess[s] = Idle
    /\ ages' = ages + 1
    /\ vers' = [n \in Numbers |-> [vers[n] EXCEPT !.old = TRUE]]
    /\ doc' = [doc EXCEPT !.fresh = FALSE]
    /\ UNCHANGED <<wr, sess, prunes, pruner, sweep, kept, rewound>>

(***************************************************************************)
(* Retention.  A pruning holds a copy of the document with its head; it    *)
(* lists the versions and deletes the doomed ones later, in two queries.   *)
(***************************************************************************)
\* Variant: the head is not spared.
DoomsHead(h) ==
    {n \in Numbers : \/ MaxVersions # NoLimit
                        /\ Cardinality({m \in Numbers : m > n}) >= MaxVersions
                     \/ AgeLimit /\ vers[n].old}

\* The versions beyond the newest max_versions, and those past the age limit.
Doomed(h) ==
    LET beyond == IF MaxVersions = NoLimit THEN {}
                  ELSE {n \in Numbers : Cardinality({m \in Numbers : m > n}) >= MaxVersions}
        old    == IF AgeLimit THEN {n \in Numbers : vers[n].old} ELSE {}
    IN  (beyond \cup old) \ {h}

\* prune_versions_task starts: the row is loaded.
PruneTask ==
    /\ prunes > 0
    /\ pruner["worker"] = Idle
    /\ prunes' = prunes - 1
    /\ pruner' = IF Live THEN [pruner EXCEPT !["worker"] = [pc |-> "list", head |-> doc.head]]
                         ELSE pruner
    /\ UNCHANGED <<doc, vers, wr, sess, sweep, ages, kept, rewound>>

PruneList(p) ==
    /\ pruner[p].pc = "list"
    /\ pruner' = [pruner EXCEPT ![p] = [pc |-> "delete", doomed |-> Doomed(pruner[p].head)]]
    /\ UNCHANGED <<doc, vers, wr, sess, prunes, sweep, ages, kept, rewound>>

\* The DELETE; a doomed version that is the head leaves the pointer NULL.
prune_versions(p) ==
    /\ pruner[p].pc = "delete"
    /\ vers' = [n \in Numbers \ pruner[p].doomed |-> vers[n]]
    /\ doc' = IF doc.head \in pruner[p].doomed THEN [doc EXCEPT !.head = None] ELSE doc
    /\ pruner' = [pruner EXCEPT ![p] = Idle]
    /\ UNCHANGED <<wr, sess, prunes, sweep, ages, kept, rewound>>

\* The sweep fetches the live documents once, then prunes and judges each from
\* that copy.
run_sweep ==
    /\ sweep = Idle
    /\ Live /\ ~doc.archived
    /\ sweep' = [pc |-> "prune", head |-> doc.head, fresh |-> doc.fresh]
    /\ UNCHANGED <<doc, vers, wr, sess, prunes, pruner, ages, kept, rewound>>

SweepPrune ==
    /\ sweep.pc = "prune"
    /\ pruner' = [pruner EXCEPT !["sweep"] = [pc |-> "list", head |-> sweep.head]]
    /\ sweep' = [sweep EXCEPT !.pc = "expire"]
    /\ UNCHANGED <<doc, vers, wr, sess, prunes, ages, kept, rewound>>

\* is_expired on the copy; expire_document archives with an UPDATE of three
\* columns, or deletes.
is_expired(copy) == ~copy.fresh

expire_document ==
    /\ sweep.pc = "expire"
    /\ pruner["sweep"] = Idle
    /\ sweep' = Idle
    /\ \/ is_expired(sweep) /\ Live      \* on_expire = "archive"
          /\ doc' = [doc EXCEPT !.archived = TRUE, !.fresh = TRUE]
          /\ UNCHANGED <<vers, kept>>
       \/ is_expired(sweep) /\ Live /\ Gone      \* on_expire = "delete"
       \/ (~is_expired(sweep) \/ ~Live) /\ UNCHANGED <<doc, vers, kept>>
    /\ UNCHANGED <<wr, sess, prunes, pruner, ages, rewound>>

Put == api_document \/ api_document_append \/ do_append \/ append_version

Load(s) ==
    NewVersionView(s) \/ DocumentEditContentView(s) \/ RestoreVersionView(s) \/ api_document_revert(s)

Next ==
    \/ Put
    \/ \E s \in Sessions : Load(s) \/ WebSave(s)
    \/ archive_document \/ unarchive_document \/ delete_document
    \/ Age
    \/ PruneTask \/ \E p \in DOMAIN pruner : PruneList(p) \/ prune_versions(p)
    \/ run_sweep \/ SweepPrune \/ expire_document

Spec == Init /\ [][Next]_rvVars

(***************************************************************************)
(* Properties.                                                             *)
(***************************************************************************)
\* The document's head is one of its versions and is the one the row's version
\* number names: neither the worker's nor the sweep's pruning, judging from a copy
\* loaded before other writes, ever deletes the version readers are served.  (Until a
\* new version saved from a stale copy re-uses a pruned number and rewinds the head.)
HeadKept == Live /\ ~rewound => doc.head \in Numbers /\ doc.version = doc.head

\* No acknowledged append is lost: everything appended since the last replacing
\* write is in the head's content, through pruning, sweeps and web edits that loaded
\* the document earlier.
AppendsKept == Live /\ ~rewound => kept \subseteq read_head(doc.head)

\* Both together.
ReadersServed == HeadKept /\ AppendsKept

(***************************************************************************)
(* The inductive invariant behind them.                                    *)
(***************************************************************************)
DocumentRows == [state : {"absent", "live", "gone"}, head : Nat, version : Nat,
                 text : SUBSET Nat, archived : BOOLEAN, fresh : BOOLEAN]
VersionRows == [body : SUBSET Nat, old : BOOLEAN]
Loads == {Idle} \cup [pc : {"loaded"}, mode : WebModes, head : Nat]
Prunings == {Idle} \cup [pc : {"list"}, head : Nat] \cup [pc : {"delete"}, doomed : SUBSET Nat]

\* Every variable keeps its type; version numbers start at 1.
TypeOK ==
    /\ doc \in DocumentRows
    /\ Numbers \subseteq Nat \ {None} /\ vers \in [Numbers -> VersionRows]
    /\ wr \in Nat /\ prunes \in Nat /\ ages \in Nat
    /\ sess \in [Sessions -> Loads]
    /\ pruner \in [{"worker", "sweep"} -> Prunings]
    /\ sweep \in {Idle} \cup [pc : {"prune", "expire"}, head : Nat, fresh : BOOLEAN]
    /\ kept \in SUBSET Nat /\ rewound \in BOOLEAN

\* A pruning that judges from head h spares the document's head: it is h, or it is
\* younger than the age limit.
Spares(h) == h = doc.head \/ ~vers[doc.head].old

\* The head is the newest version and holds what was appended; no copy in flight is
\* ahead of it, and no pruning has doomed it or will.
Steady ==
    /\ doc.head \in Numbers /\ doc.version = doc.head
    /\ \A n \in Numbers : n <= doc.head
    /\ kept \subseteq vers[doc.head].body
    /\ \A s \in Sessions : sess[s].pc = "loaded" => sess[s].head \in 1..doc.head
    /\ \A p \in {"worker", "sweep"} :
          /\ pruner[p].pc = "list" => Spares(pruner[p].head)
          /\ pruner[p].pc = "delete" => \A n \in pruner[p].doomed : n < doc.head
    /\ sweep.pc = "prune" => Spares(sweep.head)

\* Before the document is created nothing has loaded it.
Untouched ==
    /\ \A s \in Sessions : sess[s] = Idle
    /\ \A p \in {"worker", "sweep"} : pruner[p] = Idle
    /\ sweep = Idle

IInv ==
    /\ TypeOK
    /\ Live /\ ~rewound => Steady
    /\ doc.state = "absent" => Untouched
=============================================================================
