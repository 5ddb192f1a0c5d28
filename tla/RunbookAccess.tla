--------------------------- MODULE RunbookAccess ---------------------------
(***************************************************************************)
(* Runbooks, their sections and documents: who owns and may see or change  *)
(* what, where a document is placed, locks, archiving, templates, clones   *)
(* and bundle imports, over the web, REST, MCP and command-line            *)
(* transports; and what every read surface shows a user.  Contents and     *)
(* versions are in RunbookVersions.                                        *)
(***************************************************************************)
EXTENDS Integers, FiniteSets

CONSTANTS
    Users,        \* signed-in users
    Staff,        \* is_staff
    Super,        \* is_superuser
    ReadOnly,     \* users whose API token has the readonly level
    Books, Sects, Docs, Keys,
    b1, s1, d1, u1, k1,   \* the seeded runbook, section, document, owner and key
    MaxOps        \* bound: operations in a behaviour

Nil == "nil"      \* no runbook, no section, no key, the system as owner or actor

VARIABLES
    books,     \* runbook -> [state, owner, public, template]
    secs,      \* section -> its runbook, or Nil when there is no such row
    docs,      \* document -> [live, book, sec, key, locked, archived, template, managed]
    form,      \* an edit form's request in flight: the copy it loaded
    ops,       \* operations so far
    by         \* who made the last change: a user, or Nil for an authorised sync

raVars == <<books, secs, docs, form, ops, by>>

NoBook == [state |-> "absent", owner |-> Nil, public |-> FALSE, template |-> FALSE]
NoDoc == [live |-> FALSE, book |-> Nil, sec |-> Nil, key |-> Nil, locked |-> FALSE,
          archived |-> FALSE, template |-> FALSE, managed |-> FALSE]

NoForm == [user |-> Nil]

\* A seeded installation: one runbook of u1 with a section and one keyed page.
Init ==
    /\ books = [b \in Books |-> IF b = b1 THEN [NoBook EXCEPT !.state = "live", !.owner = u1]
                                          ELSE NoBook]
    /\ secs = [s \in Sects |-> IF s = s1 THEN b1 ELSE Nil]
    /\ docs = [d \in Docs |-> IF d = d1 THEN [NoDoc EXCEPT !.live = TRUE, !.book = b1,
                                                           !.sec = s1, !.key = k1]
                                        ELSE NoDoc]
    /\ form = NoForm /\ ops = 0 /\ by = Nil

Exists(b) == b # Nil /\ books[b].state # "absent"
Live == {d \in Docs : docs[d].live}
current_docs == {d \in Live : ~docs[d].archived}

(***************************************************************************)
(* permissions.py.                                                         *)
(***************************************************************************)
can_view(u, b) ==
    \/ u \in Staff
    \/ b # Nil /\ (books[b].public \/ books[b].owner = u)

can_edit(u, b) == u \in Staff \/ (b # Nil /\ books[b].owner = u)

\* Variant: only the document's own runbook counts.
OwnBookOnly(r) == r.book

runbook_of(r) ==
    IF r.book # Nil THEN r.book ELSE IF r.sec # Nil THEN secs[r.sec] ELSE Nil

can_view_doc(u, d) == can_view(u, runbook_of(docs[d]))

can_edit_doc(u, d) == can_edit(u, runbook_of(docs[d]))

viewable_runbooks(u) ==
    {b \in Books : Exists(b) /\ (u \in Staff \/ books[b].public \/ books[b].owner = u)}

\* The queryset scopes by the document's own runbook only.
viewable_documents(u) ==
    {d \in Live : u \in Staff \/ docs[d].book \in viewable_runbooks(u)}

editable(u, r) == ~r.locked \/ u \in Super

\* check_writable: ownership, then the lock; u = Nil is a sync, which skips both.
check_writable(u, d) == u = Nil \/ (can_edit_doc(u, d) /\ editable(u, docs[d]))

resolve_section(b, s) == s # Nil => secs[s] = b

require_write(u) == u \notin ReadOnly

McpStaff(u) == u \in Staff

(***************************************************************************)
(* What each read surface shows user u.                                    *)
(***************************************************************************)
RunbookDashboardView(u) == viewable_documents(u) \cap current_docs

\* A runbook's table of contents: its sections' documents and the ungrouped ones.
RunbookDetailView(u, b) ==
    IF ~can_view(u, b) THEN {}
    ELSE {d \in current_docs :
             IF docs[d].sec # Nil THEN secs[docs[d].sec] = b ELSE docs[d].book = b}

render_runbook_sections(b) ==
    {d \in current_docs : docs[d].sec # Nil /\ secs[docs[d].sec] = b}

RunbookReadView(u, b) == IF can_view(u, b) THEN render_runbook_sections(b) ELSE {}

RunbookPreviewView(u, b) == IF can_view(u, b) THEN render_runbook_sections(b) ELSE {}

DocumentListView(u) ==
    {d \in viewable_documents(u) \cap current_docs :
        docs[d].book = Nil \/ ~books[docs[d].book].template}

DownloadZipView(u, b) ==
    {d \in viewable_documents(u) \cap current_docs :
        b = Nil \/ (can_view(u, b) /\ docs[d].book = b)}

get_stat_table(u) == viewable_documents(u) \cap current_docs

SearchView(u) == viewable_documents(u) \cap current_docs

list_documents(u, b) ==
    {d \in viewable_documents(u) \cap current_docs : b = Nil \/ docs[d].book = b}

\* The engine's hits are any documents at all; scope and archiving are applied here.
search_documents(u) == {d \in Live : ~docs[d].archived} \cap viewable_documents(u)

list_template_documents(u) ==
    {d \in viewable_documents(u) \cap current_docs :
        docs[d].template \/ (docs[d].book # Nil /\ books[docs[d].book].template)}

api_list_documents(u, b) == search_documents(u) \cup list_documents(u, b)

api_runbook_detail(u, b) == IF can_view(u, b) THEN list_documents(u, b) ELSE {}

do_list(u, b) == list_documents(u, b)

\* Pages opened by address: the detail, slides, steps, history and file views, REST
\* and MCP gets; archived ones included.
require_view(u) == {d \in Live : can_view_doc(u, d)}

Listed(u) ==
    (UNION {RunbookDashboardView(u), DocumentListView(u), get_stat_table(u), SearchView(u),
            list_template_documents(u), DownloadZipView(u, Nil), api_list_documents(u, Nil),
            do_list(u, Nil)})
    \cup (UNION {RunbookDetailView(u, b) \cup RunbookReadView(u, b) \cup RunbookPreviewView(u, b)
                     \cup DownloadZipView(u, b) \cup api_runbook_detail(u, b)
                     : b \in {b \in Books : Exists(b)}})

(***************************************************************************)
(* Changes.                                                                *)
(***************************************************************************)
Op(u) == ops < MaxOps /\ ops' = ops + 1 /\ by' = u

SetDoc(d, r) == docs' = [docs EXCEPT ![d] = r]

\* The unique constraint on (runbook, key).
KeyFree(d, b, k) == k = Nil \/ \A e \in Live \ {d} : ~(docs[e].book = b /\ docs[e].key = k)

create_runbook(u, b, public) ==
    /\ books[b].state = "absent"
    /\ books' = [books EXCEPT ![b] = [state |-> "live", owner |-> u, public |-> public,
                                      template |-> FALSE]]
    /\ UNCHANGED <<secs, docs, form>>

RunbookCreateView(u, b, public) == create_runbook(u, b, public)

api_runbooks(u, b, public) == require_write(u) /\ create_runbook(u, b, public)

set_runbook_public(u, b, public) ==
    /\ Exists(b) /\ can_edit(u, b)
    /\ books' = [books EXCEPT ![b].public = public]
    /\ UNCHANGED <<secs, docs, form>>

set_runbook_visibility(u, b, public) == require_write(u) /\ set_runbook_public(u, b, public)

RunbookPublishToggleView(u, b) ==
    /\ Exists(b) /\ can_edit(u, b)
    /\ books' = [books EXCEPT ![b].public = ~@]
    /\ UNCHANGED <<secs, docs, form>>

\* Deleting a runbook is two statements: its documents first (deleted, or their
\* keys cleared), then the runbook, whose sections go and whose documents detach.
RunbookDeleteView(u, b, mode) ==
    /\ books[b].state = "live" /\ can_edit(u, b)
    /\ books' = [books EXCEPT ![b].state = "closing"]
    /\ docs' = [d \in Docs |-> IF ~docs[d].live \/ docs[d].book # b THEN docs[d]
                               ELSE IF mode = "cascade" THEN NoDoc
                               ELSE [docs[d] EXCEPT !.key = Nil]]
    /\ UNCHANGED <<secs, form>>

RunbookDrop(b) ==
    /\ books[b].state = "closing"
    /\ books' = [books EXCEPT ![b] = NoBook]
    /\ secs' = [s \in Sects |-> IF secs[s] = b THEN Nil ELSE secs[s]]
    /\ docs' = [d \in Docs |->
                  [docs[d] EXCEPT
                      !.book = IF @ = b THEN Nil ELSE @,
                      !.sec = IF @ # Nil /\ secs[@] = b THEN Nil ELSE @]]
    /\ UNCHANGED <<form, ops, by>>

create_section(u, b, s) ==
    /\ Exists(b) /\ can_edit(u, b)
    /\ secs[s] = Nil
    /\ secs' = [secs EXCEPT ![s] = b]
    /\ UNCHANGED <<books, docs, form>>

api_runbook_sections(u, b, s) == require_write(u) /\ create_section(u, b, s)

SectionDeleteView(u, s) ==
    /\ secs[s] # Nil /\ can_edit(u, secs[s])
    /\ secs' = [secs EXCEPT ![s] = Nil]
    /\ docs' = [d \in Docs |-> [docs[d] EXCEPT !.sec = IF @ = s THEN Nil ELSE @]]
    /\ UNCHANGED <<books, form>>

\* create_document: a new page in b; through the upsert it carries a key.
create_document(u, d, b, s, k) ==
    /\ ~docs[d].live
    /\ Exists(b) /\ (u = Nil \/ can_edit(u, b))
    /\ resolve_section(b, s)
    /\ KeyFree(d, b, k)
    /\ SetDoc(d, [NoDoc EXCEPT !.live = TRUE, !.book = b, !.sec = s, !.key = k])
    /\ UNCHANGED <<books, secs, form>>

DocumentCreateView(u, d, b, s) == create_document(u, d, b, s, Nil)

\* A page seeded from a template the user was offered.
create_from_template(u, d, b, s) ==
    /\ list_template_documents(u) # {}
    /\ create_document(u, d, b, s, Nil)

\* put_document on an existing page: its section may change, its lock may be set.
put_document(u, d, s, locked) ==
    /\ docs[d].live /\ docs[d].key # Nil /\ docs[d].book # Nil
    /\ check_writable(u, d)
    /\ resolve_section(docs[d].book, s)
    /\ SetDoc(d, [docs[d] EXCEPT !.sec = IF s = Nil THEN @ ELSE s,
                                 !.locked = IF locked = Nil THEN @ ELSE locked = "yes"])
    /\ UNCHANGED <<books, secs, form>>

api_document(u, d, s) == require_write(u) /\ put_document(u, d, s, Nil)

do_put(u, d, s) == McpStaff(u) /\ put_document(u, d, s, Nil)

\* The shell command and the seeds write as the system and may set the lock.
cmd_write(d, s, locked) == put_document(Nil, d, s, locked)

copy_document(u, d, e, b, k) ==
    /\ d \in Live /\ can_view_doc(u, d)
    /\ create_document(u, e, b, Nil, k)

move_document(u, d, b, s) ==
    /\ docs[d].live
    /\ check_writable(u, d)
    /\ \/ b = Nil /\ SetDoc(d, [docs[d] EXCEPT !.book = Nil, !.sec = Nil, !.key = Nil])
       \/ /\ Exists(b)
          /\ u = Nil \/ can_edit(u, b)
          /\ resolve_section(b, s)
          /\ KeyFree(d, b, docs[d].key)
          /\ SetDoc(d, [docs[d] EXCEPT !.book = b, !.sec = s])
    /\ UNCHANGED <<books, secs, form>>

api_document_move(u, d, b, s) == require_write(u) /\ move_document(u, d, b, s)

do_move(u, d, b, s) == McpStaff(u) /\ move_document(u, d, b, s)

set_archived(u, d, flag) ==
    /\ docs[d].live /\ check_writable(u, d)
    /\ docs[d].archived # flag
    /\ SetDoc(d, [docs[d] EXCEPT !.archived = flag])
    /\ UNCHANGED <<books, secs, form>>

archive_document(u, d) == set_archived(u, d, TRUE)

unarchive_document(u, d) == set_archived(u, d, FALSE)

api_document_archive(u, d) == require_write(u) /\ archive_document(u, d)

api_document_unarchive(u, d) == require_write(u) /\ unarchive_document(u, d)

delete_document(u, d) ==
    /\ docs[d].live /\ check_writable(u, d)
    /\ SetDoc(d, NoDoc)
    /\ UNCHANGED <<books, secs, form>>

do_delete(u, d) == McpStaff(u) /\ (archive_document(u, d) \/ delete_document(u, d))

DocumentDeleteView(u, d) ==
    /\ docs[d].live /\ can_edit_doc(u, d) /\ editable(u, docs[d])
    /\ SetDoc(d, NoDoc)
    /\ UNCHANGED <<books, secs, form>>

DocumentMakeTemplateView(u, d) ==
    /\ docs[d].live /\ can_edit_doc(u, d)
    /\ SetDoc(d, [docs[d] EXCEPT !.template = ~@])
    /\ UNCHANGED <<books, secs, form>>

DocumentLockView(u, d) ==
    /\ docs[d].live /\ u \in Super
    /\ SetDoc(d, [docs[d] EXCEPT !.locked = ~@])
    /\ UNCHANGED <<books, secs, form>>

\* The edit form: dispatch checks and loads the page; the section choices are the
\* runbook's sections, or every section when the page has no runbook.
DocumentUpdateView(u, d) ==
    /\ form = NoForm
    /\ docs[d].live /\ can_edit_doc(u, d) /\ editable(u, docs[d])
    /\ form' = [user |-> u, doc |-> d, copy |-> docs[d]]
    /\ UNCHANGED <<books, secs, docs>>

DocumentForm(r) ==
    {s \in Sects : secs[s] # Nil /\ (runbook_of(r) = Nil \/ secs[s] = runbook_of(r))} \cup {Nil}

\* form.save() writes every column of the loaded copy; a runbook or page deleted
\* meanwhile is a database error.
UpdateSave ==
    /\ form # NoForm
    /\ form' = NoForm
    /\ by' = form.user /\ UNCHANGED <<ops, books, secs>>
    /\ \/ /\ docs[form.doc].live
          /\ form.copy.book # Nil => Exists(form.copy.book)
          /\ form.copy.sec # Nil => secs[form.copy.sec] # Nil
          /\ KeyFree(form.doc, form.copy.book, form.copy.key)
          /\ \E s \in DocumentForm(form.copy) : SetDoc(form.doc, [form.copy EXCEPT !.sec = s])
       \/ UNCHANGED docs

\* clone_runbook: sections and unarchived pages of b copied into the new runbook c,
\* owned by the caller, private, unlocked.  The copies here are one section, one page.
clone_runbook(u, b, c, asTemplate) ==
    /\ Exists(b) /\ books[c].state = "absent"
    /\ books' = [books EXCEPT ![c] = [state |-> "live", owner |-> u, public |-> FALSE,
                                      template |-> asTemplate]]
    /\ LET source == {d \in current_docs : docs[d].book = b}
       IN  IF source = {} \/ Live = Docs
           THEN UNCHANGED <<secs, docs>>
           ELSE \E d \in source, e \in Docs \ Live :
                  LET copySec == docs[d].sec # Nil /\ \E s \in Sects : secs[s] = Nil
                      new     == IF copySec THEN CHOOSE s \in Sects : secs[s] = Nil ELSE Nil
                  IN  /\ secs' = IF copySec THEN [secs EXCEPT ![new] = c] ELSE secs
                      /\ SetDoc(e, [docs[d] EXCEPT !.book = c, !.sec = new,
                                                   !.locked = FALSE, !.template = FALSE])
    /\ UNCHANGED form

RunbookMakeTemplateView(u, b, c) ==
    Exists(b) /\ ~books[b].template /\ can_edit(u, b) /\ clone_runbook(u, b, c, TRUE)

RunbookFromTemplateView(u, b, c) ==
    Exists(b) /\ books[b].template /\ can_view(u, b) /\ clone_runbook(u, b, c, FALSE)

\* import_bundle (a sync): the bundle's page, by key, is created or taken over, placed
\* in its section, managed and locked; pruning archives managed pages not in it.
import_bundle(b, d, s, prune) ==
    LET found == {e \in Live : docs[e].book = b /\ docs[e].key = k1}
        put   == [NoDoc EXCEPT !.live = TRUE, !.book = b, !.sec = s, !.key = k1,
                               !.locked = TRUE, !.managed = TRUE]
    IN  /\ Exists(b) /\ resolve_section(b, s)
        /\ IF found = {} THEN ~docs[d].live ELSE d \in found
        /\ docs' = [e \in Docs |->
              IF e = d THEN (IF found = {} THEN put
                             ELSE [docs[d] EXCEPT !.sec = s, !.locked = TRUE, !.managed = TRUE])
              ELSE IF prune /\ docs[e].live /\ docs[e].book = b /\ docs[e].managed
                   THEN [docs[e] EXCEPT !.archived = TRUE] ELSE docs[e]]
        /\ UNCHANGED <<books, secs, form>>

(***************************************************************************)
(* Requests.                                                               *)
(***************************************************************************)
MaybeSects == Sects \cup {Nil}

RunbookOps(u) ==
    \/ \E b \in Books, p \in BOOLEAN : \/ RunbookCreateView(u, b, p) \/ api_runbooks(u, b, p)
                                      \/ set_runbook_visibility(u, b, p)
    \/ \E b \in Books : RunbookPublishToggleView(u, b)
    \/ \E b \in Books, m \in {"cascade", "detach"} : RunbookDeleteView(u, b, m)
    \/ \E b, c \in Books : RunbookMakeTemplateView(u, b, c) \/ RunbookFromTemplateView(u, b, c)
    \/ \E b \in Books, s \in Sects : create_section(u, b, s) \/ api_runbook_sections(u, b, s)
    \/ \E s \in Sects : SectionDeleteView(u, s)

PlaceOps(u) ==
    \/ \E d \in Docs, b \in Books, s \in MaybeSects :
          DocumentCreateView(u, d, b, s) \/ create_from_template(u, d, b, s)
    \/ \E d \in Docs, b \in Books, s \in MaybeSects, k \in Keys :
          require_write(u) /\ create_document(u, d, b, s, k)
    \/ \E d \in Docs, s \in MaybeSects : api_document(u, d, s) \/ do_put(u, d, s)
    \/ \E d, e \in Docs, b \in Books, k \in Keys : require_write(u) /\ copy_document(u, d, e, b, k)
    \/ \E d \in Docs, b \in Books \cup {Nil}, s \in MaybeSects :
          api_document_move(u, d, b, s) \/ do_move(u, d, b, s)

PageOps(u) ==
    \E d \in Docs :
       \/ api_document_archive(u, d) \/ api_document_unarchive(u, d)
       \/ do_delete(u, d) \/ DocumentDeleteView(u, d)
       \/ DocumentMakeTemplateView(u, d) \/ DocumentLockView(u, d) \/ DocumentUpdateView(u, d)

SystemOps ==
    \/ \E d \in Docs, s \in MaybeSects, l \in {Nil, "yes", "no"} : cmd_write(d, s, l)
    \/ \E b \in Books, d \in Docs, s \in MaybeSects, p \in BOOLEAN : import_bundle(b, d, s, p)

Next ==
    \/ \E u \in Users : Op(u) /\ (RunbookOps(u) \/ PlaceOps(u) \/ PageOps(u))
    \/ Op(Nil) /\ SystemOps
    \/ UpdateSave
    \/ \E b \in Books : RunbookDrop(b)

Spec == Init /\ [][Next]_raVars

(***************************************************************************)
(* Properties.                                                             *)
(***************************************************************************)
\* Whatever has been created, moved, cloned, imported, edited through a stale form or
\* orphaned by deleting a runbook, no list, search, table of contents, export or API
\* result shows a user an archived page or a page whose own page view refuses them.
ListsAreViewable == \A u \in Users : Listed(u) \subseteq (require_view(u) \cap current_docs)

\* A page filed under a section lies in that section's runbook, or in none: moves,
\* stale forms, clones, imports and deletions never leave it in a foreign section.
SectionInRunbook ==
    \A d \in Live : docs[d].sec # Nil =>
        secs[docs[d].sec] # Nil /\ docs[d].book \in {Nil, secs[docs[d].sec]}

(***************************************************************************)
(* The inductive invariant behind them.                                    *)
(***************************************************************************)
DocRows == [live : BOOLEAN, book : Books \cup {Nil}, sec : Sects \cup {Nil}, key : Keys \cup {Nil},
            locked : BOOLEAN, archived : BOOLEAN, template : BOOLEAN, managed : BOOLEAN]

\* Every variable keeps its type.
TypeOK ==
    /\ books \in [Books -> [state : {"absent", "live", "closing"}, owner : Users \cup {u1, Nil},
                            public : BOOLEAN, template : BOOLEAN]]
    /\ secs \in [Sects -> Books \cup {Nil}]
    /\ docs \in [Docs -> DocRows]
    /\ form \in {NoForm} \cup [user : Users, doc : Docs, copy : DocRows]
    /\ ops \in Nat /\ by \in Users \cup {Nil}

IInv == TypeOK /\ SectionInRunbook
=============================================================================
