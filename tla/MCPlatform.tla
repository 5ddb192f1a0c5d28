----------------------------- MODULE MCPlatform -----------------------------
(***************************************************************************)
(* The request-serving components, side by side: those of Credentials,     *)
(* over authorization codes or over login codes, of RunbookAccess,         *)
(* RunbookVersions, Accounts and SearchIndex.  A behaviour belongs to one  *)
(* of them; the others rest in an initial state.  Platform.cfg gives the   *)
(* constants small values; PlatformProofs proves for all values.           *)
(***************************************************************************)
EXTENDS Credentials, Integers, TLC

CONSTANTS
    Members, Staff, Super, ReadOnly, Books, Sects, Docs, Keys,
    b1, s1, d1, u1, k1, MaxOps,                                 \* RunbookAccess
    Sessions, WebModes, MaxVersions, AgeLimit, MaxSaves, MaxAgings,   \* RunbookVersions
    People, Admins, Tokens, Levels, Serving,                    \* Accounts
    Objs, Words, Writers, MaxWrites, MaxRebuilds, MaxFaults     \* SearchIndex

VARIABLES part,
    books, secs, docs, form, ops, by,                             \* RunbookAccess
    doc, vers, wr, sess, prunes, pruner, sweep, ages, kept, rewound,  \* RunbookVersions
    user, apiToken, job,                                          \* Accounts
    site, rowOf, idx, drifted, wtr, reb, quiet, spent             \* SearchIndex

Access == INSTANCE RunbookAccess WITH Users <- Members
Document == INSTANCE RunbookVersions WITH MaxWrites <- MaxSaves
Accts == INSTANCE Accounts WITH Users <- People, Requests <- Serving, token <- apiToken
Index == INSTANCE SearchIndex

\* The seeded rows are rows, and "nil" names none.
ASSUME SeededSite ==
    /\ "nil" \notin Books \cup Sects
    /\ b1 \in Books /\ s1 \in Sects /\ d1 \in Docs /\ k1 \in Keys
    /\ MaxOps \in Nat
\* A version policy, if any, keeps at least one version.
ASSUME VersionPolicy ==
    /\ MaxVersions \in Int /\ (MaxVersions = -1 \/ MaxVersions >= 1)
    /\ WebModes \subseteq {"overwrite", "new_version", "restore"}
    /\ AgeLimit \in BOOLEAN /\ MaxSaves \in Nat /\ MaxAgings \in Nat
ASSUME TokenSite == People # {} /\ Admins \subseteq People /\ Levels \subseteq {"auth", "staff", "readonly"}
\* Primary keys are naturals; a row's text is never the mark of a missing entry.
ASSUME SearchSite ==
    /\ IsFiniteSet(Objs) /\ Objs \subseteq Nat
    /\ Words # {} /\ "none" \notin Words
    /\ MaxWrites \in Nat /\ MaxRebuilds \in Nat /\ MaxFaults \in Nat

accessVars == <<books, secs, docs, form, ops, by>>
docVars == <<doc, vers, wr, sess, prunes, pruner, sweep, ages, kept, rewound>>
acctVars == <<user, apiToken, job>>
indexVars == <<site, rowOf, idx, drifted, wtr, reb, quiet, spent>>

\* Where a component that is not the one at work rests.
OneSite == site = [backend |-> "sqlite", declared |-> "staff", visibility |-> "unset", plain |-> TRUE]

AllInit ==
    /\ part \in {"access", "document", "codes", "logins", "accounts", "search"}
    /\ Init /\ Access!Init /\ Document!Init /\ Accts!Init
    /\ Index!Init /\ (part # "search" => OneSite)

AllNext ==
    /\ UNCHANGED part
    /\ \/ part = "access" /\ Access!Next /\ UNCHANGED <<crVars, docVars, acctVars, indexVars>>
       \/ part = "document" /\ Document!Next /\ UNCHANGED <<crVars, accessVars, acctVars, indexVars>>
       \/ part = "codes" /\ CodesNext /\ UNCHANGED <<accessVars, docVars, acctVars, indexVars>>
       \/ part = "logins" /\ LoginNext /\ UNCHANGED <<accessVars, docVars, acctVars, indexVars>>
       \/ part = "accounts" /\ Accts!Next /\ UNCHANGED <<crVars, accessVars, docVars, indexVars>>
       \/ part = "search" /\ Index!Next /\ UNCHANGED <<crVars, accessVars, docVars, acctVars>>

AllSpec == AllInit /\ [][AllNext]_<<part, accessVars, docVars, crVars, acctVars, indexVars>>

Interchangeable == Permutations(Serving) \cup Permutations(Tokens)

\* What a reader is shown is what the reader may open.  RunbookAccess: no list shows what
\* the page itself refuses, and no page is filed in a foreign section; Accounts: token lists,
\* drill-downs and counts; SearchIndex: every search surface; Credentials: no token is live
\* whose key was scrubbed unread.
ListsAreViewable ==
    /\ part = "access" => Access!ListsAreViewable /\ Access!SectionInRunbook
    /\ part = "codes" => ScrubbedIsDead
    /\ part = "accounts" => Accts!TokenListsSound
    /\ part = "search" => Index!SurfacesAgree
\* RunbookVersions: pruning never deletes the version readers are served, and no
\* acknowledged append is lost.
ReadersServed == part = "document" => Document!ReadersServed
\* SearchIndex: an undisturbed rebuild leaves exactly the rows' texts in the index.
RebuildHeals == part = "search" => Index!RebuildHeals
\* Accounts: a revoked API token never authenticates again.
RevokedStaysDead == Accts!RevokedStaysDead
=============================================================================
