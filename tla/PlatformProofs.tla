--------------------------- MODULE PlatformProofs ---------------------------
(***************************************************************************)
(* What holds of the request-serving components for all values of their    *)
(* constants: of a runbook document's versions, of runbooks and pages, of  *)
(* API tokens and of the search index.  Each has an inductive invariant in *)
(* its own module; the steps of the others leave its variables alone.      *)
(***************************************************************************)
EXTENDS MCPlatform, CredentialsProofs, FiniteSetTheorems, WellFoundedInduction

(***************************************************************************)
(* A runbook document's versions.                                          *)
(***************************************************************************)
\* Updates of the document's row.
LEMMA DocumentUpdates ==
    ASSUME NEW d \in Document!DocumentRows, NEW n \in Nat, NEW t \in SUBSET Nat,
           NEW a \in BOOLEAN, NEW f \in BOOLEAN
    PROVE  /\ [d EXCEPT !.head = n, !.version = n, !.text = t, !.fresh = TRUE] \in
                  [state : {d.state}, head : {n}, version : {n}, text : {t},
                   archived : {d.archived}, fresh : {TRUE}]
           /\ [d EXCEPT !.text = t, !.fresh = TRUE] \in
                  [state : {d.state}, head : {d.head}, version : {d.version}, text : {t},
                   archived : {d.archived}, fresh : {TRUE}]
           /\ [d EXCEPT !.archived = a, !.fresh = TRUE] \in
                  [state : {d.state}, head : {d.head}, version : {d.version}, text : {d.text},
                   archived : {a}, fresh : {TRUE}]
           /\ [d EXCEPT !.fresh = f] \in
                  [state : {d.state}, head : {d.head}, version : {d.version}, text : {d.text},
                   archived : {d.archived}, fresh : {f}]
           /\ [d EXCEPT !.head = 0] \in
                  [state : {d.state}, head : {0}, version : {d.version}, text : {d.text},
                   archived : {d.archived}, fresh : {d.fresh}]
BY DEF Document!DocumentRows

\* Updates of a version's row.
LEMMA VersionUpdates ==
    ASSUME NEW v \in Document!VersionRows, NEW t \in SUBSET Nat
    PROVE  /\ [v EXCEPT !.body = t] \in [body : {t}, old : {v.old}]
           /\ [v EXCEPT !.old = TRUE] \in [body : {v.body}, old : {TRUE}]
           /\ [body |-> t, old |-> FALSE] \in Document!VersionRows
BY DEF Document!VersionRows

\* The document's rows are typed and the head, which has not moved back, is the newest
\* version and holds what was appended.
Headed ==
    /\ doc.head \in Document!Numbers /\ doc.version = doc.head
    /\ \A n \in Document!Numbers : n <= doc.head
    /\ kept \subseteq vers[doc.head].body
Stored ==
    /\ doc \in Document!DocumentRows
    /\ Document!Numbers \subseteq Nat \ {0} /\ vers \in [Document!Numbers -> Document!VersionRows]
    /\ kept \in SUBSET Nat
Advanced ==
    \/ doc'.head = doc.head /\ vers'[doc.head].old = vers[doc.head].old
    \/ doc'.head > doc.head /\ ~vers'[doc'.head].old

LEMMA NewVersion ==
    ASSUME Stored, NEW h \in Nat, NEW body \in SUBSET Nat, Document!create_new_version(h, body)
    PROVE  LET n == Document!next_version(h) IN
           /\ n \in Nat \ {0} /\ n \notin Document!Numbers
           /\ doc' \in Document!DocumentRows /\ doc'.state = doc.state
           /\ doc'.head = n /\ doc'.version = n
           /\ DOMAIN vers' = Document!Numbers \cup {n}
           /\ vers' \in [Document!Numbers \cup {n} -> Document!VersionRows]
           /\ vers'[n].body = body /\ ~vers'[n].old
PROOF
<1> DEFINE n == Document!next_version(h)
<1>1. n \in Nat \ {0}
  BY DEF Document!next_version, Document!None
<1> HIDE DEF n
<1>2. /\ n \notin Document!Numbers
      /\ vers' = [m \in Document!Numbers \cup {n} |->
                     IF m = n THEN [body |-> body, old |-> FALSE] ELSE vers[m]]
      /\ doc' = [doc EXCEPT !.head = n, !.version = n, !.text = body, !.fresh = TRUE]
  BY DEF Document!create_new_version, Document!sync_head, n
<1>3. doc' \in [state : {doc.state}, head : {n}, version : {n}, text : {body},
                archived : {doc.archived}, fresh : {TRUE}]
  BY <1>1, <1>2, DocumentUpdates, ZenonT(60) DEF Stored
<1>4. doc' \in Document!DocumentRows /\ doc'.state = doc.state /\ doc'.head = n /\ doc'.version = n
  BY <1>1, <1>3 DEF Stored, Document!DocumentRows
<1>5. PICK new \in Document!VersionRows : new = [body |-> body, old |-> FALSE]
  BY VersionUpdates DEF Document!VersionRows
<1>6. vers' = [m \in Document!Numbers \cup {n} |-> IF m = n THEN new ELSE vers[m]]
  BY <1>2, <1>5
<1>7. new.body = body /\ ~new.old
  BY <1>5
<1> QED
  BY <1>1, <1>2, <1>4, <1>6, <1>7 DEF Stored, n

LEMMA Overwritten ==
    ASSUME Stored, NEW h \in Document!Numbers, NEW body \in SUBSET Nat,
           Document!overwrite_head(h, body)
    PROVE  /\ doc' \in Document!DocumentRows /\ doc'.state = doc.state
           /\ doc'.head = doc.head /\ doc'.version = doc.version
           /\ DOMAIN vers' = Document!Numbers /\ vers' \in [Document!Numbers -> Document!VersionRows]
           /\ vers'[h].body = body /\ \A n \in Document!Numbers : vers'[n].old = vers[n].old
PROOF
<1>1. /\ vers' = [vers EXCEPT ![h].body = body]
      /\ doc' = [doc EXCEPT !.text = body, !.fresh = TRUE]
  BY DEF Document!overwrite_head
<1>2. doc' \in [state : {doc.state}, head : {doc.head}, version : {doc.version}, text : {body},
                archived : {doc.archived}, fresh : {TRUE}]
  BY <1>1, DocumentUpdates, ZenonT(60) DEF Stored
<1>3. /\ doc' \in Document!DocumentRows /\ doc'.state = doc.state
      /\ doc'.head = doc.head /\ doc'.version = doc.version
  BY <1>2 DEF Stored, Document!DocumentRows
<1>4. vers[h] \in Document!VersionRows
  BY DEF Stored
<1>5. PICK new : new = [vers[h] EXCEPT !.body = body]
  OBVIOUS
<1>6. new \in Document!VersionRows /\ new.body = body /\ new.old = vers[h].old
  BY <1>4, <1>5, VersionUpdates DEF Document!VersionRows
<1>7. vers' = [vers EXCEPT ![h] = new]
  BY <1>1, <1>5
<1> QED
  BY <1>3, <1>6, <1>7 DEF Stored, Document!Numbers

\* write_version, for a caller whose copy has head h: the document's own head when it
\* appends.
LEMMA WriteVersion ==
    ASSUME Stored, Document!Live, NEW h \in Nat, NEW w \in Nat,
           NEW mode \in {"new_version", "overwrite", "append", "append_version"},
           Document!write_version(h, mode, w)
    PROVE  /\ Stored' /\ Document!Live' /\ wr' = w
           /\ Headed /\ h \in 1..doc.head /\ (mode \in {"append", "append_version"} => h = doc.head) =>
                 (h < doc.head /\ doc'.version < doc.version) \/ (Headed' /\ Advanced)
PROOF
<1> DEFINE body == IF mode \in {"append", "append_version"} THEN Document!read_head(h) \cup {w} ELSE {w}
<1>1. body \in SUBSET Nat
  BY DEF Document!write_version, Document!Readable, Document!read_head, Document!None, Stored,
         Document!VersionRows
<1>2. /\ wr' = w
      /\ kept' = IF mode \in {"append", "append_version"} THEN kept \cup {w} ELSE {}
      /\ IF mode \in {"new_version", "append_version"} THEN Document!create_new_version(h, body)
         ELSE h \in Document!Numbers /\ Document!overwrite_head(h, body)
  BY DEF Document!write_version, Document!Readable
<1>3. mode \in {"append", "append_version"} /\ h \in Document!Numbers => body = vers[h].body \cup {w}
  BY DEF Document!read_head, Document!None, Stored
<1> HIDE DEF body
<1>4. kept' \in SUBSET Nat
  BY <1>2 DEF Stored
<1>5. CASE mode \in {"new_version", "append_version"}
  <2> DEFINE n == Document!next_version(h)
  <2>1. /\ n \in Nat \ {0} /\ n \notin Document!Numbers
        /\ doc' \in Document!DocumentRows /\ doc'.state = doc.state
        /\ doc'.head = n /\ doc'.version = n
        /\ DOMAIN vers' = Document!Numbers \cup {n}
        /\ vers' \in [Document!Numbers \cup {n} -> Document!VersionRows]
        /\ vers'[n].body = body /\ ~vers'[n].old
    BY <1>1, <1>2, <1>5, NewVersion
  <2>2. h # 0 => n = h + 1
    BY DEF Document!next_version, Document!None
  <2> HIDE DEF n
  <2>3. Stored' /\ Document!Live'
    BY <1>4, <2>1 DEF Stored, Document!Numbers, Document!Live
  <2>4. ASSUME Headed, h \in 1..doc.head, mode \in {"append", "append_version"} => h = doc.head
        PROVE  (h < doc.head /\ doc'.version < doc.version) \/ (Headed' /\ Advanced)
    <3>0. doc.head \in Nat /\ doc.version = doc.head
      BY <2>4 DEF Stored, Headed, Document!DocumentRows
    <3>1. doc.head \in Nat /\ doc.version = doc.head /\ n = h + 1
      BY <3>0, <2>2, <2>4
    <3>2. CASE h < doc.head
      <4>1. n # doc.head
        BY <2>1, <2>4 DEF Headed
      <4> QED
        BY <2>1, <3>1, <3>2, <4>1, <2>4
    <3>3. CASE h = doc.head
      <4>1. kept' \subseteq body
        BY <1>2, <1>3, <2>4, <3>3 DEF Headed
      <4>2. \A m \in Document!Numbers : m \in Nat /\ m <= n
        BY <2>1, <2>4, <3>1, <3>3 DEF Headed, Stored
      <4> QED
        BY <2>1, <2>4, <3>1, <3>3, <4>1, <4>2 DEF Headed, Advanced, Document!Numbers
    <3> QED
      BY <2>4, <3>1, <3>2, <3>3
  <2> QED
    BY <1>2, <2>3, <2>4
<1>6. CASE mode \in {"overwrite", "append"}
  <2>1. h \in Document!Numbers /\ Document!overwrite_head(h, body)
    BY <1>2, <1>6
  <2>2. /\ doc' \in Document!DocumentRows /\ doc'.state = doc.state
        /\ doc'.head = doc.head /\ doc'.version = doc.version
        /\ DOMAIN vers' = Document!Numbers /\ vers' \in [Document!Numbers -> Document!VersionRows]
        /\ vers'[h].body = body /\ \A n \in Document!Numbers : vers'[n].old = vers[n].old
    BY <1>1, <2>1, Overwritten
  <2>3. Stored' /\ Document!Live'
    BY <1>4, <2>2 DEF Stored, Document!Numbers, Document!Live
  <2>4. ASSUME Headed, h \in 1..doc.head, mode \in {"append", "append_version"} => h = doc.head
        PROVE  Headed' /\ Advanced
    <3>1. kept' \subseteq vers'[doc'.head].body
      BY <1>2, <1>3, <1>6, <2>1, <2>2, <2>4 DEF Headed
    <3> QED
      BY <2>2, <2>4, <3>1 DEF Headed, Advanced, Document!Numbers
  <2> QED
    BY <1>2, <2>3, <2>4
<1> QED
  BY <1>5, <1>6

LEMMA Steadily == Document!Steady => Headed
BY DEF Document!Steady, Headed

\* What is in flight stays behind a head that stays or advances.
LEMMA StaysSteady ==
    ASSUME Document!TypeOK, Stored', Document!Steady, Headed', Advanced, UNCHANGED <<pruner, sweep>>,
           \A s \in Sessions : sess'[s] = sess[s] \/ sess'[s].pc = "idle"
    PROVE  Document!Steady'
PROOF
<1>1. doc.head \in Nat /\ doc'.head \in Nat /\ doc'.head >= doc.head
  BY DEF Document!TypeOK, Stored, Document!DocumentRows, Advanced
<1>2. ASSUME NEW s \in Sessions, sess'[s].pc = "loaded" PROVE sess'[s].head \in 1..doc'.head
  <2>1. sess'[s] = sess[s] /\ sess[s].head \in 1..doc.head
    BY <1>2 DEF Document!Steady
  <2> QED
    BY <1>1, <2>1
<1>3. \A h \in Nat : h = doc.head \/ ~vers[doc.head].old => h = doc'.head \/ ~vers'[doc'.head].old
  BY DEF Advanced
<1>4. ASSUME NEW p \in {"worker", "sweep"}
      PROVE  (/\ pruner[p].pc = "list" => Document!Spares(pruner[p].head)
              /\ pruner[p].pc = "delete" => \A n \in pruner[p].doomed : n < doc.head)'
  <2>1. pruner'[p] = pruner[p] /\ pruner[p] \in Document!Prunings
    BY DEF Document!TypeOK
  <2>2. pruner[p].pc = "list" => pruner[p].head \in Nat
    BY <2>1 DEF Document!Prunings, Document!Idle
  <2>3. pruner[p].pc = "delete" => pruner[p].doomed \in SUBSET Nat
    BY <2>1 DEF Document!Prunings, Document!Idle
  <2>4. (pruner[p].pc = "list" => Document!Spares(pruner[p].head))'
    BY <2>1, <2>2, <1>3 DEF Document!Steady, Document!Spares
  <2>5. pruner[p].pc = "delete" => \A n \in pruner[p].doomed : n < doc'.head
    BY <1>1, <2>3 DEF Document!Steady
  <2> QED
    BY <2>1, <2>4, <2>5
<1>5. (sweep.pc = "prune" => Document!Spares(sweep.head))'
  <2>1. sweep.pc = "prune" => sweep.head \in Nat
    BY DEF Document!TypeOK, Document!Idle
  <2> QED
    BY <2>1, <1>3 DEF Document!Steady, Document!Spares
<1> QED
  BY <1>2, <1>4, <1>5 DEF Document!Steady, Headed

\* Types, of what is stored and of what is in flight.
Loaded ==
    /\ wr \in Nat /\ prunes \in Nat /\ ages \in Nat
    /\ sess \in [Sessions -> Document!Loads]
    /\ pruner \in [{"worker", "sweep"} -> Document!Prunings]
    /\ sweep \in {Document!Idle} \cup [pc : {"prune", "expire"}, head : Nat, fresh : BOOLEAN]
    /\ rewound \in BOOLEAN
LEMMA Typing == Document!TypeOK <=> Stored /\ Loaded
BY DEF Document!TypeOK, Stored, Loaded, Document!None
LEMMA Kept ==
    /\ Stored' /\ Loaded'
    /\ Document!Live' /\ ~rewound' => Document!Steady'
    /\ doc'.state = "absent" => Document!Untouched'
    => Document!IInv'
BY DEF Document!IInv, Document!TypeOK, Stored, Loaded, Document!None

LEMMA DocumentInit == Document!Init => Document!IInv
PROOF
<1> SUFFICES ASSUME Document!Init PROVE Document!IInv
  OBVIOUS
<1>1. doc = [state |-> "absent", head |-> 0, version |-> 1, text |-> {}, archived |-> FALSE,
             fresh |-> TRUE] /\ vers = <<>> /\ kept = {}
  BY DEF Document!Init, Document!None
<1>2. doc \in Document!DocumentRows /\ doc.state = "absent"
  BY <1>1 DEF Document!DocumentRows
<1>3. Document!Numbers = {} /\ vers \in [Document!Numbers -> Document!VersionRows]
  BY <1>1 DEF Document!Numbers
<1>4. Stored
  BY <1>1, <1>2, <1>3 DEF Stored
<1>5. Loaded
  BY DEF Loaded, Document!Init, Document!Loads, Document!Prunings
<1>6. Document!Untouched
  BY DEF Document!Init, Document!Untouched
<1> QED
  BY <1>2, <1>4, <1>5, <1>6, Typing DEF Document!IInv, Document!Live

\* The upsert.
LEMMA PutKeeps ==
    ASSUME Document!IInv, NEW mode \in {"new_version", "overwrite", "append", "append_version"},
           NEW e \in Nat, Document!put_document(mode, e)
    PROVE  Document!IInv'
PROOF
<1>1. /\ UNCHANGED <<sess, pruner, sweep, ages, rewound>> /\ Stored /\ Loaded
      /\ wr + 1 \in Nat
  BY Typing DEF Document!IInv, Document!put_document, Loaded
<1>2. CASE doc.state = "absent" /\ Document!create_document(wr + 1)
  <2> DEFINE w == wr + 1
  <2>1. /\ wr' = w /\ kept' = {w} /\ prunes' = prunes
        /\ vers' = [n \in {1} |-> [body |-> {w}, old |-> FALSE]]
        /\ doc' = [state |-> "live", head |-> 1, version |-> 1, text |-> {w}, archived |-> FALSE,
                   fresh |-> TRUE]
    BY <1>2 DEF Document!create_document
  <2>2. w \in Nat
    BY <1>1
  <2> HIDE DEF w
  <2>3. /\ doc' \in Document!DocumentRows /\ doc'.state = "live" /\ doc'.head = 1 /\ doc'.version = 1
    BY <2>1, <2>2 DEF Document!DocumentRows
  <2>4. PICK new \in Document!VersionRows : new = [body |-> {w}, old |-> FALSE]
    BY <2>2, VersionUpdates, ZenonT(60) DEF Document!VersionRows
  <2>5. /\ DOMAIN vers' = {1} /\ vers' \in [{1} -> Document!VersionRows]
        /\ vers'[1].body = {w}
    BY <2>1, <2>4
  <2>6. Stored' /\ Headed'
    BY <2>1, <2>2, <2>3, <2>5 DEF Stored, Headed, Document!Numbers
  <2>7. Loaded'
    BY <1>1, <2>1, <2>2 DEF Loaded
  <2>8. Document!Steady'
    <3>1. /\ \A s \in Sessions : sess'[s].pc = "idle"
          /\ \A p \in {"worker", "sweep"} : pruner'[p].pc = "idle"
          /\ sweep'.pc = "idle"
      BY <1>1, <1>2 DEF Document!IInv, Document!Untouched, Document!Idle
    <3> QED
      BY <2>6, <3>1 DEF Document!Steady, Headed
  <2> QED
    BY <2>3, <2>6, <2>7, <2>8, Kept DEF Document!IInv
<1>3. CASE doc.state = "live" /\ Document!write_version(doc.head, mode, wr + 1)
  <2>1. doc.head \in Nat /\ Document!Live /\ doc.version \in Nat
    BY <1>1, <1>3 DEF Stored, Document!DocumentRows, Document!Live
  <2>2. /\ Stored' /\ Document!Live' /\ wr' = wr + 1
        /\ Headed /\ doc.head \in 1..doc.head =>
              (doc.head < doc.head /\ doc'.version < doc.version) \/ (Headed' /\ Advanced)
    BY <1>1, <1>3, <2>1, WriteVersion
  <2>3. Loaded'
    BY <1>1, <1>3, <2>2 DEF Loaded, Document!write_version, Document!emit_written
  <2>4. ASSUME ~rewound' PROVE Document!Steady'
    <3>1. Document!Steady /\ Document!TypeOK
      BY <1>1, <2>1, <2>4 DEF Document!IInv
    <3>2. Headed /\ doc.head \in 1..doc.head
      BY <1>1, <2>1, <3>1, Steadily DEF Headed, Stored
    <3> QED
      BY <1>1, <2>1, <2>2, <3>1, <3>2, StaysSteady
  <2> QED
    BY <2>2, <2>3, <2>4, Kept DEF Document!Live
<1> QED
  BY <1>2, <1>3 DEF Document!put_document

\* A web request's load, and its save through the copy.
LEMMA WebLoadKeeps ==
    ASSUME Document!IInv, NEW s \in Sessions, NEW mode, Document!WebLoad(s, mode)
    PROVE  Document!IInv'
PROOF
<1> DEFINE l == [pc |-> "loaded", mode |-> mode, head |-> doc.head]
<1>1. /\ Document!Live /\ mode \in WebModes /\ sess' = [sess EXCEPT ![s] = l]
      /\ UNCHANGED <<doc, vers, wr, prunes, pruner, sweep, ages, kept, rewound>>
  BY DEF Document!WebLoad
<1>2. Stored /\ Loaded
  BY Typing DEF Document!IInv
<1>3. doc.head \in Nat
  BY <1>2 DEF Stored, Document!DocumentRows
<1>4. l \in Document!Loads /\ l.pc = "loaded" /\ l.head = doc.head
  BY <1>1, <1>3 DEF Document!Loads
<1> HIDE DEF l
<1>5. sess' \in [Sessions -> Document!Loads] /\ sess'[s] = l /\ \A t \in Sessions \ {s} : sess'[t] = sess[t]
  BY <1>1, <1>2, <1>4 DEF Loaded
<1>6. Stored' /\ Loaded'
  BY <1>1, <1>2, <1>5 DEF Stored, Loaded, Document!Numbers
<1>7. ASSUME Document!Steady PROVE Document!Steady'
  <2>1. sess'[s].head \in 1..doc.head
    BY <1>2, <1>3, <1>4, <1>5, <1>7 DEF Document!Steady, Stored, Document!Numbers
  <2> QED
    BY <1>1, <1>5, <1>7, <2>1 DEF Document!Steady, Document!Spares, Document!Numbers
<1> QED
  BY <1>1, <1>6, <1>7, Kept DEF Document!IInv, Document!Live

LEMMA WebSaveKeeps ==
    ASSUME Document!IInv, NEW s \in Sessions, Document!WebSave(s)
    PROVE  Document!IInv'
PROOF
<1> DEFINE mode == IF sess[s].mode = "restore" THEN "new_version" ELSE sess[s].mode
           h == sess[s].head
<1>1. Stored /\ Loaded
  BY Typing DEF Document!IInv
<1>2. sess[s].pc = "loaded" /\ sess[s] \in Document!Loads
  BY <1>1 DEF Document!WebSave, Loaded
<1>3. h \in Nat /\ mode \in {"new_version", "overwrite"}
  <2>1. sess[s] \in [pc : {"loaded"}, mode : WebModes, head : Nat]
    BY <1>2 DEF Document!Loads, Document!Idle
  <2>2. sess[s].mode \in {"overwrite", "new_version", "restore"}
    BY <2>1, VersionPolicy
  <2> QED
    BY <2>1, <2>2
<1>4. /\ sess' = [sess EXCEPT ![s] = Document!Idle] /\ UNCHANGED <<pruner, sweep, ages>>
      /\ rewound' = (rewound \/ (Document!Live /\ doc'.version < doc.version))
      /\ \/ Document!Live /\ Document!write_version(h, mode, wr + 1)
         \/ UNCHANGED <<doc, vers, wr, prunes, kept>>
  BY DEF Document!WebSave
<1> HIDE DEF mode
<1>5. /\ sess' \in [Sessions -> Document!Loads] /\ sess'[s].pc = "idle"
      /\ \A t \in Sessions : sess'[t] = sess[t] \/ sess'[t].pc = "idle"
  BY <1>1, <1>4 DEF Loaded, Document!Loads, Document!Idle
<1>6. doc.state # "absent"
  BY <1>2 DEF Document!IInv, Document!Untouched, Document!Idle
<1>7. CASE Document!Live /\ Document!write_version(h, mode, wr + 1)
  <2>1. wr + 1 \in Nat
    BY <1>1 DEF Loaded
  <2>2. /\ Stored' /\ Document!Live' /\ wr' = wr + 1
        /\ Headed /\ h \in 1..doc.head =>
              (h < doc.head /\ doc'.version < doc.version) \/ (Headed' /\ Advanced)
    BY <1>1, <1>3, <1>7, <2>1, WriteVersion
  <2>3. prunes' \in Nat
    BY <1>1, <1>7 DEF Loaded, Document!write_version, Document!emit_written
  <2>4. Loaded'
    BY <1>1, <1>4, <1>5, <2>1, <2>2, <2>3 DEF Loaded
  <2>5. ASSUME ~rewound' PROVE Document!Steady'
    <3>1. Document!Steady /\ Document!TypeOK /\ ~(doc'.version < doc.version)
      BY <1>4, <1>7, <2>5 DEF Document!IInv
    <3>2. Headed /\ h \in 1..doc.head
      BY <1>2, <3>1, Steadily DEF Document!Steady
    <3> QED
      BY <1>4, <1>5, <2>2, <3>1, <3>2, StaysSteady
  <2> QED
    BY <2>2, <2>4, <2>5, Kept DEF Document!IInv, Document!Live
<1>8. CASE UNCHANGED <<doc, vers, wr, prunes, kept>>
  <2>1. Stored' /\ Loaded'
    BY <1>1, <1>4, <1>5, <1>8 DEF Stored, Loaded, Document!Numbers
  <2>2. ASSUME Document!Live', ~rewound' PROVE Document!Steady'
    <3>1. Document!Steady /\ Document!TypeOK
      BY <1>4, <1>8, <2>2 DEF Document!IInv, Document!Live
    <3>2. Headed' /\ Advanced
      BY <1>8, <3>1, Steadily DEF Headed, Advanced, Document!Numbers
    <3> QED
      BY <1>4, <1>5, <2>1, <3>1, <3>2, StaysSteady
  <2> QED
    BY <1>6, <1>8, <2>1, <2>2, Kept DEF Document!IInv
<1> QED
  BY <1>4, <1>7, <1>8

\* Archiving, and anything else that keeps the head and the versions' rows.
LEMMA RowKeeps ==
    ASSUME Document!IInv, doc' \in Document!DocumentRows, doc'.state = doc.state,
           doc'.head = doc.head, doc'.version = doc.version,
           UNCHANGED <<vers, wr, sess, prunes, pruner, sweep, ages, kept, rewound>>
    PROVE  Document!IInv'
PROOF
<1>1. Stored' /\ Loaded'
  BY Typing DEF Document!IInv, Stored, Loaded, Document!Numbers
<1>2. Document!Steady => Document!Steady'
  BY DEF Document!Steady, Document!Spares, Document!Numbers
<1>3. Document!Untouched => Document!Untouched'
  BY DEF Document!Untouched
<1> QED
  BY <1>1, <1>2, <1>3, Kept DEF Document!IInv, Document!Live

LEMMA ArchiveKeeps ==
    ASSUME Document!IInv, Document!archive_document \/ Document!unarchive_document
    PROVE  Document!IInv'
PROOF
<1>1. PICK a \in BOOLEAN : doc' = [doc EXCEPT !.archived = a, !.fresh = TRUE]
  BY DEF Document!archive_document, Document!unarchive_document
<1>2. doc' \in [state : {doc.state}, head : {doc.head}, version : {doc.version}, text : {doc.text},
                archived : {a}, fresh : {TRUE}] /\ doc \in Document!DocumentRows
  BY <1>1, DocumentUpdates, ZenonT(60) DEF Document!IInv, Document!TypeOK
<1>3. /\ doc' \in Document!DocumentRows /\ doc'.state = doc.state
      /\ doc'.head = doc.head /\ doc'.version = doc.version
  BY <1>2 DEF Document!DocumentRows
<1> QED
  BY <1>3, RowKeeps DEF Document!archive_document, Document!unarchive_document

\* Once the document is gone there is no head to lose.
LEMMA GoneKeeps ==
    ASSUME Document!IInv, Document!Gone, Loaded' PROVE Document!IInv'
PROOF
<1>1. doc' \in Document!DocumentRows /\ doc'.state = "gone"
  BY DEF Document!Gone, Document!DocumentRows, Document!None
<1>2. DOMAIN vers' = {} /\ vers' \in [{} -> Document!VersionRows] /\ kept' = {}
  BY DEF Document!Gone
<1>3. Stored'
  BY <1>1, <1>2 DEF Stored, Document!Numbers
<1> QED
  BY <1>1, <1>3, Kept DEF Document!IInv, Document!Live

LEMMA DeleteKeeps == ASSUME Document!IInv, Document!delete_document PROVE Document!IInv'
PROOF
<1>1. Loaded'
  BY Typing DEF Document!IInv, Document!delete_document, Loaded
<1> QED
  BY <1>1, GoneKeeps DEF Document!delete_document

\* The clock: nothing is in flight.
LEMMA AgeKeeps == ASSUME Document!IInv, Document!Age PROVE Document!IInv'
PROOF
<1>1. Stored /\ Loaded
  BY Typing DEF Document!IInv
<1>2. /\ vers' = [n \in Document!Numbers |-> [vers[n] EXCEPT !.old = TRUE]]
      /\ doc' = [doc EXCEPT !.fresh = FALSE] /\ ages' = ages + 1
      /\ UNCHANGED <<wr, sess, prunes, pruner, sweep, kept, rewound>>
  BY DEF Document!Age
<1>3. Document!Untouched
  BY <1>1 DEF Document!Age, Document!Untouched, Loaded
<1>4. doc' \in [state : {doc.state}, head : {doc.head}, version : {doc.version}, text : {doc.text},
                archived : {doc.archived}, fresh : {FALSE}]
  BY <1>1, <1>2, DocumentUpdates DEF Stored
<1>5. /\ doc' \in Document!DocumentRows /\ doc'.state = doc.state
      /\ doc'.head = doc.head /\ doc'.version = doc.version
  BY <1>1, <1>4 DEF Stored, Document!DocumentRows
<1>6. \A n \in Document!Numbers : vers'[n] \in Document!VersionRows /\ vers'[n].body = vers[n].body
  <2> SUFFICES ASSUME NEW n \in Document!Numbers
               PROVE  vers'[n] \in Document!VersionRows /\ vers'[n].body = vers[n].body
    OBVIOUS
  <2>1. vers'[n] = [vers[n] EXCEPT !.old = TRUE] /\ vers[n] \in Document!VersionRows
    BY <1>1, <1>2 DEF Stored
  <2>2. vers'[n] \in [body : {vers[n].body}, old : {TRUE}]
    BY <2>1, VersionUpdates, Zenon
  <2> QED
    BY <2>1, <2>2 DEF Document!VersionRows
<1>7. DOMAIN vers' = Document!Numbers /\ vers' \in [Document!Numbers -> Document!VersionRows]
  BY <1>2, <1>6
<1>8. Stored' /\ Loaded'
  BY <1>1, <1>2, <1>5, <1>7 DEF Stored, Loaded, Document!Numbers
<1>9. Document!Untouched'
  BY <1>2, <1>3 DEF Document!Untouched
<1>10. Document!Steady => Document!Steady'
  BY <1>2, <1>5, <1>6, <1>7, <1>9 DEF Document!Steady, Document!Numbers, Document!Untouched, Document!Idle
<1> QED
  BY <1>2, <1>5, <1>8, <1>9, <1>10, Kept DEF Document!IInv, Document!Live

\* Prunings.
LEMMA PruneTaskKeeps == ASSUME Document!IInv, Document!PruneTask PROVE Document!IInv'
PROOF
<1> DEFINE l == [pc |-> "list", head |-> doc.head]
<1>1. Stored /\ Loaded
  BY Typing DEF Document!IInv
<1>2. /\ prunes > 0 /\ prunes' = prunes - 1
      /\ pruner' = IF Document!Live THEN [pruner EXCEPT !["worker"] = l] ELSE pruner
      /\ UNCHANGED <<doc, vers, wr, sess, sweep, ages, kept, rewound>>
  BY DEF Document!PruneTask
<1>3. l \in Document!Prunings /\ l.pc = "list" /\ l.head = doc.head
  BY <1>1 DEF Document!Prunings, Stored, Document!DocumentRows
<1> HIDE DEF l
<1>4. /\ pruner' \in [{"worker", "sweep"} -> Document!Prunings]
      /\ \A p \in {"worker", "sweep"} : pruner'[p] = pruner[p] \/ (Document!Live /\ pruner'[p] = l)
  BY <1>1, <1>2, <1>3 DEF Loaded
<1>5. Stored' /\ Loaded'
  BY <1>1, <1>2, <1>4 DEF Stored, Loaded, Document!Numbers
<1>6. Document!Steady => Document!Steady'
  BY <1>2, <1>3, <1>4 DEF Document!Steady, Document!Spares, Document!Numbers
<1>7. doc.state = "absent" /\ Document!Untouched => Document!Untouched'
  BY <1>2, <1>4 DEF Document!Untouched, Document!Live
<1> QED
  BY <1>2, <1>5, <1>6, <1>7, Kept DEF Document!IInv, Document!Live

\* The newest version is beyond no policy that keeps one, and no pruning sees it old.
LEMMA HeadSpared ==
    ASSUME Stored, Headed, NEW h \in Nat, Document!Spares(h)
    PROVE  \A n \in Document!Doomed(h) : n < doc.head
PROOF
<1>1. doc.head \in Nat /\ doc.head \in Document!Numbers
  BY DEF Stored, Headed, Document!DocumentRows
<1>2. {m \in Document!Numbers : m > doc.head} = {}
  <2> SUFFICES ASSUME NEW m \in Document!Numbers, m > doc.head PROVE FALSE
    OBVIOUS
  <2>1. m <= doc.head /\ m \in Nat
    BY DEF Headed, Stored
  <2> QED
    BY <1>1, <2>1
<1>3. Document!Cardinality({}) = 0
  BY FS_EmptySet DEF Cardinality, Document!Cardinality
<1>4. MaxVersions # -1 => ~(Document!Cardinality({m \in Document!Numbers : m > doc.head}) >= MaxVersions)
  <2>1. Document!Cardinality({m \in Document!Numbers : m > doc.head}) = 0
    BY <1>2, <1>3, Zenon
  <2> QED
    BY <2>1, VersionPolicy
<1>5. doc.head \notin Document!Doomed(h)
  <2> SUFFICES ASSUME doc.head \in Document!Doomed(h) PROVE FALSE
    OBVIOUS
  <2>1. doc.head # h
    BY DEF Document!Doomed
  <2>2. ~vers[doc.head].old
    BY <2>1 DEF Document!Spares
  <2> QED
    BY <1>4, <2>2 DEF Document!Doomed, Document!NoLimit
<1>6. Document!Doomed(h) \subseteq Document!Numbers
  BY DEF Document!Doomed
<1>7. \A n \in Document!Numbers : n \in Nat /\ n <= doc.head
  BY DEF Headed, Stored
<1> QED
  BY <1>1, <1>5, <1>6, <1>7

LEMMA PruneListKeeps ==
    ASSUME Document!IInv, NEW p \in {"worker", "sweep"}, Document!PruneList(p) PROVE Document!IInv'
PROOF
<1> DEFINE dead == Document!Doomed(pruner[p].head)
           l == [pc |-> "delete", doomed |-> dead]
<1>1. Stored /\ Loaded
  BY Typing DEF Document!IInv
<1>2. /\ pruner[p].pc = "list" /\ pruner' = [pruner EXCEPT ![p] = l]
      /\ UNCHANGED <<doc, vers, wr, sess, prunes, sweep, ages, kept, rewound>>
  BY DEF Document!PruneList
<1>3. pruner[p].head \in Nat
  BY <1>1, <1>2 DEF Loaded, Document!Prunings, Document!Idle
<1>4. dead \in SUBSET Nat
  BY <1>1 DEF Document!Doomed, Stored
<1>5. Document!Steady => \A n \in dead : n < doc.head
  BY <1>1, <1>2, <1>3, HeadSpared, Steadily DEF Document!Steady
<1> HIDE DEF dead
<1>6. l \in Document!Prunings /\ l.pc = "delete" /\ l.doomed = dead
  BY <1>4 DEF Document!Prunings
<1> HIDE DEF l
<1>7. /\ pruner' \in [{"worker", "sweep"} -> Document!Prunings] /\ pruner'[p] = l
      /\ \A q \in {"worker", "sweep"} \ {p} : pruner'[q] = pruner[q]
  BY <1>1, <1>2, <1>6 DEF Loaded
<1>8. Stored' /\ Loaded'
  BY <1>1, <1>2, <1>7 DEF Stored, Loaded, Document!Numbers
<1>9. Document!Steady => Document!Steady'
  BY <1>2, <1>5, <1>6, <1>7 DEF Document!Steady, Document!Spares, Document!Numbers
<1>10. doc.state # "absent"
  BY <1>2 DEF Document!IInv, Document!Untouched, Document!Idle
<1> QED
  BY <1>2, <1>8, <1>9, <1>10, Kept DEF Document!IInv, Document!Live

LEMMA prune_versionsKeeps ==
    ASSUME Document!IInv, NEW p \in {"worker", "sweep"}, Document!prune_versions(p)
    PROVE  Document!IInv'
PROOF
<1> DEFINE dead == pruner[p].doomed
<1>1. Stored /\ Loaded
  BY Typing DEF Document!IInv
<1>2. /\ pruner[p].pc = "delete" /\ pruner' = [pruner EXCEPT ![p] = Document!Idle]
      /\ vers' = [n \in Document!Numbers \ dead |-> vers[n]]
      /\ doc' = IF doc.head \in dead THEN [doc EXCEPT !.head = 0] ELSE doc
      /\ UNCHANGED <<wr, sess, prunes, sweep, ages, kept, rewound>>
  BY DEF Document!prune_versions, Document!None
<1>3. [doc EXCEPT !.head = 0] \in [state : {doc.state}, head : {0}, version : {doc.version},
          text : {doc.text}, archived : {doc.archived}, fresh : {doc.fresh}]
  BY <1>1, DocumentUpdates DEF Stored
<1>4. doc' \in Document!DocumentRows /\ doc'.state = doc.state
  BY <1>1, <1>2, <1>3 DEF Stored, Document!DocumentRows
<1>5. /\ DOMAIN vers' = Document!Numbers \ dead
      /\ vers' \in [Document!Numbers \ dead -> Document!VersionRows]
      /\ \A n \in Document!Numbers \ dead : vers'[n] = vers[n]
  BY <1>1, <1>2 DEF Stored
<1>6. /\ pruner' \in [{"worker", "sweep"} -> Document!Prunings] /\ pruner'[p].pc = "idle"
      /\ \A q \in {"worker", "sweep"} \ {p} : pruner'[q] = pruner[q]
  BY <1>1, <1>2 DEF Loaded, Document!Prunings, Document!Idle
<1>7. Stored' /\ Loaded'
  BY <1>1, <1>2, <1>4, <1>5, <1>6 DEF Stored, Loaded, Document!Numbers
<1>8. ASSUME Document!Steady PROVE Document!Steady'
  <2>1. doc.head \in Document!Numbers \ dead
    <3>1. doc.head \in Nat /\ (doc.head \in dead => doc.head < doc.head)
      BY <1>1, <1>2, <1>8 DEF Document!Steady, Stored, Document!DocumentRows
    <3> QED
      BY <1>8, <3>1 DEF Document!Steady
  <2>2. doc' = doc /\ vers'[doc.head] = vers[doc.head]
    BY <1>2, <1>5, <2>1
  <2> QED
    BY <1>2, <1>5, <1>6, <1>8, <2>1, <2>2 DEF Document!Steady, Document!Spares, Document!Numbers
<1>9. doc.state # "absent"
  BY <1>2 DEF Document!IInv, Document!Untouched, Document!Idle
<1> QED
  BY <1>2, <1>4, <1>7, <1>8, <1>9, Kept DEF Document!IInv, Document!Live

\* The sweep.
LEMMA run_sweepKeeps == ASSUME Document!IInv, Document!run_sweep PROVE Document!IInv'
PROOF
<1> DEFINE l == [pc |-> "prune", head |-> doc.head, fresh |-> doc.fresh]
<1>1. Stored /\ Loaded
  BY Typing DEF Document!IInv
<1>2. /\ Document!Live /\ sweep' = l
      /\ UNCHANGED <<doc, vers, wr, sess, prunes, pruner, ages, kept, rewound>>
  BY DEF Document!run_sweep
<1>3. /\ l \in [pc : {"prune", "expire"}, head : Nat, fresh : BOOLEAN] /\ l.head = doc.head
  BY <1>1 DEF Stored, Document!DocumentRows
<1> HIDE DEF l
<1>4. Stored' /\ Loaded'
  BY <1>1, <1>2, <1>3 DEF Stored, Loaded, Document!Numbers
<1>5. Document!Steady => Document!Steady'
  BY <1>2, <1>3 DEF Document!Steady, Document!Spares, Document!Numbers
<1> QED
  BY <1>2, <1>4, <1>5, Kept DEF Document!IInv, Document!Live

LEMMA SweepPruneKeeps == ASSUME Document!IInv, Document!SweepPrune PROVE Document!IInv'
PROOF
<1> DEFINE l == [pc |-> "list", head |-> sweep.head]
<1>1. Stored /\ Loaded
  BY Typing DEF Document!IInv
<1>2. /\ sweep.pc = "prune" /\ pruner' = [pruner EXCEPT !["sweep"] = l]
      /\ sweep' = [sweep EXCEPT !.pc = "expire"]
      /\ UNCHANGED <<doc, vers, wr, sess, prunes, ages, kept, rewound>>
  BY DEF Document!SweepPrune
<1>3. sweep \in [pc : {"prune", "expire"}, head : Nat, fresh : BOOLEAN]
  BY <1>1, <1>2 DEF Loaded, Document!Idle
<1>4. sweep' \in [pc : {"prune", "expire"}, head : Nat, fresh : BOOLEAN] /\ sweep'.pc = "expire"
  BY <1>2, <1>3
<1>5. l \in Document!Prunings /\ l.pc = "list" /\ l.head = sweep.head
  BY <1>3 DEF Document!Prunings
<1> HIDE DEF l
<1>6. /\ pruner' \in [{"worker", "sweep"} -> Document!Prunings] /\ pruner'["sweep"] = l
      /\ pruner'["worker"] = pruner["worker"]
  BY <1>1, <1>2, <1>5 DEF Loaded
<1>7. Stored' /\ Loaded'
  BY <1>1, <1>2, <1>4, <1>6 DEF Stored, Loaded, Document!Numbers
<1>8. Document!Steady => Document!Steady'
  BY <1>2, <1>4, <1>5, <1>6 DEF Document!Steady, Document!Spares, Document!Numbers
<1>9. doc.state # "absent"
  BY <1>2 DEF Document!IInv, Document!Untouched, Document!Idle
<1> QED
  BY <1>2, <1>7, <1>8, <1>9, Kept DEF Document!IInv, Document!Live

LEMMA expire_documentKeeps == ASSUME Document!IInv, Document!expire_document PROVE Document!IInv'
PROOF
<1>1. Stored /\ Loaded
  BY Typing DEF Document!IInv
<1>2. /\ sweep.pc = "expire" /\ sweep' = Document!Idle
      /\ UNCHANGED <<wr, sess, prunes, pruner, ages, rewound>>
  BY DEF Document!expire_document
<1>3. Loaded'
  BY <1>1, <1>2 DEF Loaded
<1>4. doc.state # "absent"
  BY <1>2 DEF Document!IInv, Document!Untouched, Document!Idle
<1>5. CASE Document!Gone
  BY <1>3, <1>5, GoneKeeps
<1>6. CASE (doc' = [doc EXCEPT !.archived = TRUE, !.fresh = TRUE] \/ doc' = doc) /\ UNCHANGED <<vers, kept>>
  <2>1. [doc EXCEPT !.archived = TRUE, !.fresh = TRUE] \in
           [state : {doc.state}, head : {doc.head}, version : {doc.version}, text : {doc.text},
            archived : {TRUE}, fresh : {TRUE}]
    BY <1>1, DocumentUpdates DEF Stored
  <2>2. /\ doc' \in Document!DocumentRows /\ doc'.state = doc.state
        /\ doc'.head = doc.head /\ doc'.version = doc.version
    BY <1>1, <1>6, <2>1 DEF Stored, Document!DocumentRows
  <2>3. Stored'
    BY <1>1, <1>6, <2>2 DEF Stored, Document!Numbers
  <2>4. Document!Steady => Document!Steady'
    BY <1>2, <1>6, <2>2 DEF Document!Steady, Document!Spares, Document!Numbers, Document!Idle
  <2> QED
    BY <1>2, <1>3, <1>4, <2>2, <2>3, <2>4, Kept DEF Document!IInv, Document!Live
<1> QED
  BY <1>5, <1>6 DEF Document!expire_document

LEMMA DocumentStep == Document!IInv /\ [Document!Next]_docVars => Document!IInv'
PROOF
<1> SUFFICES ASSUME Document!IInv, [Document!Next]_docVars PROVE Document!IInv'
  OBVIOUS
<1>1. DOMAIN pruner = {"worker", "sweep"} /\ doc.version \in Nat
  BY DEF Document!IInv, Document!TypeOK, Document!DocumentRows
<1>2. CASE Document!Put
  BY <1>1, <1>2, PutKeeps DEF Document!Put, Document!api_document, Document!api_document_append,
     Document!do_append, Document!append_version, Document!append_to_document, Document!None
<1>3. ASSUME NEW s \in Sessions, Document!Load(s) PROVE Document!IInv'
  BY <1>3, WebLoadKeeps DEF Document!Load, Document!NewVersionView, Document!DocumentEditContentView,
     Document!RestoreVersionView, Document!api_document_revert, Document!restore_version
<1>4. ASSUME NEW s \in Sessions, Document!WebSave(s) PROVE Document!IInv'
  BY <1>4, WebSaveKeeps
<1>5. CASE Document!archive_document \/ Document!unarchive_document \/ Document!delete_document
           \/ Document!Age \/ Document!PruneTask
  BY <1>5, ArchiveKeeps, DeleteKeeps, AgeKeeps, PruneTaskKeeps
<1>6. ASSUME NEW p \in DOMAIN pruner, Document!PruneList(p) \/ Document!prune_versions(p)
      PROVE  Document!IInv'
  BY <1>1, <1>6, PruneListKeeps, prune_versionsKeeps
<1>7. CASE Document!run_sweep \/ Document!SweepPrune \/ Document!expire_document
  BY <1>7, run_sweepKeeps, SweepPruneKeeps, expire_documentKeeps
<1>8. CASE UNCHANGED docVars
  <2>1. doc \in Document!DocumentRows
    BY DEF Document!IInv, Document!TypeOK
  <2> QED
    BY <1>8, <2>1, RowKeeps DEF docVars
<1> QED
  BY <1>2, <1>3, <1>4, <1>5, <1>6, <1>7, <1>8 DEF Document!Next

LEMMA DocumentServed == Document!IInv => Document!ReadersServed
PROOF
<1> SUFFICES ASSUME Document!IInv, Document!Live, ~rewound PROVE Document!HeadKept /\ Document!AppendsKept
  BY DEF Document!ReadersServed, Document!HeadKept, Document!AppendsKept
<1>1. Document!Steady /\ Document!TypeOK
  BY DEF Document!IInv
<1>2. doc.head # 0
  BY <1>1 DEF Document!TypeOK, Document!Steady, Document!None
<1> QED
  BY <1>1, <1>2 DEF Document!Steady, Document!HeadKept, Document!AppendsKept, Document!read_head, Document!None

(***************************************************************************)
(* Users and tokens.                                                       *)
(***************************************************************************)
\* A token row is written only by create_token, which needs a fresh one, or without
\* setting its active flag.
Revocable(old, new) == \A t \in Tokens : old[t].row /\ ~old[t].active => ~new[t].active

\* Updates of a token's row.
LEMMA TokenUpdates ==
    ASSUME NEW k \in Accts!TokenRows
    PROVE  /\ [k EXCEPT !.active = FALSE] \in Accts!TokenRows /\ ~[k EXCEPT !.active = FALSE].active
           /\ [k EXCEPT !.row = FALSE, !.active = FALSE] \in Accts!TokenRows
           /\ ~[k EXCEPT !.row = FALSE, !.active = FALSE].active
           /\ \A b \in BOOLEAN : /\ [k EXCEPT !.expired = b] \in Accts!TokenRows
                                 /\ [k EXCEPT !.expired = b].active = k.active
BY DEF Accts!TokenRows

LEMMA UserUpdates ==
    ASSUME NEW x \in Accts!UserRows, NEW b \in BOOLEAN, NEW c \in BOOLEAN
    PROVE  /\ [x EXCEPT !.usable = b] \in Accts!UserRows
           /\ [x EXCEPT !.active = b] \in Accts!UserRows
           /\ [x EXCEPT !["staff"] = b] \in Accts!UserRows
           /\ [x EXCEPT !["active"] = b] \in Accts!UserRows
           /\ [x EXCEPT !.staff = b, !.active = c] \in Accts!UserRows
           /\ [Accts!NoUser EXCEPT !.born = TRUE] \in Accts!UserRows
           /\ [row |-> TRUE, born |-> TRUE, active |-> TRUE, staff |-> b, super |-> FALSE,
               usable |-> c] \in Accts!UserRows
BY DEF Accts!UserRows, Accts!NoUser

\* A step is typed when what it writes is.
LEMMA AccountsKeep ==
    ASSUME Accts!TypeOK, user' \in [People -> Accts!UserRows],
           apiToken' \in [Tokens -> Accts!TokenRows], NEW r \in Serving, NEW j \in Accts!Jobs,
           job' = [job EXCEPT ![r] = j]
    PROVE  Accts!TypeOK'
BY DEF Accts!TypeOK

\* Writes of token rows keep the type and revoke no revocation.
LEMMA CreateToken ==
    ASSUME Accts!TypeOK, NEW t \in Tokens, NEW u \in People, NEW type \in {"login", "manual"},
           NEW level \in Levels \cup {Accts!NoLevel}, Accts!create_token(t, u, type, level)
    PROVE  apiToken' \in [Tokens -> Accts!TokenRows] /\ Revocable(apiToken, apiToken')
PROOF
<1>1. PICK k \in Accts!TokenRows :
         k = [row |-> TRUE, owner |-> u, type |-> type, level |-> level, active |-> TRUE,
              expired |-> FALSE]
  BY DEF Accts!TokenRows
<1>2. ~apiToken[t].row /\ apiToken' = [apiToken EXCEPT ![t] = k]
  BY <1>1 DEF Accts!create_token, Accts!NoToken
<1> QED
  BY <1>2 DEF Accts!TypeOK, Revocable

LEMMA Revoke ==
    ASSUME Accts!TypeOK, NEW t \in Tokens, Accts!revoke(t)
    PROVE  apiToken' \in [Tokens -> Accts!TokenRows] /\ Revocable(apiToken, apiToken')
PROOF
<1>1. PICK k : k = [apiToken[t] EXCEPT !.active = FALSE]
  OBVIOUS
<1>2. k \in Accts!TokenRows /\ ~k.active
  BY <1>1, TokenUpdates DEF Accts!TypeOK
<1>3. apiToken' = [apiToken EXCEPT ![t] = k]
  BY <1>1 DEF Accts!revoke
<1> QED
  BY <1>2, <1>3 DEF Accts!TypeOK, Revocable

\* Expiry and rekeying.
LEMMA Renew ==
    ASSUME Accts!TypeOK, NEW t \in Tokens, NEW b \in BOOLEAN,
           apiToken' = [apiToken EXCEPT ![t].expired = b]
    PROVE  apiToken' \in [Tokens -> Accts!TokenRows] /\ Revocable(apiToken, apiToken')
PROOF
<1>1. PICK k : k = [apiToken[t] EXCEPT !.expired = b]
  OBVIOUS
<1>2. k \in Accts!TokenRows /\ k.active = apiToken[t].active
  BY <1>1, TokenUpdates DEF Accts!TypeOK
<1>3. apiToken' = [apiToken EXCEPT ![t] = k]
  BY <1>1
<1> QED
  BY <1>2, <1>3 DEF Accts!TypeOK, Revocable

LEMMA SameTokens ==
    ASSUME Accts!TypeOK, UNCHANGED apiToken
    PROVE  apiToken' \in [Tokens -> Accts!TokenRows] /\ Revocable(apiToken, apiToken')
BY DEF Accts!TypeOK, Revocable

\* The whole-table updates: a user's tokens are switched off, or go with the user.
LEMMA Switched ==
    ASSUME Accts!TypeOK, NEW new \in [Tokens -> Accts!TokenRows], apiToken' = new,
           \A t \in Tokens : new[t] = apiToken[t] \/ ~new[t].active
    PROVE  apiToken' \in [Tokens -> Accts!TokenRows] /\ Revocable(apiToken, apiToken')
BY DEF Accts!TypeOK, Revocable

\* Writes of user rows.
LEMMA UserRow ==
    ASSUME Accts!TypeOK, NEW u \in People, NEW x \in Accts!UserRows, user' = [user EXCEPT ![u] = x]
    PROVE  user' \in [People -> Accts!UserRows]
BY DEF Accts!TypeOK

LEMMA NewUser ==
    ASSUME Accts!TypeOK, NEW u \in People, NEW a \in BOOLEAN, NEW b \in BOOLEAN,
           Accts!NewUser(u, a, b)
    PROVE  user' \in [People -> Accts!UserRows]
PROOF
<1>1. user[u] \in Accts!UserRows
  BY DEF Accts!TypeOK
<1>2. PICK x : x = [row |-> TRUE, born |-> TRUE, active |-> TRUE, staff |-> a, super |-> FALSE,
                    usable |-> b]
  OBVIOUS
<1>3. x \in Accts!UserRows
  BY <1>1, <1>2, UserUpdates
<1> QED
  BY <1>2, <1>3, UserRow DEF Accts!NewUser

LEMMA AccountsInit == Accts!Init => Accts!TypeOK
PROOF
<1> SUFFICES ASSUME Accts!Init PROVE Accts!TypeOK
  OBVIOUS
<1>1. user \in [People -> Accts!UserRows]
  BY DEF Accts!Init, Accts!UserRows, Accts!NoUser
<1>2. ASSUME NEW t \in Tokens PROVE Accts!NoToken \in Accts!TokenRows
  <2>1. (CHOOSE u \in People : TRUE) \in People
    BY TokenSite
  <2> QED
    BY <2>1 DEF Accts!NoToken, Accts!TokenRows
<1>3. apiToken \in [Tokens -> Accts!TokenRows] /\ job \in [Serving -> Accts!Jobs]
  BY <1>2 DEF Accts!Init, Accts!Jobs
<1> QED
  BY <1>1, <1>3 DEF Accts!TypeOK

\* What a request has in memory.
LEMMA JobFields ==
    ASSUME Accts!TypeOK, NEW r \in Serving
    PROVE  /\ job[r].pc = "api" => job[r].t \in Tokens
           /\ job[r].pc = "web" => job[r].me \in People /\ job[r].was \in Accts!UserRows
           /\ job[r].pc = "login_new" => job[r].me \in People
           /\ job[r].pc = "rekey" => job[r].t \in Tokens
           /\ job[r].pc = "save" => job[r].u \in People /\ job[r].copy \in Accts!UserRows
           /\ job[r].pc \in {"delete", "sweep"} => job[r].u \in People
PROOF
<1>1. job[r] \in Accts!Jobs
  BY DEF Accts!TypeOK
<1> QED
  BY <1>1 DEF Accts!Jobs, Accts!AtRest

Sound == Accts!TypeOK' /\ Revocable(apiToken, apiToken')

\* A step that ends the request.
LEMMA Finishes ==
    ASSUME Accts!TypeOK, NEW r \in Serving, Accts!Done(r),
           user' \in [People -> Accts!UserRows], apiToken' \in [Tokens -> Accts!TokenRows],
           Revocable(apiToken, apiToken')
    PROVE  Sound
PROOF
<1>1. Accts!AtRest \in Accts!Jobs
  BY DEF Accts!Jobs
<1> QED
  BY <1>1, AccountsKeep DEF Accts!Done, Accts!Set, Sound

\* A step that only reads.
LEMMA Reads ==
    ASSUME Accts!TypeOK, NEW r \in Serving, NEW j \in Accts!Jobs, Accts!Set(r, j),
           UNCHANGED <<user, apiToken>>
    PROVE  Sound
BY SameTokens, AccountsKeep DEF Accts!Set, Sound, Accts!TypeOK

\* A step no request is part of.
LEMMA Outside ==
    ASSUME Accts!TypeOK, user' \in [People -> Accts!UserRows],
           apiToken' \in [Tokens -> Accts!TokenRows], Revocable(apiToken, apiToken'), UNCHANGED job
    PROVE  Sound
BY DEF Accts!TypeOK, Sound

LEMMA ReadingSteps ==
    ASSUME Accts!TypeOK, NEW r \in Serving,
           \/ \E t \in Tokens : Accts!Bearer(r, t)
           \/ \E u \in People : Accts!Session(r, u) \/ Accts!LoginRead(r, u) \/ Accts!AcceptLoad(r, u)
           \/ Accts!api_auth_token_refresh(r)
           \/ \E u \in People : Accts!UpdatePost(r, u) \/ Accts!DeletePost(r, u)
    PROVE  Sound
PROOF
<1>1. UNCHANGED <<user, apiToken>>
  BY DEF Accts!Bearer, Accts!Session, Accts!LoginRead, Accts!AcceptLoad,
     Accts!api_auth_token_refresh, Accts!UpdatePost, Accts!DeletePost
<1>2. /\ \A u \in People : user[u] \in Accts!UserRows
      /\ \A t \in Tokens : apiToken[t] \in Accts!TokenRows /\ apiToken[t].owner \in People
  BY DEF Accts!TypeOK, Accts!TokenRows
<1>3. ASSUME NEW t \in Tokens, Accts!Bearer(r, t) PROVE \E j \in Accts!Jobs : Accts!Set(r, j)
  BY <1>2, <1>3 DEF Accts!Bearer, Accts!Jobs
<1>4. ASSUME NEW u \in People, Accts!Session(r, u) PROVE \E j \in Accts!Jobs : Accts!Set(r, j)
  BY <1>2, <1>4 DEF Accts!Session, Accts!Jobs
<1>5. ASSUME NEW u \in People, Accts!LoginRead(r, u) PROVE \E j \in Accts!Jobs : Accts!Set(r, j)
  <2>1. [pc |-> "login_new", me |-> u] \in Accts!Jobs
    BY DEF Accts!Jobs
  <2>2. \A t \in Tokens : [pc |-> "rekey", t |-> t, copy |-> apiToken[t]] \in Accts!Jobs
    BY <1>2 DEF Accts!Jobs
  <2> QED
    BY <1>5, <2>1, <2>2 DEF Accts!LoginRead
<1>6. ASSUME NEW u \in People, Accts!AcceptLoad(r, u) PROVE \E j \in Accts!Jobs : Accts!Set(r, j)
  <2>1. [user[u] EXCEPT !.usable = TRUE] \in Accts!UserRows
    BY <1>2, UserUpdates
  <2> DEFINE x == [user[u] EXCEPT !.usable = TRUE]
  <2> HIDE DEF x
  <2>2. [pc |-> "save", u |-> u, copy |-> x] \in Accts!Jobs
    BY <2>1 DEF Accts!Jobs, x
  <2> QED
    BY <1>6, <2>2 DEF Accts!AcceptLoad, x
<1>7. ASSUME Accts!api_auth_token_refresh(r) PROVE \E j \in Accts!Jobs : Accts!Set(r, j)
  <2>1. job[r].t \in Tokens
    BY <1>7, JobFields DEF Accts!api_auth_token_refresh
  <2>2. [pc |-> "rekey", t |-> job[r].t, copy |-> apiToken[job[r].t]] \in Accts!Jobs
    BY <1>2, <2>1 DEF Accts!Jobs
  <2> QED
    BY <1>7, <2>2 DEF Accts!api_auth_token_refresh
<1>8. ASSUME NEW u \in People, Accts!UpdatePost(r, u) PROVE \E j \in Accts!Jobs : Accts!Set(r, j)
  <2>1. PICK staff \in BOOLEAN, active \in BOOLEAN :
           \/ Accts!Set(r, Accts!AtRest)
           \/ Accts!Set(r, [pc |-> "save", u |-> u,
                            copy |-> [user[u] EXCEPT !.staff = staff, !.active = active]])
    BY <1>8 DEF Accts!UpdatePost
  <2> DEFINE x == [user[u] EXCEPT !.staff = staff, !.active = active]
  <2>2. x \in Accts!UserRows
    BY <1>2, UserUpdates
  <2> HIDE DEF x
  <2>3. [pc |-> "save", u |-> u, copy |-> x] \in Accts!Jobs /\ Accts!AtRest \in Accts!Jobs
    BY <2>2 DEF Accts!Jobs
  <2> QED
    BY <2>1, <2>3 DEF x
<1>9. ASSUME NEW u \in People, Accts!DeletePost(r, u) PROVE \E j \in Accts!Jobs : Accts!Set(r, j)
  <2>1. [pc |-> "delete", u |-> u] \in Accts!Jobs /\ Accts!AtRest \in Accts!Jobs
    BY DEF Accts!Jobs
  <2> QED
    BY <1>9, <2>1 DEF Accts!DeletePost
<1> QED
  BY <1>1, <1>3, <1>4, <1>5, <1>6, <1>7, <1>8, <1>9, Reads

LEMMA TokenSteps ==
    ASSUME Accts!TypeOK, NEW r \in Serving,
           \/ Accts!Rekey(r) \/ Accts!api_auth_logout(r)
           \/ \E t \in Tokens : \/ Accts!LoginCreate(r, t) \/ Accts!TokenCreateView(r, t)
                                \/ Accts!TokenRevokeView(r, t)
    PROVE  Sound
PROOF
<1> DEFINE Good == apiToken' \in [Tokens -> Accts!TokenRows] /\ Revocable(apiToken, apiToken')
<1>1. /\ Accts!Done(r) /\ UNCHANGED user
  BY DEF Accts!Rekey, Accts!api_auth_logout, Accts!LoginCreate, Accts!TokenCreateView,
     Accts!TokenRevokeView
<1>2. ASSUME Accts!Rekey(r) PROVE Good
  <2>1. job[r].t \in Tokens
    BY <1>2, JobFields DEF Accts!Rekey
  <2>2. apiToken' = [apiToken EXCEPT ![job[r].t].expired = FALSE] \/ UNCHANGED apiToken
    BY <1>2 DEF Accts!Rekey
  <2> QED
    BY <2>1, <2>2, Renew, SameTokens
<1>3. ASSUME Accts!api_auth_logout(r) PROVE Good
  <2>1. job[r].t \in Tokens /\ Accts!revoke(job[r].t)
    BY <1>3, JobFields DEF Accts!api_auth_logout
  <2> QED
    BY <2>1, Revoke
<1>4. ASSUME NEW t \in Tokens, Accts!LoginCreate(r, t) PROVE Good
  <2>1. /\ job[r].me \in People
        /\ Accts!create_token(t, job[r].me, "login", Accts!NoLevel) \/ UNCHANGED apiToken
    BY <1>4, JobFields DEF Accts!LoginCreate
  <2> QED
    BY <2>1, CreateToken, SameTokens
<1>5. ASSUME NEW t \in Tokens, Accts!TokenCreateView(r, t) PROVE Good
  <2>1. PICK u \in People, level \in Levels : Accts!create_token(t, u, "manual", level)
    BY <1>5 DEF Accts!TokenCreateView
  <2> QED
    BY <2>1, CreateToken
<1>6. ASSUME NEW t \in Tokens, Accts!TokenRevokeView(r, t) PROVE Good
  <2>1. Accts!revoke(t) \/ UNCHANGED apiToken
    BY <1>6 DEF Accts!TokenRevokeView
  <2> QED
    BY <2>1, Revoke, SameTokens
<1>7. Good
  BY <1>2, <1>3, <1>4, <1>5, <1>6
<1>8. user' \in [People -> Accts!UserRows]
  BY <1>1 DEF Accts!TypeOK
<1> QED
  BY <1>1, <1>7, <1>8, Finishes

LEMMA UserSteps ==
    ASSUME Accts!TypeOK, NEW r \in Serving,
           \/ Accts!SaveInstance(r)
           \/ \E u \in People : \/ Accts!InviteUserView(r, u) \/ Accts!UserCreateForm(r, u)
                                \/ Accts!api_auth_user_password(r, u) \/ Accts!api_auth_user_detail(r, u)
                                \/ Accts!api_auth_user_deactivate(r, u)
    PROVE  Sound
PROOF
<1>1. UNCHANGED apiToken
  BY DEF Accts!SaveInstance, Accts!InviteUserView, Accts!UserCreateForm,
     Accts!api_auth_user_password, Accts!api_auth_user_detail, Accts!api_auth_user_deactivate
<1>2. ASSUME Accts!SaveInstance(r) PROVE Sound
  <2>1. /\ job[r].u \in People /\ job[r].copy \in Accts!UserRows
        /\ user' = [user EXCEPT ![job[r].u] = job[r].copy] /\ Accts!Done(r)
    BY <1>2, JobFields DEF Accts!SaveInstance
  <2>2. user' \in [People -> Accts!UserRows]
    BY <2>1, UserRow
  <2> QED
    BY <1>1, <2>1, <2>2, SameTokens, Finishes
<1>3. ASSUME NEW u \in People, Accts!InviteUserView(r, u) \/ Accts!UserCreateForm(r, u)
      PROVE  Sound
  <2>1. PICK staff \in BOOLEAN, usable \in BOOLEAN : Accts!NewUser(u, staff, usable) /\ Accts!Done(r)
    BY <1>3 DEF Accts!InviteUserView, Accts!UserCreateForm
  <2> QED
    BY <1>1, <2>1, NewUser, SameTokens, Finishes
<1>4. ASSUME NEW u \in People,
             \/ Accts!api_auth_user_password(r, u) \/ Accts!api_auth_user_detail(r, u)
             \/ Accts!api_auth_user_deactivate(r, u)
      PROVE  user' \in [People -> Accts!UserRows]
  <2>1. PICK x : /\ \/ x = [user[u] EXCEPT !.usable = TRUE]
                    \/ x = [user[u] EXCEPT !.active = FALSE]
                    \/ \E b \in BOOLEAN : x = [user[u] EXCEPT !["staff"] = b]
                    \/ \E b \in BOOLEAN : x = [user[u] EXCEPT !["active"] = b]
                 /\ user' = [user EXCEPT ![u] = x]
    BY <1>4 DEF Accts!api_auth_user_password, Accts!api_auth_user_detail,
       Accts!api_auth_user_deactivate
  <2>2. user[u] \in Accts!UserRows
    BY DEF Accts!TypeOK
  <2>3. \A b \in BOOLEAN : /\ [user[u] EXCEPT !.usable = b] \in Accts!UserRows
                           /\ [user[u] EXCEPT !.active = b] \in Accts!UserRows
                           /\ [user[u] EXCEPT !["staff"] = b] \in Accts!UserRows
                           /\ [user[u] EXCEPT !["active"] = b] \in Accts!UserRows
    BY <2>2, UserUpdates
  <2>4. x \in Accts!UserRows
    BY <2>1, <2>3
  <2> QED
    BY <2>1, <2>4, UserRow
<1>5. ASSUME NEW u \in People, Accts!api_auth_user_password(r, u) \/ Accts!api_auth_user_detail(r, u)
      PROVE  Sound
  <2>1. Accts!Done(r)
    BY <1>5 DEF Accts!api_auth_user_password, Accts!api_auth_user_detail
  <2> QED
    BY <1>1, <1>4, <1>5, <2>1, SameTokens, Finishes
<1>6. ASSUME NEW u \in People, Accts!api_auth_user_deactivate(r, u) PROVE Sound
  <2>1. [pc |-> "sweep", u |-> u] \in Accts!Jobs
    BY DEF Accts!Jobs
  <2>2. job' = [job EXCEPT ![r] = [pc |-> "sweep", u |-> u]]
    BY <1>6 DEF Accts!api_auth_user_deactivate, Accts!Set
  <2> QED
    BY <1>1, <1>4, <1>6, <2>1, <2>2, SameTokens, AccountsKeep DEF Sound
<1> QED
  BY <1>2, <1>3, <1>5, <1>6

\* Both tables: registration, a deleted user, a deactivated user's tokens.
LEMMA DeleteRowSound ==
    ASSUME Accts!TypeOK, NEW r \in Serving, Accts!DeleteRow(r) PROVE Sound
PROOF
<1>1. /\ job[r].u \in People /\ Accts!Done(r)
      /\ user' = [user EXCEPT ![job[r].u] = [Accts!NoUser EXCEPT !.born = TRUE]]
      /\ apiToken' = [t \in Tokens |-> IF apiToken[t].row /\ apiToken[t].owner = job[r].u
                                       THEN [apiToken[t] EXCEPT !.row = FALSE, !.active = FALSE]
                                       ELSE apiToken[t]]
  BY JobFields DEF Accts!DeleteRow
<1>2. PICK x \in Accts!UserRows : x = [Accts!NoUser EXCEPT !.born = TRUE]
  BY DEF Accts!NoUser, Accts!UserRows
<1>3. user' \in [People -> Accts!UserRows]
  BY <1>1, <1>2, UserRow
<1>4. \A t \in Tokens : apiToken'[t] \in Accts!TokenRows /\ (apiToken'[t] = apiToken[t] \/ ~apiToken'[t].active)
  <2> SUFFICES ASSUME NEW t \in Tokens
               PROVE  apiToken'[t] \in Accts!TokenRows
                      /\ (apiToken'[t] = apiToken[t] \/ ~apiToken'[t].active)
    OBVIOUS
  <2>1. apiToken[t] \in Accts!TokenRows
    BY DEF Accts!TypeOK
  <2>2. apiToken'[t] \in {apiToken[t], [apiToken[t] EXCEPT !.row = FALSE, !.active = FALSE]}
    BY <1>1
  <2>3. PICK k : k = [apiToken[t] EXCEPT !.row = FALSE, !.active = FALSE]
    OBVIOUS
  <2>4. k \in Accts!TokenRows /\ ~k.active
    BY <2>1, <2>3, TokenUpdates
  <2> QED
    BY <2>1, <2>2, <2>3, <2>4
<1>5. apiToken' \in [Tokens -> Accts!TokenRows]
  BY <1>1, <1>4
<1>6. PICK new \in [Tokens -> Accts!TokenRows] : apiToken' = new
  BY <1>5
<1> QED
  BY <1>1, <1>3, <1>4, <1>6, Switched, Finishes

LEMMA DeactivateTokensSound ==
    ASSUME Accts!TypeOK, NEW r \in Serving, Accts!DeactivateTokens(r) PROVE Sound
PROOF
<1>1. /\ Accts!Done(r) /\ user' = user
      /\ apiToken' = [t \in Tokens |-> IF apiToken[t].row /\ apiToken[t].owner = job[r].u
                                       THEN [apiToken[t] EXCEPT !.active = FALSE] ELSE apiToken[t]]
  BY DEF Accts!DeactivateTokens
<1>2. \A t \in Tokens : apiToken'[t] \in Accts!TokenRows /\ (apiToken'[t] = apiToken[t] \/ ~apiToken'[t].active)
  <2> SUFFICES ASSUME NEW t \in Tokens
               PROVE  apiToken'[t] \in Accts!TokenRows
                      /\ (apiToken'[t] = apiToken[t] \/ ~apiToken'[t].active)
    OBVIOUS
  <2>1. apiToken[t] \in Accts!TokenRows
    BY DEF Accts!TypeOK
  <2>2. apiToken'[t] \in {apiToken[t], [apiToken[t] EXCEPT !.active = FALSE]}
    BY <1>1
  <2>3. PICK k : k = [apiToken[t] EXCEPT !.active = FALSE]
    OBVIOUS
  <2>4. k \in Accts!TokenRows /\ ~k.active
    BY <2>1, <2>3, TokenUpdates
  <2> QED
    BY <2>1, <2>2, <2>3, <2>4
<1>3. apiToken' \in [Tokens -> Accts!TokenRows]
  BY <1>1, <1>2
<1>4. PICK new \in [Tokens -> Accts!TokenRows] : apiToken' = new
  BY <1>3
<1>5. user' \in [People -> Accts!UserRows]
  BY <1>1 DEF Accts!TypeOK
<1> QED
  BY <1>1, <1>2, <1>4, <1>5, Switched, Finishes

LEMMA AccountsStep == Accts!TypeOK /\ [Accts!Next]_acctVars => Sound
PROOF
<1> SUFFICES ASSUME Accts!TypeOK, [Accts!Next]_acctVars PROVE Sound
  OBVIOUS
<1>1. CASE Accts!PagesNext
  BY <1>1, ReadingSteps, UserSteps, DeleteRowSound DEF Accts!PagesNext
<1>2. ASSUME NEW r \in Serving, NEW u \in People, NEW t \in Tokens, Accts!api_auth_register(r, u, t)
      PROVE  Sound
  <2>1. /\ Accts!NewUser(u, FALSE, TRUE) /\ Accts!create_token(t, u, "login", Accts!NoLevel)
        /\ Accts!Done(r)
    BY <1>2 DEF Accts!api_auth_register
  <2> QED
    BY <2>1, NewUser, CreateToken, Finishes
<1>3. CASE Accts!SignInNext
  <2>1. PICK r \in Serving :
          \/ Accts!Rekey(r) \/ Accts!api_auth_token_refresh(r) \/ Accts!api_auth_logout(r)
          \/ Accts!DeactivateTokens(r)
          \/ \E u \in People :
                \/ Accts!LoginRead(r, u) \/ Accts!InviteUserView(r, u) \/ Accts!UserCreateForm(r, u)
                \/ Accts!AcceptLoad(r, u) \/ Accts!api_auth_user_password(r, u)
                \/ Accts!api_auth_user_deactivate(r, u) \/ Accts!api_auth_user_detail(r, u)
          \/ \E t \in Tokens :
                \/ Accts!Bearer(r, t) \/ Accts!LoginCreate(r, t) \/ Accts!TokenCreateView(r, t)
                \/ Accts!TokenRevokeView(r, t) \/ \E u \in People : Accts!api_auth_register(r, u, t)
    BY <1>3 DEF Accts!SignInNext
  <2> QED
    BY <1>2, <2>1, ReadingSteps, TokenSteps, UserSteps, DeactivateTokensSound
<1>4. ASSUME NEW u \in People, Accts!SignupView(u) PROVE Sound
  <2>1. Accts!NewUser(u, FALSE, TRUE) /\ UNCHANGED <<apiToken, job>>
    BY <1>4 DEF Accts!SignupView
  <2> QED
    BY <2>1, NewUser, SameTokens, Outside
<1>5. ASSUME NEW t \in Tokens, Accts!Expire(t) PROVE Sound
  <2>1. /\ apiToken' = [apiToken EXCEPT ![t].expired = TRUE] /\ UNCHANGED <<user, job>>
    BY <1>5 DEF Accts!Expire
  <2> QED
    BY <2>1, Renew, Outside DEF Accts!TypeOK
<1>6. ASSUME NEW t \in Tokens, Accts!create_api_token(t) PROVE Sound
  <2>1. UNCHANGED <<user, job>>
        /\ \E u \in People, level \in Levels : Accts!create_token(t, u, "manual", level)
    BY <1>6 DEF Accts!create_api_token
  <2> QED
    BY <2>1, CreateToken, Outside DEF Accts!TypeOK
<1>7. CASE UNCHANGED acctVars
  <2>1. UNCHANGED <<user, apiToken, job>>
    BY <1>7 DEF acctVars
  <2> QED
    BY <2>1, SameTokens, Outside DEF Accts!TypeOK
<1> QED
  BY <1>1, <1>3, <1>4, <1>5, <1>6, <1>7 DEF Accts!Next

\* The lists: what each shows, and what each card counts.
LEMMA TokenLists == Accts!TypeOK => Accts!TokenListsSound
PROOF
<1> SUFFICES ASSUME Accts!TypeOK, NEW u \in People
             PROVE  /\ \A t \in Accts!get_list_queryset(u, TRUE) \cup Accts!get_list_queryset(u, FALSE) :
                          Accts!check_object_permission(u, t)
                    /\ \A card \in {"total", "active", "revoked"} :
                          /\ \A t \in Accts!token_stat_detail(u, card) : Accts!check_object_permission(u, t)
                          /\ Accts!get_overview_stats(u)[card]
                                = Accts!Cardinality(Accts!token_stat_detail(u, card))
  BY DEF Accts!TokenListsSound
<1>1. \A t \in Accts!get_list_queryset(u, TRUE) \cup Accts!get_list_queryset(u, FALSE) :
         Accts!check_object_permission(u, t)
  BY DEF Accts!get_list_queryset, Accts!check_object_permission, Accts!is_owner_or_staff
<1>2. \A card \in {"total", "active", "revoked"} : \A t \in Accts!token_stat_detail(u, card) :
         Accts!check_object_permission(u, t)
  BY DEF Accts!token_stat_detail, Accts!check_object_permission, Accts!is_owner_or_staff
<1> DEFINE qs == IF user[u].staff THEN Accts!Rows ELSE {t \in Accts!Rows : apiToken[t].owner = u}
<1>3. /\ Accts!token_stat_detail(u, "total") = qs
      /\ Accts!token_stat_detail(u, "active") = {t \in qs : apiToken[t].active}
      /\ Accts!token_stat_detail(u, "revoked") = {t \in qs : ~apiToken[t].active}
  BY DEF Accts!token_stat_detail
<1>4. /\ Accts!get_overview_stats(u)["total"] = Accts!Cardinality(qs)
      /\ Accts!get_overview_stats(u)["active"] = Accts!Cardinality({t \in qs : apiToken[t].active})
      /\ Accts!get_overview_stats(u)["revoked"] = Accts!Cardinality({t \in qs : ~apiToken[t].active})
  BY DEF Accts!get_overview_stats
<1> HIDE DEF qs
<1>5. \A card \in {"total", "active", "revoked"} :
         Accts!get_overview_stats(u)[card] = Accts!Cardinality(Accts!token_stat_detail(u, card))
  BY <1>3, <1>4
<1> QED
  BY <1>1, <1>2, <1>5

(***************************************************************************)
(* Runbooks, sections and pages.                                           *)
(***************************************************************************)
\* Every page on record, under the next sections, lies in its section's runbook or in none.
Filed(ss, dd) ==
    /\ ss \in [Sects -> Books \cup {Access!Nil}] /\ dd \in [Docs -> Access!DocRows]
    /\ \A d \in Docs : dd[d].live /\ dd[d].sec # Access!Nil =>
          ss[dd[d].sec] # Access!Nil /\ dd[d].book \in {Access!Nil, ss[dd[d].sec]}

LEMMA AccessFiled == Access!IInv => Filed(secs, docs)
BY DEF Access!IInv, Access!TypeOK, Access!SectionInRunbook, Access!Live, Filed

LEMMA FiledAccess ==
    Filed(secs', docs')
    => secs' \in [Sects -> Books \cup {Access!Nil}] /\ docs' \in [Docs -> Access!DocRows]
       /\ Access!SectionInRunbook'
BY DEF Access!SectionInRunbook, Access!Live, Filed

Placed(r) == r.sec # Access!Nil => secs[r.sec] # Access!Nil /\ r.book \in {Access!Nil, secs[r.sec]}

\* One page is written, in its place.
LEMMA OnePage ==
    ASSUME Filed(secs, docs), UNCHANGED secs, NEW d \in Docs, NEW r \in Access!DocRows,
           docs' = [docs EXCEPT ![d] = r], r.live => Placed(r)
    PROVE  Filed(secs', docs')
BY DEF Filed, Placed

LEMMA AccessInit == Access!Init => Access!IInv
PROOF
<1> SUFFICES ASSUME Access!Init PROVE Access!IInv
  OBVIOUS
<1>1. books \in [Books -> [state : {"absent", "live", "closing"}, owner : Members \cup {u1, Access!Nil},
                           public : BOOLEAN, template : BOOLEAN]]
  BY DEF Access!Init, Access!NoBook, Access!Nil
<1>2. PICK r : r = [Access!NoDoc EXCEPT !.live = TRUE, !.book = b1, !.sec = s1, !.key = k1]
  OBVIOUS
<1>3. r \in Access!DocRows /\ r.book = b1 /\ r.sec = s1
  BY <1>2, SeededSite DEF Access!NoDoc, Access!DocRows, Access!Nil
<1>4. Access!NoDoc \in Access!DocRows /\ ~Access!NoDoc.live
  BY DEF Access!NoDoc, Access!DocRows
<1>5. /\ docs = [d \in Docs |-> IF d = d1 THEN r ELSE Access!NoDoc]
      /\ secs = [s \in Sects |-> IF s = s1 THEN b1 ELSE Access!Nil]
      /\ form = Access!NoForm /\ ops = 0 /\ by = Access!Nil
  BY <1>2 DEF Access!Init
<1>6. docs \in [Docs -> Access!DocRows] /\ secs \in [Sects -> Books \cup {Access!Nil}]
  BY <1>3, <1>4, <1>5, SeededSite
<1>7. Access!SectionInRunbook
  BY <1>3, <1>4, <1>5, SeededSite DEF Access!SectionInRunbook, Access!Live, Access!Nil
<1> QED
  BY <1>1, <1>5, <1>6, <1>7 DEF Access!IInv, Access!TypeOK

(* Operations on runbooks and sections.                                    *)
BookRows == [state : {"absent", "live", "closing"}, owner : Members \cup {u1, Access!Nil},
             public : BOOLEAN, template : BOOLEAN]
Shelf == [Books -> BookRows]

LEMMA SamePages == Filed(secs, docs) /\ UNCHANGED <<secs, docs>> => Filed(secs', docs')
BY DEF Filed

LEMMA BookUpdates ==
    ASSUME NEW r \in BookRows, NEW u \in Members, NEW x \in BOOLEAN, NEW y \in BOOLEAN
    PROVE  /\ [state |-> "live", owner |-> u, public |-> x, template |-> y] \in BookRows
           /\ [r EXCEPT !.public = x] \in BookRows
           /\ [r EXCEPT !.state = "closing"] \in BookRows
           /\ Access!NoBook \in BookRows
BY DEF BookRows, Access!NoBook, Access!Nil

LEMMA ShelfUpdates ==
    ASSUME books \in Shelf, NEW b \in Books, NEW r,
           \/ \E u \in Members, x, y \in BOOLEAN :
                 r = [state |-> "live", owner |-> u, public |-> x, template |-> y]
           \/ \E x \in BOOLEAN : r = [books[b] EXCEPT !.public = x]
           \/ r = [books[b] EXCEPT !.state = "closing"]
           \/ r = Access!NoBook,
           books' = [books EXCEPT ![b] = r]
    PROVE  books' \in Shelf
PROOF
<1>1. books[b] \in BookRows
  BY DEF Shelf
<1>2. r \in BookRows
  <2>1. CASE \E u \in Members, x, y \in BOOLEAN :
                 r = [state |-> "live", owner |-> u, public |-> x, template |-> y]
    BY <1>1, <2>1, BookUpdates
  <2>2. CASE \E x \in BOOLEAN : r = [books[b] EXCEPT !.public = x]
    BY <1>1, <2>2 DEF BookRows
  <2>3. CASE r = [books[b] EXCEPT !.state = "closing"]
    BY <1>1, <2>3 DEF BookRows
  <2>4. CASE r = Access!NoBook
    BY <2>4 DEF BookRows, Access!NoBook
  <2> QED
    BY <2>1, <2>2, <2>3, <2>4
<1> QED
  BY <1>2 DEF Shelf

LEMMA DropBook ==
    ASSUME Filed(secs, docs), NEW b \in Books, Access!RunbookDrop(b)
    PROVE  Filed(secs', docs')
PROOF
<1> DEFINE Book(r) == IF r.book = b THEN Access!Nil ELSE r.book
           Sec(r) == IF r.sec # Access!Nil /\ secs[r.sec] = b THEN Access!Nil ELSE r.sec
<1>1. /\ secs' = [s \in Sects |-> IF secs[s] = b THEN Access!Nil ELSE secs[s]]
      /\ docs' = [d \in Docs |-> [docs[d] EXCEPT !.book = Book(docs[d]), !.sec = Sec(docs[d])]]
  BY DEF Access!RunbookDrop
<1>2. b # Access!Nil /\ Access!Nil \notin Sects
  BY SeededSite DEF Access!Nil
<1>3. ASSUME NEW d \in Docs
      PROVE  /\ docs'[d] \in Access!DocRows
             /\ docs'[d].live /\ docs'[d].sec # Access!Nil =>
                  secs'[docs'[d].sec] # Access!Nil /\ docs'[d].book \in {Access!Nil, secs'[docs'[d].sec]}
  <2>1. docs[d] \in Access!DocRows
    BY DEF Filed
  <2>2. Book(docs[d]) \in Books \cup {Access!Nil} /\ Sec(docs[d]) \in Sects \cup {Access!Nil}
    BY <2>1 DEF Access!DocRows
  <2>3. PICK c \in Books \cup {Access!Nil}, s \in Sects \cup {Access!Nil} :
           c = Book(docs[d]) /\ s = Sec(docs[d])
    BY <2>2
  <2>4. docs'[d] = [docs[d] EXCEPT !.book = c, !.sec = s]
    BY <1>1, <2>3
  <2>5. /\ docs'[d] \in Access!DocRows /\ docs'[d].live = docs[d].live
        /\ docs'[d].book = c /\ docs'[d].sec = s
    BY <2>1, <2>4 DEF Access!DocRows
  <2>6. ASSUME docs[d].live, s # Access!Nil
        PROVE  secs'[s] # Access!Nil /\ c \in {Access!Nil, secs'[s]}
    <3>1. s = docs[d].sec /\ s \in Sects /\ secs[s] # b
      BY <2>3, <2>6
    <3>2. secs[s] # Access!Nil /\ docs[d].book \in {Access!Nil, secs[s]}
      BY <2>6, <3>1 DEF Filed
    <3> QED
      BY <1>1, <2>3, <3>1, <3>2
  <2> QED
    BY <2>5, <2>6
<1>4. secs' \in [Sects -> Books \cup {Access!Nil}]
  BY <1>1 DEF Filed
<1>5. docs' \in [Docs -> Access!DocRows]
  BY <1>1, <1>3
<1> QED
  BY <1>3, <1>4, <1>5 DEF Filed

Forms == {Access!NoForm} \cup [user : Members, doc : Docs, copy : Access!DocRows]
Tidy == books \in Shelf /\ Filed(secs, docs) /\ form \in Forms

LEMMA TidyAccess ==
    /\ Access!IInv <=> Tidy /\ ops \in Nat /\ by \in Members \cup {Access!Nil}
    /\ Tidy' /\ ops' \in Nat /\ by' \in Members \cup {Access!Nil} => Access!IInv'
BY DEF Access!IInv, Access!TypeOK, Access!SectionInRunbook, Access!Live, Tidy, Filed, Forms, Shelf,
       BookRows

LEMMA BookSteps ==
    ASSUME Tidy, NEW u \in Members, NEW b \in Books, NEW x \in BOOLEAN,
           \/ Access!create_runbook(u, b, x) \/ Access!set_runbook_public(u, b, x)
           \/ Access!RunbookPublishToggleView(u, b)
    PROVE  Tidy'
PROOF
<1>1. UNCHANGED <<secs, docs, form>>
  BY DEF Access!create_runbook, Access!set_runbook_public, Access!RunbookPublishToggleView
<1>2. books[b] \in BookRows
  BY DEF Tidy, Shelf
<1>3. PICK r : /\ books' = [books EXCEPT ![b] = r]
               /\ \/ r = [state |-> "live", owner |-> u, public |-> x, template |-> FALSE]
                  \/ \E y \in BOOLEAN : r = [books[b] EXCEPT !.public = y]
  <2>1. (~books[b].public) \in BOOLEAN
    OBVIOUS
  <2> QED
    BY <2>1 DEF Access!create_runbook, Access!set_runbook_public, Access!RunbookPublishToggleView
<1>4. books' \in Shelf
  BY <1>3, ShelfUpdates DEF Tidy
<1> QED
  BY <1>1, <1>4, SamePages DEF Tidy

LEMMA DeleteBook ==
    ASSUME Tidy, NEW u \in Members, NEW b \in Books, NEW mode, Access!RunbookDeleteView(u, b, mode)
    PROVE  Tidy'
PROOF
<1>1. /\ UNCHANGED <<secs, form>> /\ books' = [books EXCEPT ![b].state = "closing"]
      /\ docs' = [d \in Docs |-> IF ~docs[d].live \/ docs[d].book # b THEN docs[d]
                                 ELSE IF mode = "cascade" THEN Access!NoDoc
                                 ELSE [docs[d] EXCEPT !.key = Access!Nil]]
  BY DEF Access!RunbookDeleteView
<1>2. books' \in Shelf
  <2>1. PICK r : r = [books[b] EXCEPT !.state = "closing"]
    OBVIOUS
  <2>2. books' = [books EXCEPT ![b] = r]
    BY <1>1, <2>1
  <2> QED
    BY <2>1, <2>2, ShelfUpdates DEF Tidy
<1>3. Access!NoDoc \in Access!DocRows /\ ~Access!NoDoc.live
  BY DEF Access!NoDoc, Access!DocRows
<1>4. ASSUME NEW d \in Docs
      PROVE  docs'[d] \in Access!DocRows /\ (docs'[d].live => docs'[d].sec = docs[d].sec
                 /\ docs'[d].book = docs[d].book /\ docs[d].live)
  <2>1. docs[d] \in Access!DocRows
    BY DEF Tidy, Filed
  <2>2. docs'[d] \in {docs[d], Access!NoDoc, [docs[d] EXCEPT !.key = Access!Nil]}
    BY <1>1
  <2>3. PICK r : r = [docs[d] EXCEPT !.key = Access!Nil]
    OBVIOUS
  <2>4. r \in Access!DocRows /\ r.sec = docs[d].sec /\ r.book = docs[d].book /\ r.live = docs[d].live
    BY <2>1, <2>3 DEF Access!DocRows
  <2> QED
    BY <1>3, <2>1, <2>2, <2>3, <2>4
<1>5. docs' \in [Docs -> Access!DocRows]
  BY <1>1, <1>4
<1>6. Filed(secs', docs')
  BY <1>1, <1>4, <1>5 DEF Tidy, Filed
<1> QED
  BY <1>1, <1>2, <1>6 DEF Tidy

LEMMA DropStep == ASSUME Tidy, NEW b \in Books, Access!RunbookDrop(b) PROVE Tidy'
PROOF
<1>1. books' = [books EXCEPT ![b] = Access!NoBook] /\ UNCHANGED form
  BY DEF Access!RunbookDrop
<1>2. books' \in Shelf
  BY <1>1, ShelfUpdates DEF Tidy
<1> QED
  BY <1>1, <1>2, DropBook DEF Tidy

LEMMA SectionSteps ==
    ASSUME Tidy, NEW u \in Members, NEW b \in Books, NEW s \in Sects,
           Access!create_section(u, b, s) \/ Access!SectionDeleteView(u, s)
    PROVE  Tidy'
PROOF
<1>0. Access!Nil \notin Books /\ Access!Nil \notin Sects
  BY SeededSite DEF Access!Nil
<1>1. CASE Access!create_section(u, b, s)
  <2>1. secs[s] = Access!Nil /\ secs' = [secs EXCEPT ![s] = b] /\ UNCHANGED <<books, docs, form>>
    BY <1>1 DEF Access!create_section
  <2>2. Filed(secs', docs')
    BY <1>0, <2>1 DEF Tidy, Filed, Access!DocRows
  <2> QED
    BY <2>1, <2>2 DEF Tidy
<1>2. CASE Access!SectionDeleteView(u, s)
  <2>1. /\ secs' = [secs EXCEPT ![s] = Access!Nil] /\ UNCHANGED <<books, form>>
        /\ docs' = [d \in Docs |-> [docs[d] EXCEPT !.sec = IF docs[d].sec = s THEN Access!Nil
                                                           ELSE docs[d].sec]]
    BY <1>2 DEF Access!SectionDeleteView
  <2>2. ASSUME NEW d \in Docs
        PROVE  /\ docs'[d] \in Access!DocRows /\ docs'[d].live = docs[d].live
               /\ docs'[d].book = docs[d].book
               /\ docs'[d].sec = IF docs[d].sec = s THEN Access!Nil ELSE docs[d].sec
    <3>1. docs[d] \in Access!DocRows
      BY DEF Tidy, Filed
    <3>2. PICK t \in Sects \cup {Access!Nil} : t = IF docs[d].sec = s THEN Access!Nil ELSE docs[d].sec
      BY <3>1 DEF Access!DocRows
    <3>3. docs'[d] = [docs[d] EXCEPT !.sec = t]
      BY <2>1, <3>2
    <3> QED
      BY <3>1, <3>2, <3>3 DEF Access!DocRows
  <2>3. docs' \in [Docs -> Access!DocRows] /\ secs' \in [Sects -> Books \cup {Access!Nil}]
    BY <2>1, <2>2 DEF Tidy, Filed
  <2>4. Filed(secs', docs')
    BY <1>0, <2>1, <2>2, <2>3 DEF Tidy, Filed, Access!DocRows
  <2> QED
    BY <2>1, <2>4 DEF Tidy
<1> QED
  BY <1>1, <1>2

(* Operations on pages.                                                    *)
LEMMA PageStep ==
    ASSUME Tidy, NEW d \in Docs, NEW r \in Access!DocRows, Access!SetDoc(d, r),
           UNCHANGED <<books, secs, form>>, r.live => Placed(r)
    PROVE  Tidy'
BY OnePage DEF Tidy, Access!SetDoc

LEMMA CreateStep ==
    ASSUME Tidy, NEW u, NEW d \in Docs, NEW b \in Books, NEW s \in Sects \cup {Access!Nil},
           NEW k \in Keys \cup {Access!Nil}, Access!create_document(u, d, b, s, k)
    PROVE  Tidy'
PROOF
<1>1. PICK r : r = [Access!NoDoc EXCEPT !.live = TRUE, !.book = b, !.sec = s, !.key = k]
  OBVIOUS
<1>2. r \in Access!DocRows /\ r.book = b /\ r.sec = s
  BY <1>1 DEF Access!NoDoc, Access!DocRows
<1>3. Placed(r)
  BY <1>2, SeededSite DEF Access!create_document, Access!resolve_section, Placed, Access!Nil
<1> QED
  BY <1>1, <1>2, <1>3, PageStep DEF Access!create_document

LEMMA PutStep ==
    ASSUME Tidy, NEW u, NEW d \in Docs, NEW s \in Sects \cup {Access!Nil},
           NEW l \in {Access!Nil, "yes", "no"}, Access!put_document(u, d, s, l)
    PROVE  Tidy'
PROOF
<1>1. docs[d] \in Access!DocRows /\ docs[d].live /\ docs[d].book # Access!Nil
  BY DEF Tidy, Filed, Access!put_document
<1>2. PICK t \in Sects \cup {Access!Nil}, x \in BOOLEAN :
         /\ t = (IF s = Access!Nil THEN docs[d].sec ELSE s)
         /\ x = (IF l = Access!Nil THEN docs[d].locked ELSE l = "yes")
  BY <1>1 DEF Access!DocRows
<1>3. PICK r : r = [docs[d] EXCEPT !.sec = t, !.locked = x]
  OBVIOUS
<1>4. r \in Access!DocRows /\ r.book = docs[d].book /\ r.sec = t
  BY <1>1, <1>3 DEF Access!DocRows
<1>5. Placed(r)
  BY <1>1, <1>2, <1>4, SeededSite DEF Access!put_document, Access!resolve_section, Placed, Tidy, Filed,
     Access!DocRows
<1>6. Access!SetDoc(d, r) /\ UNCHANGED <<books, secs, form>>
  BY <1>2, <1>3 DEF Access!put_document, Access!SetDoc
<1> QED
  BY <1>4, <1>5, <1>6, PageStep

LEMMA MoveStep ==
    ASSUME Tidy, NEW u, NEW d \in Docs, NEW b \in Books \cup {Access!Nil},
           NEW s \in Sects \cup {Access!Nil}, Access!move_document(u, d, b, s)
    PROVE  Tidy'
PROOF
<1>1. docs[d] \in Access!DocRows
  BY DEF Tidy, Filed
<1>2. UNCHANGED <<books, secs, form>>
  BY DEF Access!move_document
<1>3. CASE Access!SetDoc(d, [docs[d] EXCEPT !.book = Access!Nil, !.sec = Access!Nil, !.key = Access!Nil])
  <2>1. PICK r : r = [docs[d] EXCEPT !.book = Access!Nil, !.sec = Access!Nil, !.key = Access!Nil]
    OBVIOUS
  <2>2. r \in Access!DocRows /\ r.sec = Access!Nil
    BY <1>1, <2>1 DEF Access!DocRows
  <2>3. Placed(r)
    BY <2>2 DEF Placed
  <2> QED
    BY <1>2, <1>3, <2>1, <2>2, <2>3, PageStep
<1>4. CASE /\ b # Access!Nil /\ Access!resolve_section(b, s)
           /\ Access!SetDoc(d, [docs[d] EXCEPT !.book = b, !.sec = s])
  <2>1. PICK r : r = [docs[d] EXCEPT !.book = b, !.sec = s]
    OBVIOUS
  <2>2. r \in Access!DocRows /\ r.book = b /\ r.sec = s
    BY <1>1, <2>1 DEF Access!DocRows
  <2>3. Placed(r)
    BY <1>4, <2>2 DEF Placed, Access!resolve_section
  <2> QED
    BY <1>2, <1>4, <2>1, <2>2, <2>3, PageStep
<1> QED
  BY <1>3, <1>4 DEF Access!move_document, Access!Exists

\* Archiving, templates, locks and deletion.
LEMMA FlagStep ==
    ASSUME Tidy, NEW u, NEW d \in Docs, NEW x \in BOOLEAN,
           \/ Access!set_archived(u, d, x) \/ Access!delete_document(u, d)
           \/ Access!DocumentDeleteView(u, d) \/ Access!DocumentMakeTemplateView(u, d)
           \/ Access!DocumentLockView(u, d)
    PROVE  Tidy'
PROOF
<1>1. docs[d] \in Access!DocRows /\ docs[d].live
  BY DEF Tidy, Filed, Access!set_archived, Access!delete_document, Access!DocumentDeleteView,
     Access!DocumentMakeTemplateView, Access!DocumentLockView
<1>2. UNCHANGED <<books, secs, form>>
  BY DEF Access!set_archived, Access!delete_document, Access!DocumentDeleteView,
     Access!DocumentMakeTemplateView, Access!DocumentLockView
<1>3. PICK r : /\ Access!SetDoc(d, r)
               /\ \/ r = [docs[d] EXCEPT !.archived = x]
                  \/ r = Access!NoDoc
                  \/ r = [docs[d] EXCEPT !.template = ~docs[d].template]
                  \/ r = [docs[d] EXCEPT !.locked = ~docs[d].locked]
  BY DEF Access!set_archived, Access!delete_document, Access!DocumentDeleteView,
     Access!DocumentMakeTemplateView, Access!DocumentLockView, Access!SetDoc
<1>4. CASE r = Access!NoDoc
  <2>1. r \in Access!DocRows /\ ~r.live
    BY <1>4 DEF Access!NoDoc, Access!DocRows
  <2> QED
    BY <1>2, <1>3, <2>1, PageStep
<1>5. CASE r # Access!NoDoc
  <2>1. r \in Access!DocRows /\ r.sec = docs[d].sec /\ r.book = docs[d].book
    BY <1>1, <1>3, <1>5 DEF Access!DocRows
  <2>2. Placed(r)
    BY <1>1, <2>1 DEF Tidy, Filed, Placed
  <2> QED
    BY <1>2, <1>3, <2>1, <2>2, PageStep
<1> QED
  BY <1>4, <1>5

\* The edit form.
LEMMA FormStep ==
    ASSUME Tidy, NEW u \in Members, NEW d \in Docs, Access!DocumentUpdateView(u, d) PROVE Tidy'
PROOF
<1>1. /\ form' = [user |-> u, doc |-> d, copy |-> docs[d]] /\ UNCHANGED <<books, secs, docs>>
      /\ docs[d] \in Access!DocRows
  BY DEF Access!DocumentUpdateView, Tidy, Filed
<1>2. form' \in Forms
  BY <1>1 DEF Forms
<1> QED
  BY <1>1, <1>2, SamePages DEF Tidy

LEMMA SaveStep == ASSUME Tidy, Access!UpdateSave PROVE Tidy' /\ by' \in Members
PROOF
<1>1. /\ form.user \in Members /\ form.doc \in Docs /\ form.copy \in Access!DocRows
      /\ form' = Access!NoForm /\ by' = form.user /\ UNCHANGED <<books, secs>>
  BY DEF Access!UpdateSave, Tidy, Forms
<1>2. form' \in Forms
  BY <1>1 DEF Forms
<1>3. CASE UNCHANGED docs
  BY <1>1, <1>2, <1>3, SamePages DEF Tidy
<1>4. CASE \E s \in Access!DocumentForm(form.copy) :
              Access!SetDoc(form.doc, [form.copy EXCEPT !.sec = s])
  <2>1. PICK s \in Access!DocumentForm(form.copy) :
              Access!SetDoc(form.doc, [form.copy EXCEPT !.sec = s])
    BY <1>4
  <2>2. PICK r : r = [form.copy EXCEPT !.sec = s]
    OBVIOUS
  <2>3. s \in Sects \cup {Access!Nil}
    BY <2>1 DEF Access!DocumentForm
  <2>4. r \in Access!DocRows /\ r.book = form.copy.book /\ r.sec = s
    BY <1>1, <2>2, <2>3 DEF Access!DocRows
  <2>5. Placed(r)
    BY <2>1, <2>4 DEF Placed, Access!DocumentForm, Access!runbook_of
  <2>6. docs' = [docs EXCEPT ![form.doc] = r]
    BY <2>1, <2>2 DEF Access!SetDoc
  <2> QED
    BY <1>1, <1>2, <2>4, <2>5, <2>6, OnePage DEF Tidy
<1> QED
  BY <1>1, <1>3, <1>4 DEF Access!UpdateSave

\* Clones and bundle imports.
LEMMA CloneStep ==
    ASSUME Tidy, NEW u \in Members, NEW b \in Books, NEW c \in Books, NEW x \in BOOLEAN,
           Access!clone_runbook(u, b, c, x)
    PROVE  Tidy'
PROOF
<1>0. c # Access!Nil /\ Access!Nil \notin Sects
  BY SeededSite DEF Access!Nil
<1>1. books' \in Shelf /\ UNCHANGED form
  <2>1. PICK r : r = [state |-> "live", owner |-> u, public |-> FALSE, template |-> x]
    OBVIOUS
  <2>2. books' = [books EXCEPT ![c] = r] /\ UNCHANGED form
    BY <2>1 DEF Access!clone_runbook
  <2> QED
    BY <2>1, <2>2, ShelfUpdates DEF Tidy
<1>2. CASE UNCHANGED <<secs, docs>>
  BY <1>1, <1>2, SamePages DEF Tidy
<1>3. CASE \E d \in Access!current_docs, e \in Docs \ Access!Live :
              LET copySec == docs[d].sec # Access!Nil /\ \E s \in Sects : secs[s] = Access!Nil
                  new     == IF copySec THEN CHOOSE s \in Sects : secs[s] = Access!Nil ELSE Access!Nil
              IN  /\ secs' = IF copySec THEN [secs EXCEPT ![new] = c] ELSE secs
                  /\ Access!SetDoc(e, [docs[d] EXCEPT !.book = c, !.sec = new,
                                                      !.locked = FALSE, !.template = FALSE])
  <2>1. PICK d \in Docs, e \in Docs, n \in Sects \cup {Access!Nil} :
          /\ n = Access!Nil \/ secs[n] = Access!Nil
          /\ secs' = IF n # Access!Nil THEN [secs EXCEPT ![n] = c] ELSE secs
          /\ docs' = [docs EXCEPT ![e] = [docs[d] EXCEPT !.book = c, !.sec = n,
                                                         !.locked = FALSE, !.template = FALSE]]
    <3>1. PICK d \in Access!current_docs, e \in Docs \ Access!Live :
              LET copySec == docs[d].sec # Access!Nil /\ \E s \in Sects : secs[s] = Access!Nil
                  new     == IF copySec THEN CHOOSE s \in Sects : secs[s] = Access!Nil ELSE Access!Nil
              IN  /\ secs' = IF copySec THEN [secs EXCEPT ![new] = c] ELSE secs
                  /\ Access!SetDoc(e, [docs[d] EXCEPT !.book = c, !.sec = new,
                                                      !.locked = FALSE, !.template = FALSE])
      BY <1>3
    <3>2. d \in Docs /\ e \in Docs
      BY DEF Access!current_docs, Access!Live
    <3>3. CASE docs[d].sec # Access!Nil /\ \E s \in Sects : secs[s] = Access!Nil
      <4>1. PICK n \in Sects : n = (CHOOSE s \in Sects : secs[s] = Access!Nil) /\ secs[n] = Access!Nil
        BY <3>3
      <4> QED
        BY <1>0, <3>1, <3>2, <3>3, <4>1 DEF Access!SetDoc
    <3>4. CASE ~(docs[d].sec # Access!Nil /\ \E s \in Sects : secs[s] = Access!Nil)
      BY <3>1, <3>2, <3>4 DEF Access!SetDoc
    <3> QED
      BY <3>3, <3>4
  <2>2. docs[d] \in Access!DocRows
    BY DEF Tidy, Filed
  <2>3. PICK r : r = [docs[d] EXCEPT !.book = c, !.sec = n, !.locked = FALSE, !.template = FALSE]
    OBVIOUS
  <2>4. r \in Access!DocRows /\ r.book = c /\ r.sec = n
    BY <2>2, <2>3 DEF Access!DocRows
  <2>5. docs' = [docs EXCEPT ![e] = r]
    BY <2>1, <2>3
  <2>6. /\ secs' \in [Sects -> Books \cup {Access!Nil}]
        /\ n # Access!Nil => secs'[n] = c
        /\ \A s \in Sects : secs[s] # Access!Nil => secs'[s] = secs[s]
    BY <2>1 DEF Tidy, Filed
  <2>7. docs' \in [Docs -> Access!DocRows] /\ docs'[e] = r /\ \A q \in Docs \ {e} : docs'[q] = docs[q]
    BY <2>4, <2>5 DEF Tidy, Filed
  <2>8. \A q \in Docs : docs[q].live /\ docs[q].sec # Access!Nil =>
            docs[q].sec \in Sects /\ secs[docs[q].sec] # Access!Nil
            /\ docs[q].book \in {Access!Nil, secs[docs[q].sec]}
    BY DEF Tidy, Filed, Access!DocRows
  <2>9. Filed(secs', docs')
    <3>1. ASSUME NEW q \in Docs, docs'[q].live, docs'[q].sec # Access!Nil
          PROVE  /\ secs'[docs'[q].sec] # Access!Nil
                 /\ docs'[q].book \in {Access!Nil, secs'[docs'[q].sec]}
      <4>1. CASE q = e
        BY <1>0, <2>4, <2>6, <2>7, <3>1, <4>1
      <4>2. CASE q # e
        <5>1. docs'[q] = docs[q]
          BY <2>7, <4>2
        <5> QED
          BY <2>6, <2>8, <3>1, <5>1
      <4> QED
        BY <4>1, <4>2
    <3> QED
      BY <2>6, <2>7, <3>1 DEF Filed
  <2> QED
    BY <1>1, <2>9 DEF Tidy
<1> QED
  BY <1>2, <1>3 DEF Access!clone_runbook

LEMMA ImportStep ==
    ASSUME Tidy, NEW b \in Books, NEW d \in Docs, NEW s \in Sects \cup {Access!Nil},
           NEW x \in BOOLEAN, Access!import_bundle(b, d, s, x)
    PROVE  Tidy'
PROOF
<1> DEFINE found == {e \in Access!Live : docs[e].book = b /\ docs[e].key = k1}
           put == [Access!NoDoc EXCEPT !.live = TRUE, !.book = b, !.sec = s, !.key = k1,
                                       !.locked = TRUE, !.managed = TRUE]
           took == [docs[d] EXCEPT !.sec = s, !.locked = TRUE, !.managed = TRUE]
<1>0. b # Access!Nil /\ Access!Nil \notin Sects /\ k1 \in Keys
  BY SeededSite DEF Access!Nil
<1>1. /\ Access!resolve_section(b, s) /\ UNCHANGED <<books, secs, form>>
      /\ found # {} => docs[d].book = b
      /\ docs' = [e \in Docs |->
              IF e = d THEN IF found = {} THEN put ELSE took
              ELSE IF x /\ docs[e].live /\ docs[e].book = b /\ docs[e].managed
                   THEN [docs[e] EXCEPT !.archived = TRUE] ELSE docs[e]]
  BY DEF Access!import_bundle
<1>2. put \in Access!DocRows /\ put.book = b /\ put.sec = s
  BY <1>0 DEF Access!NoDoc, Access!DocRows
<1>3. docs[d] \in Access!DocRows
  BY DEF Tidy, Filed
<1>4. took \in Access!DocRows /\ took.book = docs[d].book /\ took.sec = s
  BY <1>3 DEF Access!DocRows
<1> HIDE DEF put, took, found
<1>5. docs'[d] \in Access!DocRows /\ docs'[d].book = b /\ docs'[d].sec = s
  BY <1>1, <1>2, <1>4
<1>6. ASSUME NEW e \in Docs \ {d}
      PROVE  /\ docs'[e] \in Access!DocRows /\ docs'[e].live = docs[e].live
             /\ docs'[e].sec = docs[e].sec /\ docs'[e].book = docs[e].book
  <2>1. docs[e] \in Access!DocRows
    BY DEF Tidy, Filed
  <2>2. docs'[e] \in {docs[e], [docs[e] EXCEPT !.archived = TRUE]}
    BY <1>1
  <2>3. PICK r : r = [docs[e] EXCEPT !.archived = TRUE]
    OBVIOUS
  <2>4. r \in Access!DocRows /\ r.live = docs[e].live /\ r.sec = docs[e].sec /\ r.book = docs[e].book
    BY <2>1, <2>3 DEF Access!DocRows
  <2> QED
    BY <2>1, <2>2, <2>3, <2>4
<1>7. docs' \in [Docs -> Access!DocRows]
  BY <1>1, <1>5, <1>6
<1>8. Filed(secs', docs')
  BY <1>0, <1>1, <1>5, <1>6, <1>7 DEF Tidy, Filed, Access!resolve_section
<1> QED
  BY <1>1, <1>8 DEF Tidy

LEMMA AccessStep == Access!IInv /\ [Access!Next]_accessVars => Access!IInv'
PROOF
<1> SUFFICES ASSUME Access!IInv, [Access!Next]_accessVars PROVE Access!IInv'
  OBVIOUS
<1>1. Tidy /\ ops \in Nat /\ by \in Members \cup {Access!Nil}
  BY TidyAccess
<1>2. ASSUME NEW u \in Members, Access!RunbookOps(u) PROVE Tidy'
  <2>1. CASE \E b \in Books, p \in BOOLEAN :
                \/ Access!RunbookCreateView(u, b, p) \/ Access!api_runbooks(u, b, p)
                \/ Access!set_runbook_visibility(u, b, p) \/ Access!RunbookPublishToggleView(u, b)
    BY <1>1, <2>1, BookSteps
       DEF Access!RunbookCreateView, Access!api_runbooks, Access!set_runbook_visibility
  <2>2. CASE \E b \in Books, m \in {"cascade", "detach"} : Access!RunbookDeleteView(u, b, m)
    BY <1>1, <2>2, DeleteBook
  <2>3. CASE \E b, c \in Books : Access!RunbookMakeTemplateView(u, b, c)
                              \/ Access!RunbookFromTemplateView(u, b, c)
    BY <1>1, <2>3, CloneStep DEF Access!RunbookMakeTemplateView, Access!RunbookFromTemplateView
  <2>4. CASE \/ \E b \in Books, s \in Sects : \/ Access!create_section(u, b, s)
                                             \/ Access!api_runbook_sections(u, b, s)
             \/ \E s \in Sects : Access!SectionDeleteView(u, s)
    <3>1. b1 \in Books
      BY SeededSite
    <3> QED
      BY <1>1, <2>4, <3>1, SectionSteps DEF Access!api_runbook_sections
  <2> QED
    BY <1>2, <2>1, <2>2, <2>3, <2>4 DEF Access!RunbookOps
<1>3. ASSUME NEW u \in Members, Access!PlaceOps(u) PROVE Tidy'
  BY <1>1, <1>3, CreateStep, PutStep, MoveStep
     DEF Access!PlaceOps, Access!MaybeSects, Access!DocumentCreateView, Access!create_from_template,
         Access!api_document, Access!do_put, Access!copy_document, Access!api_document_move,
         Access!do_move
<1>4. ASSUME NEW u \in Members, Access!PageOps(u) PROVE Tidy'
  BY <1>1, <1>4, FlagStep, FormStep
     DEF Access!PageOps, Access!api_document_archive, Access!api_document_unarchive,
         Access!archive_document, Access!unarchive_document, Access!do_delete
<1>5. ASSUME Access!SystemOps PROVE Tidy'
  <2>1. CASE \E d \in Docs, s \in Sects \cup {Access!Nil}, l \in {Access!Nil, "yes", "no"} :
                Access!put_document(Access!Nil, d, s, l)
    <3>1. PICK d \in Docs, s \in Sects \cup {Access!Nil}, l \in {Access!Nil, "yes", "no"} :
                Access!put_document(Access!Nil, d, s, l)
      BY <2>1
    <3> QED
      BY <1>1, <3>1, PutStep
  <2>2. CASE \E b \in Books, d \in Docs, s \in Sects \cup {Access!Nil}, x \in BOOLEAN :
                Access!import_bundle(b, d, s, x)
    <3>1. PICK b \in Books, d \in Docs, s \in Sects \cup {Access!Nil}, x \in BOOLEAN :
                Access!import_bundle(b, d, s, x)
      BY <2>2
    <3> QED
      BY <1>1, <3>1, ImportStep
  <2> QED
    BY <1>5, <2>1, <2>2 DEF Access!SystemOps, Access!MaybeSects, Access!cmd_write
<1>6. ASSUME NEW u \in Members \cup {Access!Nil}, Access!Op(u)
      PROVE  ops' \in Nat /\ by' \in Members \cup {Access!Nil}
  BY <1>1, <1>6 DEF Access!Op
<1>7. CASE Access!UpdateSave
  BY <1>1, <1>7, SaveStep, TidyAccess DEF Access!UpdateSave
<1>8. ASSUME NEW b \in Books, Access!RunbookDrop(b) PROVE Access!IInv'
  BY <1>1, <1>8, DropStep, TidyAccess DEF Access!RunbookDrop
<1>9. CASE UNCHANGED accessVars
  BY <1>1, <1>9, SamePages, TidyAccess DEF accessVars, Tidy
<1> QED
  BY <1>2, <1>3, <1>4, <1>5, <1>6, <1>7, <1>8, <1>9, TidyAccess DEF Access!Next

\* Whoever is listed a page may open it: its own runbook, or its section's, lets them.
LEMMA Viewable ==
    ASSUME Access!IInv, NEW u \in Members, NEW d \in Access!viewable_documents(u)
    PROVE  d \in Access!require_view(u)
PROOF
<1>1. d \in Docs /\ docs[d].live
  BY DEF Access!viewable_documents, Access!Live
<1>2. CASE u \in Staff
  BY <1>1, <1>2 DEF Access!require_view, Access!Live, Access!can_view_doc, Access!can_view
<1>3. CASE docs[d].book \in Access!viewable_runbooks(u)
  <2>1. docs[d].book # Access!Nil
    BY <1>3, SeededSite DEF Access!viewable_runbooks, Access!Nil
  <2> QED
    BY <1>1, <1>3, <2>1 DEF Access!require_view, Access!Live, Access!can_view_doc, Access!can_view,
       Access!runbook_of, Access!viewable_runbooks
<1> QED
  BY <1>2, <1>3 DEF Access!viewable_documents

LEMMA Contents ==
    ASSUME Access!IInv, NEW u \in Members, NEW b \in Books, Access!can_view(u, b), NEW d \in Docs,
           docs[d].live,
           \/ docs[d].sec # Access!Nil /\ secs[docs[d].sec] = b
           \/ docs[d].book = b
    PROVE  d \in Access!require_view(u)
PROOF
<1>1. b # Access!Nil
  BY SeededSite DEF Access!Nil
<1>2. Access!runbook_of(docs[d]) = b \/ Access!runbook_of(docs[d]) = docs[d].book
  BY <1>1 DEF Access!runbook_of
<1>3. docs[d].sec # Access!Nil /\ secs[docs[d].sec] = b => docs[d].book \in {Access!Nil, b}
  BY DEF Access!IInv, Access!SectionInRunbook, Access!Live
<1>4. Access!runbook_of(docs[d]) = b
  BY <1>1, <1>3 DEF Access!runbook_of
<1> QED
  BY <1>4 DEF Access!require_view, Access!Live, Access!can_view_doc

LEMMA ListsSound == Access!IInv => Access!ListsAreViewable
PROOF
<1> SUFFICES ASSUME Access!IInv, NEW u \in Members, NEW d \in Access!Listed(u)
             PROVE  d \in Access!require_view(u) /\ d \in Access!current_docs
  BY DEF Access!ListsAreViewable
<1>1. CASE d \in Access!viewable_documents(u) /\ d \in Access!current_docs
  BY <1>1, Viewable
<1>2. CASE \E b \in Books : /\ Access!can_view(u, b) /\ d \in Access!current_docs
                            /\ \/ docs[d].sec # Access!Nil /\ secs[docs[d].sec] = b
                               \/ docs[d].book = b
  BY <1>2, Contents DEF Access!current_docs, Access!Live
<1>3. CASE \E b \in Books : \/ d \in Access!RunbookDetailView(u, b)
                            \/ d \in Access!RunbookReadView(u, b)
                            \/ d \in Access!RunbookPreviewView(u, b)
                            \/ d \in Access!DownloadZipView(u, b)
                            \/ d \in Access!api_runbook_detail(u, b)
  <2>1. PICK b \in Books : \/ d \in Access!RunbookDetailView(u, b)
                           \/ d \in Access!RunbookReadView(u, b)
                           \/ d \in Access!RunbookPreviewView(u, b)
                           \/ d \in Access!DownloadZipView(u, b)
                           \/ d \in Access!api_runbook_detail(u, b)
    BY <1>3
  <2>2. \/ d \in Access!viewable_documents(u) /\ d \in Access!current_docs
        \/ /\ Access!can_view(u, b) /\ d \in Access!current_docs
           /\ \/ docs[d].sec # Access!Nil /\ secs[docs[d].sec] = b
              \/ docs[d].book = b
    BY <2>1 DEF Access!RunbookDetailView, Access!RunbookReadView, Access!RunbookPreviewView,
       Access!render_runbook_sections, Access!DownloadZipView, Access!api_runbook_detail,
       Access!list_documents
  <2> QED
    BY <1>1, <1>2, <2>2
<1>4. CASE \/ d \in Access!RunbookDashboardView(u) \/ d \in Access!DocumentListView(u)
           \/ d \in Access!get_stat_table(u) \/ d \in Access!SearchView(u)
           \/ d \in Access!list_template_documents(u) \/ d \in Access!DownloadZipView(u, Access!Nil)
           \/ d \in Access!api_list_documents(u, Access!Nil) \/ d \in Access!do_list(u, Access!Nil)
  BY <1>1, <1>4 DEF Access!RunbookDashboardView, Access!DocumentListView, Access!get_stat_table,
     Access!SearchView, Access!list_template_documents, Access!DownloadZipView,
     Access!api_list_documents, Access!search_documents, Access!do_list, Access!list_documents,
     Access!current_docs
<1>5. \/ d \in UNION {Access!RunbookDashboardView(u), Access!DocumentListView(u),
                       Access!get_stat_table(u), Access!SearchView(u),
                       Access!list_template_documents(u), Access!DownloadZipView(u, Access!Nil),
                       Access!api_list_documents(u, Access!Nil), Access!do_list(u, Access!Nil)}
      \/ d \in UNION {Access!RunbookDetailView(u, b) \cup Access!RunbookReadView(u, b)
                         \cup Access!RunbookPreviewView(u, b) \cup Access!DownloadZipView(u, b)
                         \cup Access!api_runbook_detail(u, b) : b \in {b \in Books : Access!Exists(b)}}
  BY DEF Access!Listed
<1> QED
  BY <1>3, <1>4, <1>5

(***************************************************************************)
(* The search index.                                                       *)
(***************************************************************************)
\* A non-empty set of keys has a smallest.
LEMMA SmallestKey ==
    ASSUME NEW S \in SUBSET Objs, S # {}
    PROVE  (CHOOSE p \in S : \A q \in S : p <= q) \in S
PROOF
<1> DEFINE R == {ss \in Nat \X Nat : ss[1] < ss[2]}
<1>1. S \subseteq Nat
  BY SearchSite
<1>2. IsWellFoundedOn(R, Nat)
  BY NatLessThanWellFounded DEF OpToRel
<1>3. PICK p \in S : \A q \in S : <<q, p>> \notin R
  <2> HIDE DEF R
  <2> QED
    BY <1>1, <1>2, WFMin
<1>4. ASSUME NEW q \in S PROVE p <= q
  <2>1. p \in Nat /\ q \in Nat
    BY <1>1
  <2>2. ~(q < p)
    BY <1>3, <2>1
  <2> QED
    BY <2>1, <2>2
<1> QED
  BY <1>4

Texts == Words \cup {"none"}
Entries == [Objs -> Texts]
SearchRows == [live : BOOLEAN, text : Words, mine : BOOLEAN]
Signals == {Index!Free} \cup [pc : {"saved"}, o : Objs, text : Words] \cup [pc : {"deleted"}, o : Objs]
Runs == [pc : {"list", "read", "write", "done"}, pks : SUBSET Objs,
         batch : {<<>>} \cup (Objs \X Words), full : BOOLEAN]
LEMMA IndexTypes ==
    /\ Index!TypeOK <=> /\ site.backend \in {"sqlite", "postgres", "fallback"}
                        /\ rowOf \in [Objs -> SearchRows] /\ idx \in Entries
                        /\ wtr \in [Writers -> Signals] /\ reb \in {Index!Free} \cup Runs
                        /\ quiet \in BOOLEAN
    /\ Index!TypeOK' <=> /\ site'.backend \in {"sqlite", "postgres", "fallback"}
                         /\ rowOf' \in [Objs -> SearchRows] /\ idx' \in Entries
                         /\ wtr' \in [Writers -> Signals] /\ reb' \in {Index!Free} \cup Runs
                         /\ quiet' \in BOOLEAN
BY DEF Index!TypeOK, Index!get_backend, Texts, Entries, SearchRows, Signals, Runs

\* What index_object does to one entry.
LEMMA IndexObject ==
    ASSUME Index!TypeOK, NEW o \in Objs, NEW text \in Words,
           idx' = Index!index_object(idx, o, text)
    PROVE  /\ idx' \in Entries /\ \A p \in Objs \ {o} : idx'[p] = idx[p]
           /\ idx'[o] = IF site.backend = "sqlite" \/ (site.backend = "postgres" /\ rowOf[o].live)
                        THEN text ELSE idx[o]
PROOF
<1>1. idx \in Entries /\ text \in Texts
  BY IndexTypes DEF Texts
<1>2. CASE site.backend = "sqlite"
  <2>1. idx' = [idx EXCEPT ![o] = text]
    BY <1>2 DEF Index!index_object, Index!sqlite_index_object, Index!Sqlite
  <2> QED
    BY <1>1, <1>2, <2>1 DEF Entries
<1>3. CASE site.backend = "postgres"
  <2>1. idx' = IF rowOf[o].live THEN [idx EXCEPT ![o] = text] ELSE idx
    BY <1>3 DEF Index!index_object, Index!postgres_index_object, Index!Sqlite
  <2> QED
    BY <1>1, <1>3, <2>1 DEF Entries
<1>4. CASE site.backend \notin {"sqlite", "postgres"}
  <2>1. idx' = idx
    BY <1>4 DEF Index!index_object, Index!Sqlite
  <2> QED
    BY <1>1, <1>4, <2>1
<1> QED
  BY <1>2, <1>3, <1>4

LEMMA IndexInit == Index!Init => Index!IInv
PROOF
<1> SUFFICES ASSUME Index!Init PROVE Index!IInv
  OBVIOUS
<1>1. (CHOOSE w \in Words : TRUE) \in Words
  BY SearchSite
<1>2. PICK r \in SearchRows :
         r = [live |-> FALSE, text |-> CHOOSE w \in Words : TRUE, mine |-> FALSE]
  BY <1>1 DEF SearchRows
<1>3. rowOf = [o \in Objs |-> r]
  BY <1>2 DEF Index!Init
<1>4. /\ idx = [o \in Objs |-> "none"] /\ wtr = [w \in Writers |-> Index!Free]
      /\ reb = Index!Free /\ quiet = FALSE /\ site.backend \in {"sqlite", "postgres", "fallback"}
  BY DEF Index!Init, Index!get_backend
<1>5. Index!TypeOK
  BY <1>3, <1>4, IndexTypes DEF Entries, Texts, Signals
<1> QED
  BY <1>4, <1>5 DEF Index!IInv, Index!NoOrphans, Index!NoFallbackRebuild

\* What stays to be shown of a step that overlaps any rebuild with a row's write.
Orderly ==
    /\ idx' \in Entries /\ rowOf' \in [Objs -> SearchRows]
    /\ Index!NoOrphans'
LEMMA Writes ==
    ASSUME Index!IInv, Orderly, wtr' \in [Writers -> Signals], UNCHANGED <<site, reb>>, quiet' = FALSE
    PROVE  Index!IInv'
PROOF
<1>1. Index!TypeOK'
  BY IndexTypes DEF Index!IInv, Orderly
<1> QED
  BY <1>1 DEF Index!IInv, Index!NoFallbackRebuild, Orderly

LEMMA SaveKeeps ==
    ASSUME Index!IInv, NEW w \in Writers, NEW o \in Objs, NEW text \in Words, NEW mine \in BOOLEAN,
           Index!Save(w, o, text, mine)
    PROVE  Index!IInv'
PROOF
<1>1. PICK r \in SearchRows, l \in Signals :
         /\ r = [live |-> TRUE, text |-> text, mine |-> mine]
         /\ l = [pc |-> "saved", o |-> o, text |-> text]
  BY DEF SearchRows, Signals
<1>2. /\ rowOf' = [rowOf EXCEPT ![o] = r] /\ wtr' = [wtr EXCEPT ![w] = l] /\ quiet' = FALSE
      /\ UNCHANGED <<site, idx, reb>> /\ r.live
  BY <1>1 DEF Index!Save, Index!Wrote
<1>3. rowOf \in [Objs -> SearchRows] /\ wtr \in [Writers -> Signals] /\ idx \in Entries
  BY IndexTypes DEF Index!IInv
<1>4. Index!NoOrphans'
  BY <1>2, <1>3 DEF Index!IInv, Index!NoOrphans, Index!Sqlite
<1> QED
  BY <1>1, <1>2, <1>3, <1>4, Writes DEF Orderly

LEMMA DeleteRowKeeps ==
    ASSUME Index!IInv, NEW w \in Writers, NEW o \in Objs, Index!Delete(w, o)
    PROVE  Index!IInv'
PROOF
<1>1. rowOf \in [Objs -> SearchRows] /\ wtr \in [Writers -> Signals] /\ idx \in Entries
  BY IndexTypes DEF Index!IInv
<1>2. PICK r : r = [rowOf[o] EXCEPT !.live = FALSE]
  OBVIOUS
<1>2a. PICK l \in Signals : l = [pc |-> "deleted", o |-> o]
  BY DEF Signals
<1>3. r \in SearchRows /\ ~r.live
  BY <1>1, <1>2 DEF SearchRows
<1>4. /\ rowOf' = [rowOf EXCEPT ![o] = r] /\ wtr' = [wtr EXCEPT ![w] = l] /\ quiet' = FALSE
      /\ idx' = IF Index!Sqlite THEN idx ELSE [idx EXCEPT ![o] = "none"]
      /\ UNCHANGED <<site, reb>>
  BY <1>1, <1>2, <1>2a DEF Index!Delete, Index!Wrote
<1>5. Index!NoOrphans' /\ idx' \in Entries
  BY <1>1, <1>3, <1>4 DEF Index!IInv, Index!NoOrphans, Index!Sqlite, Entries, Texts
<1> QED
  BY <1>1, <1>3, <1>4, <1>5, Writes DEF Orderly

LEMMA BulkWriteKeeps ==
    ASSUME Index!IInv, NEW o \in Objs, NEW text \in Words, Index!BulkWrite(o, text)
    PROVE  Index!IInv'
PROOF
<1>1. rowOf \in [Objs -> SearchRows] /\ wtr \in [Writers -> Signals] /\ idx \in Entries
  BY IndexTypes DEF Index!IInv
<1>2. PICK r : r = [rowOf[o] EXCEPT !.live = TRUE, !.text = text]
  OBVIOUS
<1>3. r \in SearchRows /\ r.live
  BY <1>1, <1>2 DEF SearchRows
<1>4. rowOf' = [rowOf EXCEPT ![o] = r] /\ quiet' = FALSE /\ UNCHANGED <<site, idx, wtr, reb>>
  BY <1>1, <1>2 DEF Index!BulkWrite, Index!Wrote
<1>5. Index!NoOrphans'
  BY <1>1, <1>3, <1>4 DEF Index!IInv, Index!NoOrphans, Index!Sqlite
<1> QED
  BY <1>1, <1>3, <1>4, <1>5, Writes DEF Orderly

\* A signal on its way means that a row was written since.
LEMMA SignalKeeps ==
    ASSUME Index!IInv, NEW w \in Writers,
           Index!on_save(w) \/ Index!on_delete(w) \/ Index!SignalFails(w)
    PROVE  Index!IInv'
PROOF
<1>1. /\ rowOf \in [Objs -> SearchRows] /\ wtr \in [Writers -> Signals] /\ idx \in Entries
      /\ Index!TypeOK
  BY IndexTypes DEF Index!IInv
<1>2. /\ wtr[w].pc \in {"saved", "deleted"} /\ wtr' = [wtr EXCEPT ![w] = Index!Free]
      /\ UNCHANGED <<site, rowOf, reb, quiet>>
  BY DEF Index!on_save, Index!on_delete, Index!SignalFails
<1>3. quiet = FALSE
  BY <1>1, <1>2, IndexTypes DEF Index!IInv, Index!AllFree, Index!Free
<1>4. wtr' \in [Writers -> Signals] /\ wtr[w].o \in Objs
      /\ (wtr[w].pc = "saved" => wtr[w].text \in Words)
  BY <1>1, <1>2 DEF Signals, Index!Free
<1>5. CASE Index!on_save(w)
  <2>1. wtr[w].pc = "saved" /\ idx' = Index!index_object(idx, wtr[w].o, wtr[w].text)
    BY <1>5 DEF Index!on_save
  <2>2. PICK o \in Objs, text \in Words : idx' = Index!index_object(idx, o, text)
    BY <1>4, <2>1
  <2>3. /\ idx' \in Entries /\ \A p \in Objs \ {o} : idx'[p] = idx[p]
        /\ idx'[o] = IF site.backend = "sqlite" \/ (site.backend = "postgres" /\ rowOf[o].live)
                     THEN text ELSE idx[o]
    BY <1>1, <2>2, IndexObject
  <2>4. Index!NoOrphans'
    BY <1>2, <2>3 DEF Index!IInv, Index!NoOrphans, Index!Sqlite
  <2> QED
    BY <1>1, <1>2, <1>3, <1>4, <2>3, <2>4, Writes DEF Orderly
<1>6. CASE Index!on_delete(w)
  <2>1. idx' = IF Index!Sqlite THEN [idx EXCEPT ![wtr[w].o] = "none"] ELSE idx
    BY <1>6 DEF Index!on_delete, Index!remove_object
  <2>2. idx' \in Entries /\ Index!NoOrphans'
    BY <1>1, <1>2, <1>4, <2>1 DEF Index!IInv, Index!NoOrphans, Index!Sqlite, Entries, Texts
  <2> QED
    BY <1>1, <1>2, <1>3, <1>4, <2>2, Writes DEF Orderly
<1>7. CASE Index!SignalFails(w)
  <2>1. idx' = idx
    BY <1>7 DEF Index!SignalFails
  <2>2. Index!NoOrphans'
    BY <1>2, <2>1 DEF Index!IInv, Index!NoOrphans, Index!Sqlite
  <2> QED
    BY <1>1, <1>2, <1>3, <1>4, <2>1, <2>2, Writes DEF Orderly
<1> QED
  BY <1>5, <1>6, <1>7

\* What a rebuild's record holds, running or not.
LEMMA RunRow ==
    ASSUME Index!TypeOK
    PROVE  /\ reb.pc = "free" => reb = Index!Free
           /\ reb.pc # "free" => reb \in Runs
           /\ reb \in Runs => /\ reb.pc \in {"list", "read", "write", "done"} /\ reb # Index!Free
                              /\ reb.pks \subseteq Objs /\ reb.full \in BOOLEAN
BY IndexTypes DEF Runs, Index!Free

\* What stays to be shown of a step of a rebuild.
Rebuilt ==
    /\ idx' \in Entries /\ reb' \in {Index!Free} \cup Runs /\ quiet' \in BOOLEAN
    /\ (site.backend = "fallback" => reb' = Index!Free)
    /\ Index!NoOrphans'
LEMMA Rebuilds ==
    ASSUME Index!IInv, Rebuilt, UNCHANGED <<site, rowOf, wtr>>,
           quiet' => Index!AllFree /\ (reb' # Index!Free => reb'.full /\ Index!Undisturbed')
    PROVE  Index!IInv'
PROOF
<1>1. Index!TypeOK'
  BY IndexTypes DEF Index!IInv, Rebuilt
<1>2. Index!AllFree' <=> Index!AllFree
  BY DEF Index!AllFree, Index!Free
<1>3. Index!NoFallbackRebuild'
  BY DEF Rebuilt, Index!NoFallbackRebuild, Index!Free
<1>4. (reb # Index!Free)' <=> reb' # Index!Free
  BY DEF Index!Free
<1> QED
  BY <1>1, <1>2, <1>3, <1>4 DEF Index!IInv, Rebuilt

\* A rebuild that begins is one over all the rows.
LEMMA Begins ==
    ASSUME Index!IInv, Index!Begin("list")
    PROVE  /\ reb' \in Runs /\ reb'.pc = "list" /\ reb'.full /\ quiet' \in BOOLEAN
           /\ quiet' => Index!AllFree
BY DEF Index!Begin, Runs, Index!AllFree

LEMMA RebuildClearKeeps == ASSUME Index!IInv, Index!RebuildClear PROVE Index!IInv'
PROOF
<1>1. /\ reb' \in Runs /\ reb'.pc = "list" /\ reb'.full /\ quiet' \in BOOLEAN
      /\ quiet' => Index!AllFree
  BY Begins DEF Index!RebuildClear
<1>2. /\ site.backend = "sqlite" /\ idx' = [o \in Objs |-> "none"]
      /\ UNCHANGED <<site, rowOf, wtr>>
  BY DEF Index!RebuildClear, Index!Sqlite
<1>3. idx' \in Entries /\ Index!NoOrphans'
  BY <1>2 DEF Entries, Texts, Index!NoOrphans
<1>4. Index!Undisturbed'
  BY <1>1, <1>2 DEF Index!Undisturbed
<1> QED
  BY <1>1, <1>2, <1>3, <1>4, Rebuilds DEF Rebuilt

LEMMA SetBasedKeeps == ASSUME Index!IInv, Index!rebuild_set_based PROVE Index!IInv'
PROOF
<1>1. /\ site.backend = "postgres" /\ quiet' = Index!AllFree
      /\ reb' = [pc |-> "done", pks |-> {}, batch |-> <<>>, full |-> TRUE]
      /\ idx' = [o \in Objs |-> IF rowOf[o].live THEN rowOf[o].text ELSE "none"]
      /\ UNCHANGED <<site, rowOf, wtr>>
  BY DEF Index!rebuild_set_based
<1>2. rowOf \in [Objs -> SearchRows]
  BY IndexTypes DEF Index!IInv
<1>3. \A o \in Objs : rowOf[o].text \in Words
  BY <1>2 DEF SearchRows
<1>4. idx' \in Entries /\ Index!NoOrphans'
  BY <1>1, <1>3 DEF Entries, Texts, Index!NoOrphans
<1>5. reb' \in Runs /\ reb'.full /\ reb'.pc = "done" /\ quiet' \in BOOLEAN
  BY <1>1 DEF Runs, Index!AllFree
<1>6. Index!Undisturbed'
  BY <1>1, <1>5 DEF Index!Undisturbed, Index!Right
<1> QED
  BY <1>1, <1>4, <1>5, <1>6, Rebuilds DEF Rebuilt

LEMMA PerRowKeeps == ASSUME Index!IInv, Index!rebuild_per_row PROVE Index!IInv'
PROOF
<1>1. /\ reb' \in Runs /\ reb'.pc = "list" /\ reb'.full /\ quiet' \in BOOLEAN
      /\ quiet' => Index!AllFree
  BY Begins DEF Index!rebuild_per_row
<1>2. site.backend = "postgres" /\ UNCHANGED <<site, rowOf, wtr, idx>>
  BY DEF Index!rebuild_per_row
<1>3. idx' \in Entries /\ Index!NoOrphans'
  BY <1>2, IndexTypes DEF Index!IInv, Index!NoOrphans, Index!Sqlite
<1>4. \A o \in Objs : ~rowOf[o].live => idx[o] = "none"
  BY <1>2 DEF Index!IInv, Index!NoOrphans, Index!Sqlite
<1>5. Index!Undisturbed'
  BY <1>1, <1>2, <1>4 DEF Index!Undisturbed
<1> QED
  BY <1>1, <1>2, <1>3, <1>5, Rebuilds DEF Rebuilt

LEMMA ReindexKeeps == ASSUME Index!IInv, Index!reindex_instances PROVE Index!IInv'
PROOF
<1>1. /\ site.backend # "fallback" /\ quiet' = FALSE /\ UNCHANGED <<site, rowOf, idx, wtr>>
      /\ \E pks \in SUBSET Index!Live :
            reb' = [pc |-> "read", pks |-> pks, batch |-> <<>>, full |-> FALSE]
  BY DEF Index!reindex_instances
<1>2. reb' \in Runs
  BY <1>1 DEF Runs, Index!Live
<1>3. idx' \in Entries /\ Index!NoOrphans'
  BY <1>1, IndexTypes DEF Index!IInv, Index!NoOrphans, Index!Sqlite
<1> QED
  BY <1>1, <1>2, <1>3, Rebuilds DEF Rebuilt

\* The keys are listed after the old entries were dropped: what is not a row has no entry.
LEMMA RebuildListKeeps == ASSUME Index!IInv, Index!RebuildList PROVE Index!IInv'
PROOF
<1>1. /\ reb.pc = "list" /\ reb' = [reb EXCEPT !.pc = "read", !.pks = Index!Live]
      /\ UNCHANGED <<site, rowOf, idx, wtr, quiet>>
  BY DEF Index!RebuildList
<1>2. /\ Index!TypeOK /\ reb \in Runs /\ reb # Index!Free /\ idx \in Entries /\ quiet \in BOOLEAN
  BY <1>1, RunRow, IndexTypes DEF Index!IInv
<1>3. PICK r : r = [reb EXCEPT !.pc = "read", !.pks = Index!Live]
  OBVIOUS
<1>4. r \in Runs /\ r.pc = "read" /\ r.pks = Index!Live /\ r.full = reb.full
  BY <1>2, <1>3 DEF Runs, Index!Live
<1>5. reb' = r
  BY <1>1, <1>3
<1>6. site.backend # "fallback"
  BY <1>2 DEF Index!IInv, Index!NoFallbackRebuild
<1>7. Index!NoOrphans' /\ Index!Live' = Index!Live
  BY <1>1 DEF Index!IInv, Index!NoOrphans, Index!Sqlite, Index!Live
<1>8. ASSUME quiet PROVE Index!AllFree /\ reb'.full /\ Index!Undisturbed'
  <2>1. Index!AllFree /\ reb.full /\ \A o \in Objs : ~rowOf[o].live => idx[o] = "none"
    BY <1>1, <1>2, <1>8 DEF Index!IInv, Index!Undisturbed
  <2>2. ASSUME NEW o \in Objs \ Index!Live PROVE Index!Right(o)'
    BY <1>1, <2>1 DEF Index!Live, Index!Right
  <2>3. reb'.pc = "read" /\ reb'.pks = Index!Live'
    BY <1>4, <1>5, <1>7
  <2>4. Index!Undisturbed'
    BY <2>2, <2>3, <1>7 DEF Index!Undisturbed
  <2> QED
    BY <1>4, <1>5, <2>1, <2>4
<1> QED
  BY <1>1, <1>2, <1>4, <1>5, <1>6, <1>7, <1>8, Rebuilds DEF Rebuilt

\* The chunk read is the row itself, for as long as no row is written.
LEMMA RebuildReadKeeps == ASSUME Index!IInv, Index!RebuildRead PROVE Index!IInv'
PROOF
<1> DEFINE next == CHOOSE p \in reb.pks : \A q \in reb.pks : p <= q
           hand == IF rowOf[next].live THEN <<next, rowOf[next].text>> ELSE <<>>
<1>1. /\ reb.pc = "read" /\ UNCHANGED <<site, rowOf, idx, wtr, quiet>>
      /\ IF reb.pks = {} THEN reb' = [reb EXCEPT !.pc = "done"]
         ELSE reb' = [reb EXCEPT !.pc = "write", !.pks = @ \ {next}, !.batch = hand]
  BY DEF Index!RebuildRead
<1>2. /\ Index!TypeOK /\ reb \in Runs /\ reb # Index!Free /\ idx \in Entries /\ quiet \in BOOLEAN
      /\ reb.pks \subseteq Objs /\ rowOf \in [Objs -> SearchRows]
  BY <1>1, RunRow, IndexTypes DEF Index!IInv
<1>3. site.backend # "fallback"
  BY <1>2 DEF Index!IInv, Index!NoFallbackRebuild
<1>4. Index!NoOrphans' /\ Index!Live' = Index!Live
  BY <1>1 DEF Index!IInv, Index!NoOrphans, Index!Sqlite, Index!Live
<1>5. quiet => /\ Index!AllFree /\ reb.full /\ reb.pks \subseteq Index!Live
               /\ \A o \in Objs \ reb.pks : Index!Right(o)
  BY <1>1, <1>2 DEF Index!IInv, Index!Undisturbed
<1>6. \A o \in Objs : Index!Right(o)' <=> Index!Right(o)
  BY <1>1 DEF Index!Right
<1>7. CASE reb.pks = {}
  <2>1. PICK r : r = [reb EXCEPT !.pc = "done"]
    OBVIOUS
  <2>2. r \in Runs /\ r.pc = "done" /\ r.full = reb.full
    BY <1>2, <2>1 DEF Runs
  <2>3. reb' = r
    BY <1>1, <1>7, <2>1
  <2>4. quiet => Index!Undisturbed'
    BY <1>5, <1>6, <1>7, <2>2, <2>3 DEF Index!Undisturbed
  <2> QED
    BY <1>1, <1>2, <1>3, <1>4, <1>5, <2>2, <2>3, <2>4, Rebuilds DEF Rebuilt
<1>8. CASE reb.pks # {}
  <2>1. PICK o \in reb.pks : o = next
    BY <1>2, <1>8, SmallestKey
  <2>2. PICK b \in {<<>>} \cup (Objs \X Words) :
           b = IF rowOf[o].live THEN <<o, rowOf[o].text>> ELSE <<>>
    <3>1. o \in Objs /\ rowOf[o].text \in Words
      BY <1>2, <2>1 DEF SearchRows
    <3>2. <<o, rowOf[o].text>> \in Objs \X Words
      BY <3>1
    <3>3. CASE rowOf[o].live
      BY <3>2, <3>3
    <3>4. CASE ~rowOf[o].live
      BY <3>4
    <3> QED
      BY <3>3, <3>4
  <2>3. b = hand
    BY <2>1, <2>2
  <2> HIDE DEF next, hand
  <2>4. PICK r : r = [reb EXCEPT !.pc = "write", !.pks = reb.pks \ {o}, !.batch = b]
    OBVIOUS
  <2>5. r \in Runs /\ r.pc = "write" /\ r.pks = reb.pks \ {o} /\ r.batch = b /\ r.full = reb.full
    BY <1>2, <2>4 DEF Runs
  <2>6. reb' = r
    BY <1>1, <1>2, <1>8, <2>1, <2>3, <2>4 DEF Runs
  <2>7. ASSUME quiet PROVE Index!Undisturbed'
    <3>1. /\ o \in Index!Live /\ rowOf[o].live /\ b = <<o, rowOf[o].text>> /\ o \in Objs
          /\ reb.pks \ {o} \subseteq Index!Live
      BY <1>5, <2>1, <2>2, <2>7 DEF Index!Live
    <3>2. \A p \in Objs \ ((reb.pks \ {o}) \cup {o}) : Index!Right(p)'
      BY <1>5, <1>6, <2>7
    <3>3. reb'.pc = "write" /\ reb'.pks = reb.pks \ {o} /\ reb'.batch = <<o, rowOf'[o].text>>
      BY <1>1, <2>5, <2>6, <3>1
    <3> QED
      BY <1>4, <3>1, <3>2, <3>3 DEF Index!Undisturbed
  <2> QED
    BY <1>1, <1>2, <1>3, <1>4, <1>5, <2>5, <2>6, <2>7, Rebuilds DEF Rebuilt
<1> QED
  BY <1>7, <1>8

\* What was read is what the row says: its entry, and with it every other, is then right.
LEMMA RebuildWriteKeeps == ASSUME Index!IInv, Index!RebuildWrite PROVE Index!IInv'
PROOF
<1>1. /\ reb.pc = "write" /\ reb' = [reb EXCEPT !.pc = "read", !.batch = <<>>]
      /\ idx' = IF reb.batch = <<>> THEN idx
                ELSE Index!index_object(idx, reb.batch[1], reb.batch[2])
      /\ UNCHANGED <<site, rowOf, wtr, quiet>>
  BY DEF Index!RebuildWrite
<1>2. /\ Index!TypeOK /\ reb \in Runs /\ reb # Index!Free /\ idx \in Entries /\ quiet \in BOOLEAN
      /\ reb.pks \subseteq Objs /\ rowOf \in [Objs -> SearchRows]
  BY <1>1, RunRow, IndexTypes DEF Index!IInv
<1>3. site.backend # "fallback" /\ site.backend \in {"sqlite", "postgres", "fallback"}
  BY <1>2, IndexTypes DEF Index!IInv, Index!NoFallbackRebuild
<1>4. PICK r : r = [reb EXCEPT !.pc = "read", !.batch = <<>>]
  OBVIOUS
<1>5. r \in Runs /\ r.pc = "read" /\ r.pks = reb.pks /\ r.full = reb.full
  BY <1>2, <1>4 DEF Runs
<1>6. reb' = r /\ Index!Live' = Index!Live
  BY <1>1, <1>4 DEF Index!Live
<1>7. CASE reb.batch = <<>>
  <2>1. idx' = idx
    BY <1>1, <1>7
  <2>2. Index!NoOrphans'
    BY <1>1, <2>1 DEF Index!IInv, Index!NoOrphans, Index!Sqlite
  <2>3. ~quiet
    <3>1. ASSUME NEW o, reb.batch = <<o, rowOf[o].text>> PROVE FALSE
      BY <1>7, <3>1
    <3> QED
      BY <1>1, <1>2, <3>1 DEF Index!IInv, Index!Undisturbed
  <2> QED
    BY <1>1, <1>2, <1>3, <1>5, <1>6, <2>1, <2>2, <2>3, Rebuilds DEF Rebuilt
<1>8. CASE reb.batch # <<>>
  <2>1. reb.batch \in Objs \X Words
    BY <1>2, <1>8 DEF Runs
  <2>2. PICK o \in Objs, text \in Words : reb.batch[1] = o /\ reb.batch[2] = text
    BY <2>1
  <2>3. /\ idx' \in Entries /\ \A p \in Objs \ {o} : idx'[p] = idx[p]
        /\ idx'[o] = IF site.backend = "sqlite" \/ (site.backend = "postgres" /\ rowOf[o].live)
                     THEN text ELSE idx[o]
    <3>1. idx' = Index!index_object(idx, o, text)
      BY <1>1, <1>8, <2>2
    <3> QED
      BY <1>2, <3>1, IndexObject
  <2>4. Index!NoOrphans'
    BY <1>1, <2>3 DEF Index!IInv, Index!NoOrphans, Index!Sqlite
  <2>5. ASSUME quiet PROVE Index!AllFree /\ reb'.full /\ Index!Undisturbed'
    <3>1. Index!AllFree /\ reb.full /\ reb.pks \subseteq Index!Live
      BY <1>1, <1>2, <2>5 DEF Index!IInv, Index!Undisturbed
    <3>2. PICK q \in Index!Live : /\ reb.batch = <<q, rowOf[q].text>>
                                  /\ \A p \in Objs \ (reb.pks \cup {q}) : Index!Right(p)
      BY <1>1, <1>2, <2>5 DEF Index!IInv, Index!Undisturbed
    <3>3. q = o /\ text = rowOf[o].text /\ rowOf[o].live
      BY <2>2, <3>2 DEF Index!Live
    <3>4. Index!Right(o)'
      BY <1>1, <1>3, <2>3, <3>3 DEF Index!Right
    <3>5. ASSUME NEW p \in Objs \ reb.pks PROVE Index!Right(p)'
      <4>1. CASE p = o
        BY <3>4, <4>1
      <4>2. CASE p # o
        <5>1. Index!Right(p) /\ idx'[p] = idx[p]
          BY <2>3, <3>2, <3>3, <3>5, <4>2
        <5> QED
          BY <1>1, <5>1 DEF Index!Right
      <4> QED
        BY <4>1, <4>2
    <3>6. reb'.pc = "read" /\ reb'.pks = reb.pks /\ reb'.full
      BY <1>5, <1>6, <3>1
    <3>7. Index!Undisturbed'
      BY <1>6, <3>1, <3>5, <3>6 DEF Index!Undisturbed
    <3> QED
      BY <3>1, <3>6, <3>7
  <2> QED
    BY <1>1, <1>2, <1>3, <1>5, <1>6, <2>3, <2>4, <2>5, Rebuilds DEF Rebuilt
<1> QED
  BY <1>7, <1>8

LEMMA RebuildStopsKeeps == ASSUME Index!IInv, Index!RebuildStops PROVE Index!IInv'
PROOF
<1>1. reb' = Index!Free /\ reb.pc # "free" /\ UNCHANGED <<site, rowOf, idx, wtr, quiet>>
  BY DEF Index!RebuildStops
<1>2. idx' \in Entries /\ quiet' \in BOOLEAN /\ Index!NoOrphans'
  BY <1>1, IndexTypes DEF Index!IInv, Index!NoOrphans, Index!Sqlite
<1>3. quiet' => Index!AllFree
  BY <1>1, RunRow DEF Index!IInv
<1> QED
  BY <1>1, <1>2, <1>3, Rebuilds DEF Rebuilt

LEMMA EnsureKeeps == ASSUME Index!IInv, Index!ensure_index PROVE Index!IInv'
PROOF
<1>1. /\ site.backend = "sqlite" /\ idx' = [o \in Objs |-> "none"] /\ quiet' = FALSE
      /\ UNCHANGED <<site, rowOf, wtr, reb>>
  BY DEF Index!ensure_index, Index!Sqlite
<1>2. idx' \in Entries /\ Index!NoOrphans'
  BY <1>1 DEF Entries, Texts, Index!NoOrphans
<1>3. reb' \in {Index!Free} \cup Runs
  BY <1>1, IndexTypes DEF Index!IInv
<1> QED
  BY <1>1, <1>2, <1>3, Rebuilds DEF Rebuilt

\* A step that touches neither the rows, the index nor the rebuild.
LEMMA IndexUntouched ==
    ASSUME Index!IInv, UNCHANGED <<site, rowOf, idx, wtr, reb, quiet>>
    PROVE  Index!IInv'
PROOF
<1>1. Index!TypeOK' /\ Index!NoOrphans' /\ Index!NoFallbackRebuild'
  BY IndexTypes DEF Index!IInv, Index!NoOrphans, Index!Sqlite, Index!NoFallbackRebuild, Index!Free
<1>2. (Index!AllFree' <=> Index!AllFree) /\ (Index!Undisturbed' <=> Index!Undisturbed)
  BY DEF Index!AllFree, Index!Free, Index!Undisturbed, Index!Right, Index!Live
<1> QED
  BY <1>1, <1>2 DEF Index!IInv, Index!Free

LEMMA IndexStep ==
    ASSUME Index!IInv, Index!Next \/ UNCHANGED Index!seVars
    PROVE  Index!IInv'
PROOF
<1>1. CASE \E w \in Writers : Index!on_save(w) \/ Index!on_delete(w) \/ Index!SignalFails(w)
  BY <1>1, SignalKeeps
<1>2. CASE \E w \in Writers, o \in Objs : Index!Delete(w, o)
  BY <1>2, DeleteRowKeeps
<1>3. CASE \E w \in Writers, o \in Objs, t \in Words, m \in BOOLEAN : Index!Save(w, o, t, m)
  BY <1>3, SaveKeeps
<1>4. CASE \E o \in Objs, t \in Words : Index!BulkWrite(o, t)
  BY <1>4, BulkWriteKeeps
<1>5. CASE Index!RebuildClear \/ Index!rebuild_set_based \/ Index!rebuild_per_row
  BY <1>5, RebuildClearKeeps, SetBasedKeeps, PerRowKeeps
<1>6. CASE Index!reindex_instances \/ Index!RebuildList \/ Index!RebuildRead
  BY <1>6, ReindexKeeps, RebuildListKeeps, RebuildReadKeeps
<1>7. CASE Index!RebuildWrite \/ Index!RebuildStops \/ Index!ensure_index
  BY <1>7, RebuildWriteKeeps, RebuildStopsKeeps, EnsureKeeps
<1>8. CASE Index!Deploy \/ UNCHANGED Index!seVars
  BY <1>8, IndexUntouched DEF Index!Deploy, Index!seVars
<1> QED
  BY <1>1, <1>2, <1>3, <1>4, <1>5, <1>6, <1>7, <1>8 DEF Index!Next

\* What a finished, undisturbed rebuild leaves, and what the diagnostics then count.
LEMMA Healed == ASSUME Index!IInv PROVE Index!RebuildHeals
PROOF
<1> SUFFICES ASSUME reb.pc = "done", reb.full, quiet
             PROVE  /\ \A o \in Objs : Index!Right(o)
                    /\ Index!source_health = 0
  BY DEF Index!RebuildHeals, Index!Right
<1>1. Index!TypeOK /\ reb \in Runs /\ reb # Index!Free /\ rowOf \in [Objs -> SearchRows]
  BY RunRow, IndexTypes DEF Index!IInv
<1>2. \A o \in Objs : Index!Right(o)
  BY <1>1 DEF Index!IInv, Index!Undisturbed
<1>3. \A o \in Objs : rowOf[o].text # "none"
  BY <1>1, SearchSite DEF SearchRows
<1>4. Index!Live = {o \in Objs : idx[o] # "none"} /\ {o \in Index!Live : idx[o] = "none"} = {}
  BY <1>2, <1>3 DEF Index!Right, Index!Live
<1>5. IsFiniteSet(Index!Live)
  BY SearchSite, FS_Subset DEF Index!Live
<1>6. Index!Cardinality({}) = 0
  BY FS_EmptySet DEF Cardinality, Index!Cardinality
<1>7. CASE site.backend = "sqlite"
  <2>1. PICK n \in Nat : n = Index!Cardinality(Index!Live)
    BY <1>5, FS_CardinalityType DEF Cardinality, Index!Cardinality
  <2>2. Index!source_health = Index!Max({0, Index!Cardinality(Index!Live)
                                             - Index!Cardinality({o \in Objs : idx[o] # "none"})})
    BY <1>7 DEF Index!source_health, Index!Sqlite
  <2>3. Index!source_health = Index!Max({0, n - n})
    BY <1>4, <2>1, <2>2
  <2>4. Index!source_health = Index!Max({0})
    <3>1. n - n = 0
      BY <2>1
    <3>2. {0, n - n} = {0}
      BY <3>1
    <3> QED
      BY <2>3, <3>2
  <2>5. Index!Max({0}) = 0
    BY DEF Index!Max
  <2> QED
    BY <1>2, <2>4, <2>5
<1>8. CASE site.backend = "postgres"
  <2> DEFINE missing == {o \in Index!Live : idx[o] = "none"}
  <2>1. Index!source_health = Index!Cardinality(missing)
    BY <1>8 DEF Index!source_health, Index!Sqlite
  <2>2. missing = {}
    BY <1>4
  <2> HIDE DEF missing
  <2> QED
    BY <1>2, <1>6, <2>1, <2>2
<1> QED
  BY <1>1, <1>2, <1>7, <1>8, IndexTypes DEF Index!IInv, Index!NoFallbackRebuild

\* However stale the index is, no surface shows a row the others would not.
LEMMA SurfacesSound == Index!SurfacesAgree
PROOF
<1> SUFFICES ASSUME NEW u \in Index!Audiences, NEW word \in Words
             PROVE  LET hits == Index!search_all(u, word) IN
                    /\ Index!tool_handler(u, word) = hits
                    /\ Index!group_by_model(Index!SearchPageView(u, word)) \subseteq hits
                    /\ Index!OmnibarSearchView(u, word) \subseteq Index!search_view(u, word)
                    /\ \A o \in hits :
                          /\ rowOf[o].live
                          /\ site.visibility = "mine" => Index!is_privileged(u) \/ rowOf[o].mine
                    /\ hits # {} => /\ Index!tool_visible(u) /\ Index!get_indexed_sources(u) # {}
                                    /\ u \in Index!audit \cup {"cli"}
  BY DEF Index!SurfacesAgree
<1> DEFINE hits == Index!search_all(u, word)
<1>1. \A o \in Index!query(word) : rowOf[o].live
  BY DEF Index!query, Index!sqlite_query, Index!postgres_query, Index!fallback_query, Index!Live
<1>2. \A o \in Index!Visible(u, Index!query(word)) :
         /\ o \in Index!query(word)
         /\ site.visibility = "mine" => Index!is_privileged(u) \/ rowOf[o].mine
  BY DEF Index!Visible
<1>3. /\ hits = Index!tool_handler(u, word) /\ hits = Index!search_view(u, word)
      /\ hits = IF Index!user_can_see(u) THEN Index!Visible(u, Index!query(word)) ELSE {}
  BY DEF Index!search_all, Index!tool_handler, Index!search_view
<1>4. /\ Index!group_by_model(Index!SearchPageView(u, word)) \subseteq hits
      /\ Index!OmnibarSearchView(u, word) \subseteq hits
  BY DEF Index!group_by_model, Index!SearchPageView, Index!OmnibarSearchView
<1>5. \A o \in hits : /\ rowOf[o].live
                      /\ site.visibility = "mine" => Index!is_privileged(u) \/ rowOf[o].mine
  BY <1>1, <1>2, <1>3
<1>6. hits # {} => /\ Index!tool_visible(u) /\ Index!get_indexed_sources(u) # {}
                  /\ u \in Index!audit \cup {"cli"}
  BY <1>3 DEF Index!tool_visible, Index!get_indexed_sources, Index!audit, Index!Audiences
<1> QED
  BY <1>3, <1>4, <1>5, <1>6

(***************************************************************************)
(* The components together.                                                *)
(***************************************************************************)
\* Each component's inductive invariant.
AllInv == Access!IInv /\ Document!IInv /\ IInv /\ Accts!TypeOK /\ Index!IInv

allVars == <<part, accessVars, docVars, crVars, acctVars, indexVars>>

LEMMA AllInitInv == AllInit => AllInv
BY AccessInit, DocumentInit, InitInv, AccountsInit, IndexInit DEF AllInit, AllInv

\* A step is a step of each component, or leaves its variables alone.
LEMMA AllSteps ==
    ASSUME [AllNext]_allVars
    PROVE  /\ [Access!Next]_accessVars /\ [Document!Next]_docVars /\ [Next]_crVars
           /\ [Accts!Next]_acctVars /\ (Index!Next \/ UNCHANGED indexVars)
PROOF
<1>1. CASE AllNext
  BY <1>1 DEF AllNext, Next
<1>2. CASE UNCHANGED allVars
  BY <1>2 DEF allVars
<1> QED
  BY <1>1, <1>2

LEMMA AllStepInv == AllInv /\ [AllNext]_allVars => AllInv'
PROOF
<1> SUFFICES ASSUME AllInv, [AllNext]_allVars PROVE AllInv'
  OBVIOUS
<1>1. Access!IInv' /\ Document!IInv' /\ IInv'
  BY AllSteps, AccessStep, DocumentStep, StepInv DEF AllInv
<1>2. Accts!TypeOK'
  BY AllSteps, AccountsStep DEF AllInv, Sound
<1>3. Index!IInv'
  BY AllSteps, IndexStep DEF AllInv, indexVars, Index!seVars
<1> QED
  BY <1>1, <1>2, <1>3 DEF AllInv

THEOREM PlatformInvariantHolds == AllSpec => []AllInv
BY AllInitInv, AllStepInv, PTL DEF AllSpec, allVars

\* Whoever edits, moves, publishes and deletes what, in any order: no list of runbook pages
\* shows what the page itself would refuse, no page is filed in another runbook's section,
\* no token list shows a foreign token, no search surface finds a row another one hides, and
\* no key that was scrubbed unread belongs to a live token.
THEOREM NothingShownIsHidden == AllSpec => []ListsAreViewable
PROOF
<1>1. AllInv => ListsAreViewable
  BY ListsSound, TokenLists, SurfacesSound
     DEF AllInv, ListsAreViewable, Access!IInv, IInv
<1> QED
  BY <1>1, PlatformInvariantHolds, PTL

\* Under any policy that keeps a version at all, and whatever writes, restores, prunings and
\* sweeps interleave, a document's head is never pruned and no acknowledged append is lost.
THEOREM HeadIsNeverPruned == AllSpec => []ReadersServed
PROOF
<1>1. AllInv => ReadersServed
  BY DocumentServed DEF AllInv, ReadersServed
<1> QED
  BY <1>1, PlatformInvariantHolds, PTL

\* A rebuild that no row's write overlaps repairs whatever failed signals, bulk writes and
\* interrupted rebuilds had left in the index, under every backend.
THEOREM IndexHeals == AllSpec => []RebuildHeals
PROOF
<1>1. AllInv => RebuildHeals
  BY Healed DEF AllInv, RebuildHeals
<1> QED
  BY <1>1, PlatformInvariantHolds, PTL

\* Whatever logins, refreshes and logouts hold of the row in memory, a token that was
\* revoked stays revoked.
THEOREM RevokedTokensStayDead == AllSpec => RevokedStaysDead
PROOF
<1>1. AllInv /\ [AllNext]_allVars
         => [\A t \in Tokens : apiToken[t].row /\ ~apiToken[t].active => ~apiToken'[t].active]_(Accts!acVars)
  BY AllSteps, AccountsStep DEF AllInv, Sound, Revocable
<1> QED
  BY <1>1, PlatformInvariantHolds, PTL DEF AllSpec, allVars, RevokedStaysDead, Accts!RevokedStaysDead

\* Side by side with the other components, the codes still are one-time codes.
THEOREM CodesStayOneTime == AllSpec => OneTime
PROOF
<1>1. AllInit => Abstract!Init
  BY InitRefines DEF AllInit
<1>2. AllInv /\ [AllNext]_allVars => [Abstract!Next]_(Abstract!ocVars)
  BY AllSteps, StepRefines DEF AllInv
<1> QED
  BY <1>1, <1>2, PlatformInvariantHolds, PTL DEF AllSpec, allVars, OneTime, Abstract!Spec
=============================================================================
