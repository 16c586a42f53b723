----------------------------- MODULE VaultProofs -----------------------------
(***************************************************************************)
(* Theorems about Vault, for any number of processes, sources, files and   *)
(* contents: types, retrieval and its audit, whole sources, lineage,       *)
(* references, the log's cap, what a confirmed purge removes, and that the *)
(* vault implements VaultLedger.                                           *)
(***************************************************************************)
EXTENDS VaultInvariants, FiniteSetTheorems, WellFoundedInduction, TLAPS

-----------------------------------------------------------------------------
(* The statements of VaultDb map databases to databases. *)

(* The empty vault every new database starts as is well typed. *)
LEMMA EmptyVaultType == EmptyVault \in Database
BY DEF EmptyVault, Database

(* The source upsert and the final scan time keep the database well typed. *)
LEMMA SourceType ==
  ASSUME NEW d \in Database, NEW s \in Sources, NEW stamp \in Nat
  PROVE  BeginSource(d, s) \in Database /\ FinishSource(d, s, stamp) \in Database
BY DEF Database, BeginSource, FinishSource

(* Importing one prepared file keeps the database well typed. *)
LEMMA ImportFileType ==
  ASSUME NEW d \in Database, NEW x \in Docs, NEW c \in Contents
  PROVE  ImportPreparedFile(d, x, c) \in Database
<1>1. d.cur[x] + 1 \in Nat
  BY DEF Database
<1>2. [doc |-> x, ord |-> d.cur[x] + 1, content |-> c] \in Revisions
  BY <1>1 DEF Revisions
<1> DEFINE r == [doc |-> x, ord |-> d.cur[x] + 1, content |-> c]
           n == [d EXCEPT !.cur[x] = @ + 1, !.revs = @ \cup {r}]
<1>3. n \in Database
  <2>1. r \in Revisions
    BY <1>2
  <2> HIDE DEF r
  <2>. QED BY <1>1, <2>1 DEF Database
<1>. QED BY <1>3 DEF ImportPreparedFile

(* Deleting documents, with its cascades, keeps the database well typed. *)
LEMMA DeleteDocsType ==
  ASSUME NEW d \in Database, NEW X
  PROVE  DeleteDocs(d, X) \in Database
<1> DEFINE cut(e) == [e EXCEPT !.ref = {r \in @ : r.doc \notin X}]
<1>1. ASSUME NEW e \in d.events PROVE cut(e) \in Events
  <2>1. e \in Events
    BY DEF Database
  <2>2. {r \in e.ref : r.doc \notin X} \in SUBSET Revisions
    BY <2>1 DEF Events
  <2>. QED BY <2>1, <2>2 DEF Events
<1>2. {cut(e) : e \in d.events} \subseteq Events
  BY <1>1
<1>3. [y \in Docs |-> IF y \in X THEN 0 ELSE d.cur[y]] \in [Docs -> Nat]
  BY DEF Database
<1>4. {r \in d.revs : r.doc \notin X} \subseteq Revisions
  BY DEF Database
<1>. QED BY <1>2, <1>3, <1>4 DEF DeleteDocs, Database

(* Purging a source keeps the database well typed. *)
LEMMA PurgeRowsType ==
  ASSUME NEW d \in Database, NEW s \in Sources
  PROVE  PurgeRows(d, s) \in Database
<1>1. [y \in Docs |-> IF y \in DocsOf(s) THEN 0 ELSE d.cur[y]] \in [Docs -> Nat]
  BY DEF Database
<1>2. {r \in d.revs : r.doc \notin DocsOf(s)} \subseteq Revisions
  BY DEF Database
<1>3. d.receipts[s] + 1 \in Nat
  BY DEF Database
<1>. QED BY <1>1, <1>2, <1>3 DEF PurgeRows, Database

(* Appending and pruning audit rows keeps the database well typed. *)
LEMMA AuditedType ==
  ASSUME NEW d \in Database, NEW req \in Nat, NEW rows \in SUBSET Revisions,
         NEW rank \in Rankings(rows)
  PROVE  Audited(d, req, rank) \in Database
<1>1. rank \in [rows -> 1 .. Cardinality(rows)]
  BY DEF Rankings
<1>2. ASSUME NEW r \in rows PROVE rank[r] \in Nat
  <2>1. rank[r] \in 1 .. Cardinality(rows)
    BY <1>1
  <2>. QED BY <2>1
<1>3. AuditRows(req, rank) \subseteq Events
  BY <1>1, <1>2 DEF AuditRows, Events
<1>4. Prune(d.events \cup AuditRows(req, rank)) \subseteq Events
  BY <1>3 DEF Prune, Database
<1>. QED BY <1>4 DEF Audited, Database

(* Clearing the activity log keeps the database well typed. *)
LEMMA ClearType == ASSUME NEW d \in Database PROVE ClearEvents(d) \in Database
BY DEF Database, ClearEvents

-----------------------------------------------------------------------------
(* Type correctness *)

(* The blank scan and the idle records are values of their types. *)
LEMMA BlankTypes ==
  /\ Blank \in Scan
  /\ NoPreview \in Previews /\ NoImport \in Imports /\ NoCall \in Calls
<1>1. (CHOOSE s \in Sources : TRUE) \in Sources
  BY VaultAssumption
<1>2. [f \in Files |-> NoFile] \in Inventory
  BY DEF Inventory
<1>3. Blank \in Scan
  BY <1>1, <1>2 DEF Blank, Scan
<1>4. {} \in Rows
  BY FS_EmptySet DEF Rows
<1>. QED
  BY <1>3, <1>4 DEF NoPreview, Previews, NoImport, Imports, NoCall, Calls

(* A scan starts and proceeds as a scan. *)
LEMMA ScanTypes ==
  ASSUME TypeOK
  PROVE  /\ \A s \in Sources : StartOf(s) \in Scan
         /\ \A scan \in Scan : ~Scanned(scan) => ReadNext(scan) \in Scan
<1>1. ASSUME NEW s \in Sources PROVE StartOf(s) \in Scan
  BY <1>1, BlankTypes DEF TypeOK, StartOf, Scan
<1>2. ASSUME NEW scan \in Scan, ~Scanned(scan) PROVE ReadNext(scan) \in Scan
  <2>1. scan.pos \in Nat \ {0} /\ scan.src \in Sources /\ scan.seen \in Inventory
    BY DEF Scan
  <2>2. ASSUME scan.pos \in Files
        PROVE  disk[scan.src][scan.pos] \in Contents \cup {NoFile}
    BY <2>1, <2>2 DEF TypeOK, Inventory
  <2> DEFINE seen == [scan.seen EXCEPT ![scan.pos] = disk[scan.src][scan.pos]]
  <2>3. seen \in Inventory
    BY <2>1, <2>2 DEF Inventory
  <2>4. ReadNext(scan) = [scan EXCEPT !.seen = seen, !.pos = scan.pos + 1]
    BY DEF ReadNext, Scan
  <2>5. scan.pos + 1 \in Nat \ {0}
    BY <2>1
  <2> HIDE DEF seen
  <2>. QED BY <2>3, <2>4, <2>5 DEF Scan
<1>. QED BY <1>1, <1>2

(* What a search or fetch may see are revisions. *)
LEMMA VisibleType ==
  ASSUME NEW d \in Database
  PROVE  Visible(d) \subseteq Revisions
BY DEF Visible, CurrentRevs, Database

(* A purge confirmation is a ticket. *)
LEMMA TicketType ==
  ASSUME NEW d \in Database, NEW s \in Sources
  PROVE  [token |-> SnapshotToken(d, s), shown |-> CurrentContent(d, s)] \in Tickets
<1>1. \A x : CurrentOf(d, x) \in SUBSET Revisions
  BY DEF CurrentOf, CurrentRevs, Database
<1>2. DocsOf(s) \subseteq Docs
  BY DEF DocsOf, Docs
<1>3. {<<x, CurrentOf(d, x)>> : x \in {y \in DocsOf(s) : d.cur[y] # 0}}
        \in SUBSET (Docs \X SUBSET Revisions)
  BY <1>1, <1>2
<1>4. d.scanned[s] \in Nat
  BY DEF Database
<1>5. SnapshotToken(d, s) \in Tokens
  BY <1>3, <1>4 DEF SnapshotToken, Tokens
<1>6. CurrentContent(d, s) \in SUBSET (Docs \X Contents)
  BY DEF CurrentContent, CurrentRevs, Database, Revisions
<1>. QED BY <1>5, <1>6 DEF Tickets

(* Every step keeps every variable in its type. *)
LEMMA TypeStep == TypeOK /\ [Next]_vars => TypeOK'
<1> SUFFICES ASSUME TypeOK, [Next]_vars PROVE TypeOK'
  OBVIOUS
<1> USE DEF fsVars, dbVars, histVars
<1>1. ASSUME NEW s \in Sources, NEW f \in Files, ChangeFile(s, f) PROVE TypeOK'
  <2> USE <1>1 DEF ChangeFile
  <2>1. disk' \in [Sources -> Inventory]
    BY DEF TypeOK, Inventory
  <2>. QED BY <2>1 DEF TypeOK
<1>2. ASSUME NEW s \in Sources, ReplaceFolder(s) PROVE TypeOK'
  BY <1>2 DEF ReplaceFolder, TypeOK
<1>3. ASSUME NEW p \in Procs PROVE View(p) \in Database
  BY DEF View, TypeOK
<1>4. ASSUME NEW p \in Procs, NEW new \in Database, WriteHere(p, new)
      PROVE  db' \in Database /\ work' \in Database /\ writer' \in Procs \cup {None}
  BY <1>4 DEF WriteHere, TypeOK
<1>5. ASSUME NEW p \in Procs, NEW s \in Sources, StartPreview(p, s) PROVE TypeOK'
  <2>1. [phase |-> "scan", scan |-> StartOf(s)] \in Previews
    BY ScanTypes DEF Previews
  <2>2. preview' \in [Procs -> Previews]
    BY <1>5, <2>1 DEF StartPreview, TypeOK
  <2>. QED BY <1>5, <2>2 DEF StartPreview, TypeOK
<1>6. ASSUME NEW p \in Procs, PreviewStep(p) PROVE TypeOK'
  <2>1. preview[p].scan \in Scan
    BY DEF TypeOK, Previews
  <2>2. preview' \in [Procs -> Previews]
    <3>1. ASSUME ~Scanned(preview[p].scan)
          PROVE  [phase |-> "scan", scan |-> ReadNext(preview[p].scan)] \in Previews
      BY <2>1, <3>1, ScanTypes DEF Previews
    <3>2. [phase |-> "ready", scan |-> preview[p].scan] \in Previews
      BY <2>1 DEF Previews
    <3>. QED BY <1>6, <3>1, <3>2, BlankTypes DEF PreviewStep, TypeOK
  <2>. QED BY <1>6, <2>2 DEF PreviewStep, TypeOK
<1>7. ASSUME NEW p \in Procs, NEW scan \in Scan, NEW want \in Inventory \cup {None},
             BeginImport(p, scan, want)
      PROVE  TypeOK'
  <2>1. [phase |-> "scan", scan |-> scan, want |-> want, aborted |-> FALSE] \in Imports
    BY DEF Imports, InTransaction
  <2>2. imp' \in [Procs -> Imports]
    BY <1>7, <2>1 DEF BeginImport, TypeOK
  <2>. QED BY <1>7, <2>2 DEF BeginImport, TypeOK
<1>8. ASSUME NEW p \in Procs, NEW s \in Sources, ImportDirectory(p, s) PROVE TypeOK'
  BY <1>7, <1>8, ScanTypes DEF ImportDirectory
<1>9. ASSUME NEW p \in Procs, CommitPreparedDirectoryImport(p) PROVE TypeOK'
  <2>1. preview[p].scan \in Scan
    BY DEF TypeOK, Previews
  <2>2. /\ preview[p].scan.src \in Sources /\ preview[p].scan.root \in Nat
        /\ preview[p].scan.seen \in Inventory
    BY <2>1 DEF Scan
  <2>3. [StartOf(preview[p].scan.src) EXCEPT !.root = preview[p].scan.root] \in Scan
    BY <2>2, ScanTypes DEF Scan
  <2>. QED BY <1>7, <1>9, <2>2, <2>3 DEF CommitPreparedDirectoryImport
<1>10. ASSUME NEW p \in Procs, NEW v \in Imports, imp' = [imp EXCEPT ![p] = v]
       PROVE  imp' \in [Procs -> Imports]
  BY <1>10 DEF TypeOK
<1>11. ASSUME NEW p \in Procs
       PROVE  imp[p] \in Imports /\ imp[p].scan \in Scan /\ imp[p].scan.src \in Sources
  BY DEF TypeOK, Imports, Scan
<1>12. ASSUME NEW p \in Procs, AbortImport(p) PROVE TypeOK'
  <2>1. [imp[p] EXCEPT !.aborted = TRUE] \in Imports
    BY <1>11 DEF Imports
  <2>2. imp' \in [Procs -> Imports]
    BY <1>12, <2>1 DEF AbortImport, TypeOK
  <2>. QED BY <1>12, <2>2 DEF AbortImport, TypeOK
<1>13. ASSUME NEW p \in Procs, ScanFile(p) PROVE TypeOK'
  <2>1. [imp[p] EXCEPT !.scan = ReadNext(imp[p].scan)] \in Imports
    BY <1>11, <1>13, ScanTypes DEF ScanFile, Imports
  <2>2. imp' \in [Procs -> Imports]
    BY <1>13, <2>1 DEF ScanFile, TypeOK
  <2>. QED BY <1>13, <2>2 DEF ScanFile, TypeOK
<1>14. ASSUME NEW p \in Procs, BeginApply(p) PROVE TypeOK'
  <2>1. [imp[p] EXCEPT !.phase = "apply", !.scan.pos = 1] \in Imports
    <3>1. [imp[p].scan EXCEPT !.pos = 1] \in Scan
      BY <1>11 DEF Scan
    <3>. QED BY <1>11, <3>1 DEF Imports, InTransaction
  <2>2. imp' \in [Procs -> Imports]
    BY <1>14, <2>1 DEF BeginApply, TypeOK
  <2>3. work' \in Database
    BY <1>11, <1>14, SourceType DEF BeginApply, TypeOK
  <2>. QED BY <1>14, <2>2, <2>3 DEF BeginApply, TypeOK
<1>15. ASSUME NEW p \in Procs, ApplyFile(p) PROVE TypeOK'
  <2> DEFINE scan == imp[p].scan
             x == <<scan.src, scan.pos>>
             c == scan.seen[scan.pos]
  <2>1. [imp[p] EXCEPT !.scan.pos = imp[p].scan.pos + 1] \in Imports
    BY <1>11 DEF Imports, Scan
  <2>2. imp' \in [Procs -> Imports]
    BY <1>15, <2>1 DEF ApplyFile, TypeOK
  <2>3. CASE c = NoFile
    BY <1>15, <2>2, <2>3 DEF ApplyFile, TypeOK
  <2>4. CASE c # NoFile
    <3>1. x \in Docs
      <4>1. scan.pos \in Nat \ {0} /\ ~(scan.pos > NFiles)
        BY <1>11, <1>15 DEF ApplyFile, Scanned, Scan
      <4>2. scan.pos \in Files
        BY <4>1, VaultDbAssumption DEF Files
      <4>. QED BY <1>11, <4>2 DEF Docs
    <3>2. c \in Contents
      BY <1>11, <1>15, <2>4, <3>1 DEF Scan, Inventory, Docs
    <3>3. work' \in Database
      BY <1>15, <2>4, <3>1, <3>2, ImportFileType DEF ApplyFile, TypeOK
    <3>4. gone' \subseteq Docs
      BY <1>15, <2>4 DEF ApplyFile, TypeOK
    <3>. QED BY <1>15, <2>2, <3>3, <3>4 DEF ApplyFile, TypeOK
  <2>. QED BY <2>3, <2>4
<1>16. ASSUME NEW p \in Procs, FinishApply(p) PROVE TypeOK'
  <2>1. [imp[p] EXCEPT !.phase = "final"] \in Imports
    BY <1>11 DEF Imports, InTransaction
  <2>2. imp' \in [Procs -> Imports]
    BY <1>16, <2>1 DEF FinishApply, TypeOK
  <2>. QED BY <1>16, <2>2 DEF FinishApply, TypeOK
<1>17. ASSUME NEW p \in Procs, Finalize(p) PROVE TypeOK'
  <2>1. [imp[p] EXCEPT !.phase = "ending"] \in Imports
    BY <1>11 DEF Imports, InTransaction
  <2>2. imp' \in [Procs -> Imports]
    BY <1>17, <2>1 DEF Finalize, TypeOK
  <2>3. work' \in Database
    <3>1. PICK stamp \in 1 .. MaxStamp : work' = FinishSource(work, imp[p].scan.src, stamp)
      BY <1>17 DEF Finalize
    <3>2. stamp \in Nat
      BY VaultAssumption
    <3>. QED BY <1>11, <3>1, <3>2, SourceType DEF TypeOK
  <2>. QED BY <1>17, <2>2, <2>3 DEF Finalize, TypeOK
<1>18. [NoImport EXCEPT !.phase = "settled"] \in Imports
  BY BlankTypes DEF Imports
<1>19. ASSUME NEW p \in Procs, CommitImport(p) PROVE TypeOK'
  <2>1. imp' \in [Procs -> Imports]
    BY <1>10, <1>18, <1>19 DEF CommitImport
  <2>. QED BY <1>19, <2>1, EmptyVaultType DEF CommitImport, TypeOK
<1>20. ASSUME NEW p \in Procs, RollbackImport(p) PROVE TypeOK'
  <2>1. imp' \in [Procs -> Imports]
    BY <1>10, <1>18, <1>20 DEF RollbackImport
  <2>. QED BY <1>20, <2>1, EmptyVaultType DEF RollbackImport, TypeOK
<1>21. ASSUME NEW p \in Procs, ReleaseImport(p) PROVE TypeOK'
  <2>1. imp' \in [Procs -> Imports]
    BY <1>10, <1>21, BlankTypes DEF ReleaseImport
  <2>. QED BY <1>21, <2>1 DEF ReleaseImport, TypeOK
<1>22. ASSUME NEW p \in Procs, NEW kind \in {"search", "fetch"}, NEW rows \in Rows,
              BeginRetrieval(p, kind, rows)
       PROVE  TypeOK'
  <2>1. [kind |-> kind, rows |-> rows] \in Calls
    BY DEF Calls
  <2>2. call' \in [Procs -> Calls]
    BY <1>22, <2>1 DEF BeginRetrieval, TypeOK
  <2>. QED BY <1>22, <2>2 DEF BeginRetrieval, TypeOK
<1>23. ASSUME NEW p \in Procs, SearchVault(p) PROVE TypeOK'
  <2>1. PICK rows \in SUBSET Visible(View(p)) :
          IsFiniteSet(rows) /\ BeginRetrieval(p, "search", rows)
    BY <1>23 DEF SearchVault
  <2>2. rows \in Rows
    BY <1>3, <2>1, VisibleType DEF Rows
  <2>. QED BY <1>22, <2>1, <2>2
<1>24. ASSUME NEW p \in Procs, FetchDocument(p) PROVE TypeOK'
  <2>1. PICK r \in Visible(View(p)) : BeginRetrieval(p, "fetch", {r})
    BY <1>24 DEF FetchDocument
  <2>2. {r} \in Rows
    BY <1>3, <2>1, VisibleType, FS_Singleton DEF Rows
  <2>. QED BY <1>22, <2>1, <2>2
<1>25. ASSUME NEW p \in Procs, call' = [call EXCEPT ![p] = NoCall]
       PROVE  call' \in [Procs -> Calls]
  BY <1>25, BlankTypes DEF TypeOK
<1>26. ASSUME NEW p \in Procs, AuditAndReturn(p) PROVE TypeOK'
  <2>1. call[p].rows \in SUBSET Revisions
    BY DEF TypeOK, Calls, Rows
  <2>2. PICK rank \in Rankings(call[p].rows) :
          /\ WriteHere(p, Audited(View(p), requests + 1, rank))
          /\ erased' = erased \cup Dropped(View(p), Audited(View(p), requests + 1, rank))
    BY <1>26 DEF AuditAndReturn
  <2> DEFINE new == Audited(View(p), requests + 1, rank)
  <2>3. requests + 1 \in Nat
    BY DEF TypeOK
  <2>4. new \in Database
    BY <1>3, <2>1, <2>3, AuditedType
  <2>5. db' \in Database /\ work' \in Database /\ writer' \in Procs \cup {None}
    BY <1>4, <2>2, <2>4
  <2>6. Dropped(View(p), new) \subseteq Nat
    BY <1>3 DEF Dropped, Requests, Database, Events
  <2>7. erased' \subseteq Nat
    BY <2>2, <2>6 DEF TypeOK
  <2>8. call' \in [Procs -> Calls]
    BY <1>25, <1>26 DEF AuditAndReturn
  <2>. QED BY <1>26, <2>3, <2>5, <2>7, <2>8 DEF AuditAndReturn, TypeOK
<1>27. ASSUME NEW p \in Procs, RefuseRetrieval(p) PROVE TypeOK'
  BY <1>25, <1>27 DEF RefuseRetrieval, TypeOK
<1>28. ASSUME NEW p \in Procs, NEW s \in Sources, PrepareSourcePurge(p, s) PROVE TypeOK'
  <2>1. [token |-> SnapshotToken(db, s), shown |-> CurrentContent(db, s)] \in Tickets
    BY TicketType DEF TypeOK
  <2>2. ticket' \in [Procs -> Tickets \cup {None}]
    BY <1>28, <2>1 DEF PrepareSourcePurge, TypeOK
  <2>. QED BY <1>28, <2>2 DEF PrepareSourcePurge, TypeOK
<1>29. ASSUME NEW p \in Procs, PurgeSource(p) PROVE TypeOK'
  <2>1. ticket[p].token.source \in Sources
    BY <1>29 DEF PurgeSource, TypeOK, Tickets, Tokens
  <2>2. db' \in Database
    BY <1>29, <2>1, PurgeRowsType DEF PurgeSource, TypeOK
  <2>3. erased' \subseteq Nat
    BY <1>29 DEF PurgeSource, Dropped, Requests, TypeOK, Database, Events
  <2>. QED BY <1>29, <2>2, <2>3 DEF PurgeSource, TypeOK
<1>30. ASSUME NEW p \in Procs, NEW x \in Docs, PurgeDocument(p, x) PROVE TypeOK'
  <2>1. DeleteDocs(View(p), {x}) \in Database
    BY <1>3, DeleteDocsType
  <2>2. db' \in Database /\ work' \in Database /\ writer' \in Procs \cup {None}
    BY <1>4, <1>30, <2>1 DEF PurgeDocument
  <2>. QED BY <1>30, <2>2 DEF PurgeDocument, TypeOK
<1>31. ASSUME NEW p \in Procs, ClearRetrievalActivity(p) PROVE TypeOK'
  <2>1. db' \in Database
    BY <1>31, ClearType DEF ClearRetrievalActivity, TypeOK
  <2>2. erased' \subseteq Nat
    BY <1>31 DEF ClearRetrievalActivity, Requests, TypeOK, Database, Events
  <2>. QED BY <1>31, <2>1, <2>2 DEF ClearRetrievalActivity, TypeOK
<1>32. ASSUME NEW p \in Procs, Crash(p) PROVE TypeOK'
  <2>1. writer' \in Procs \cup {None} /\ work' \in Database
    BY <1>32, EmptyVaultType DEF Crash, TypeOK
  <2>2. preview' \in [Procs -> Previews] /\ imp' \in [Procs -> Imports]
    BY <1>32, BlankTypes DEF Crash, TypeOK
  <2>3. call' \in [Procs -> Calls] /\ ticket' \in [Procs -> Tickets \cup {None}]
    BY <1>32, BlankTypes DEF Crash, TypeOK
  <2>. QED BY <1>32, <2>1, <2>2, <2>3 DEF Crash, TypeOK
<1>33. CASE UNCHANGED vars
  BY <1>33 DEF vars, TypeOK
<1>. QED
  BY <1>1, <1>2, <1>5, <1>6, <1>8, <1>9, <1>12, <1>13, <1>14, <1>15, <1>16, <1>17,
     <1>19, <1>20, <1>21, <1>23, <1>24, <1>26, <1>27, <1>28, <1>29, <1>30, <1>31,
     <1>32, <1>33
  DEF Next, ImportStep, EndRetrieval

(* Every variable of the vault always has its type. *)
THEOREM TypeCorrect == Spec => []TypeOK
<1>1. Init => TypeOK
  BY BlankTypes, EmptyVaultType DEF Init, TypeOK
<1>. QED BY <1>1, TypeStep, PTL DEF Spec

-----------------------------------------------------------------------------
(* The activity log *)

(* A nonempty finite ranking has a highest rank. *)
LEMMA HighestRank ==
  ASSUME NEW rows \in Rows, rows # {}, NEW rank \in Rankings(rows)
  PROVE  \E r \in rows : \A q \in rows : ~(rank[q] > rank[r])
<1> DEFINE n == Cardinality(rows)
           T == {n - rank[r] : r \in rows}
<1>1. n \in Nat
  BY FS_CardinalityType DEF Rows
<1>2. \A r \in rows : rank[r] \in 1 .. n
  BY DEF Rankings
<1>3. T \subseteq Nat /\ T # {}
  BY <1>1, <1>2
<1>4. PICK t \in T : \A u \in T : ~ (<<u, t>> \in OpToRel(<, Nat))
  <2> HIDE DEF T
  <2>. QED BY <1>3, NatLessThanWellFounded, WFMin
<1>5. \A u \in T : ~(u < t)
  BY <1>3, <1>4 DEF OpToRel
<1>6. PICK r \in rows : t = n - rank[r]
  OBVIOUS
<1>7. ASSUME NEW q \in rows PROVE ~(rank[q] > rank[r])
  <2>1. ~(n - rank[q] < n - rank[r])
    BY <1>5, <1>6
  <2>2. rank[q] \in Nat /\ rank[r] \in Nat
    BY <1>2
  <2>. QED BY <1>1, <2>1, <2>2
<1>. QED BY <1>7

(* Pruning keeps a row that no other row is newer than. *)
LEMMA PruneKeepsNewest ==
  ASSUME NEW ev, NEW e \in ev, \A f \in ev : ~Newer(f, e)
  PROVE  e \in Prune(ev)
<1>1. {f \in ev : Newer(f, e)} = {}
  OBVIOUS
<1>2. Cardinality({}) < MaxRows
  BY FS_EmptySet, VaultDbAssumption
<1>. QED BY <1>1, <1>2 DEF Prune

(* An audit with the next request number logs that request, and no other   *)
(* new one.                                                                *)
LEMMA AuditLogs ==
  ASSUME NEW d \in Database, NEW n \in Nat, Requests(d.events) \subseteq 1 .. n,
         NEW rows \in Rows, NEW rank \in Rankings(rows)
  PROVE  LET new == Requests(Audited(d, n + 1, rank).events) IN
           n + 1 \in new /\ new \subseteq Requests(d.events) \cup {n + 1}
<1> DEFINE ev == d.events \cup AuditRows(n + 1, rank)
<1>1. Audited(d, n + 1, rank).events = Prune(ev)
  BY DEF Audited, Database
<1>2. DOMAIN rank = rows
  BY DEF Rankings
<1>3. \A e \in AuditRows(n + 1, rank) : e.req = n + 1
  BY DEF AuditRows
<1>4. \A e \in d.events : e.req \in 1 .. n
  BY DEF Requests
<1>5. PICK e \in AuditRows(n + 1, rank) :
        \A f \in AuditRows(n + 1, rank) : ~(f.rank > e.rank)
  <2>1. CASE rows = {}
    BY <1>2, <2>1 DEF AuditRows
  <2>2. CASE rows # {}
    <3>1. PICK r \in rows : \A q \in rows : ~(rank[q] > rank[r])
      BY <2>2, HighestRank
    <3>2. AuditRows(n + 1, rank) = {[req |-> n + 1, rank |-> rank[q], ref |-> {q}] : q \in rows}
      BY <1>2, <2>2 DEF AuditRows
    <3>3. [req |-> n + 1, rank |-> rank[r], ref |-> {r}] \in AuditRows(n + 1, rank)
      BY <3>2
    <3>4. \A f \in AuditRows(n + 1, rank) : \E q \in rows : f.rank = rank[q]
      BY <3>2
    <3>. QED BY <3>1, <3>3, <3>4
  <2>. QED BY <2>1, <2>2
<1>6. \A f \in ev : ~Newer(f, e)
  BY <1>3, <1>4, <1>5 DEF Newer
<1>7. e \in Prune(ev)
  BY <1>6, PruneKeepsNewest
<1>8. n + 1 \in Requests(Prune(ev))
  BY <1>3, <1>7 DEF Requests
<1>9. Requests(Prune(ev)) \subseteq Requests(d.events) \cup {n + 1}
  BY <1>3 DEF Requests, Prune
<1>. QED BY <1>1, <1>8, <1>9

(* Deleting documents keeps every audit row, and its request. *)
LEMMA DeleteDocsKeepsRequests ==
  ASSUME NEW d \in Database, NEW X
  PROVE  Requests(DeleteDocs(d, X).events) = Requests(d.events)
<1> DEFINE cut(e) == [e EXCEPT !.ref = {r \in @ : r.doc \notin X}]
<1>1. DeleteDocs(d, X).events = {cut(e) : e \in d.events}
  BY DEF DeleteDocs, Database
<1>2. \A e \in d.events : cut(e).req = e.req
  BY DEF Database, Events
<1> HIDE DEF cut
<1>. QED BY <1>1, <1>2 DEF Requests

(* The statements of an import leave the activity log alone. *)
LEMMA ImportKeepsEvents ==
  ASSUME NEW d \in Database
  PROVE  /\ \A s \in Sources : BeginSource(d, s).events = d.events
         /\ \A s \in Sources, stamp \in Nat : FinishSource(d, s, stamp).events = d.events
         /\ \A x \in Docs, c \in Contents : ImportPreparedFile(d, x, c).events = d.events
BY DEF Database, BeginSource, FinishSource, ImportPreparedFile

(* A step that writes neither database version, nor the write slot, nor    *)
(* the histories keeps the rest of AuditInvariant.                         *)
LEMMA QuietStep ==
  ASSUME TypeOK, AuditInvariant, UNCHANGED <<db, work, writer, requests, handed, erased>>,
         WriterIsImporting', RetrievalExcludesImport'
  PROVE  AuditInvariant'
BY DEF AuditInvariant, WriterKeepsActivity, RequestsLogged, HandedIsAudited

(* A turn of an import that stays in its transaction and leaves the        *)
(* activity log of its private version alone.                              *)
LEMMA WorkStep ==
  ASSUME TypeOK, AuditInvariant, UNCHANGED <<db, writer, call, requests, handed, erased>>,
         work'.events = work.events,
         NEW p \in Procs, imp[p].phase \in InTransaction,
         imp'[p].phase \in InTransaction, \A q \in Procs : q # p => imp'[q] = imp[q]
  PROVE  AuditInvariant'
<1>1. \A q \in Procs : imp'[q].phase \in InTransaction <=> imp[q].phase \in InTransaction
  OBVIOUS
<1>2. \A q \in Procs : Importing(q)' <=> Importing(q)
  <2>1. Importing(p) /\ Importing(p)'
    BY DEF Importing, InTransaction
  <2>. QED BY <2>1 DEF Importing
<1>3. WriterIsImporting' /\ RetrievalExcludesImport'
  BY <1>1, <1>2 DEF AuditInvariant, WriterIsImporting, RetrievalExcludesImport
<1>. QED
  BY <1>3 DEF AuditInvariant, WriterKeepsActivity, RequestsLogged, HandedIsAudited

(* Leaving the transaction without a trace: rollback and crash. *)
LEMMA LeaveStep ==
  ASSUME TypeOK, AuditInvariant, UNCHANGED <<db, requests, handed, erased>>,
         NEW p \in Procs, NEW v, v.phase \notin InTransaction,
         imp' = [imp EXCEPT ![p] = v],
         \/ v.phase = "idle" /\ call' = [call EXCEPT ![p] = NoCall]
         \/ call[p].kind = "none" /\ UNCHANGED call,
         writer' = IF writer = p THEN None ELSE writer,
         work' = IF writer = p THEN EmptyVault ELSE work
  PROVE  AuditInvariant'
<1>1. \A q \in Procs : imp'[q] = IF q = p THEN v ELSE imp[q]
  BY DEF TypeOK
<1>2. WriterIsImporting'
  BY <1>1, VaultAssumption DEF AuditInvariant, WriterIsImporting
<1>3. RetrievalExcludesImport'
  BY <1>1 DEF AuditInvariant, RetrievalExcludesImport, Importing, TypeOK, NoCall
<1>4. WriterKeepsActivity'
  BY DEF AuditInvariant, WriterKeepsActivity
<1>. QED
  BY <1>2, <1>3, <1>4 DEF AuditInvariant, RequestsLogged, HandedIsAudited

(* Every step keeps the activity log complete. *)
LEMMA AuditStep ==
  TypeOK /\ AuditInvariant /\ [Next]_vars => AuditInvariant'
<1> SUFFICES ASSUME TypeOK, AuditInvariant, [Next]_vars PROVE AuditInvariant'
  OBVIOUS
<1> USE DEF fsVars, dbVars, histVars
<1> DEFINE Unmoved == UNCHANGED <<db, work, writer, requests, handed, erased>>
           SameImports == UNCHANGED <<imp, call>>
<1>1. ASSUME Unmoved, SameImports PROVE AuditInvariant'
  BY <1>1, QuietStep
    DEF AuditInvariant, WriterIsImporting, RetrievalExcludesImport, Importing
<1>2. ASSUME NEW s \in Sources,
             ReplaceFolder(s) \/ \E f \in Files : ChangeFile(s, f)
      PROVE  AuditInvariant'
  BY <1>1, <1>2 DEF ReplaceFolder, ChangeFile
<1>3. ASSUME NEW p \in Procs,
             \/ PreviewStep(p)
             \/ \E s \in Sources : StartPreview(p, s) \/ PrepareSourcePurge(p, s)
      PROVE  AuditInvariant'
  BY <1>1, <1>3 DEF PreviewStep, StartPreview, PrepareSourcePurge
<1>4. ASSUME NEW p \in Procs, NEW scan, NEW want, BeginImport(p, scan, want)
      PROVE  AuditInvariant'
  <2>1. \A q \in Procs : q # p => imp'[q] = imp[q]
    BY <1>4 DEF BeginImport, TypeOK
  <2>2. imp'[p].phase = "scan"
    BY <1>4 DEF BeginImport, TypeOK
  <2>3. WriterIsImporting'
    <3>1. \A q \in Procs : imp[q].phase \notin InTransaction
      BY <1>4, VaultAssumption DEF BeginImport, AuditInvariant, WriterIsImporting
    <3>2. writer' = p
      BY <1>4 DEF BeginImport
    <3>. QED BY <2>1, <2>2, <3>1, <3>2 DEF WriterIsImporting, InTransaction
  <2>4. RetrievalExcludesImport'
    BY <1>4, <2>1
      DEF BeginImport, Turn, AuditInvariant, RetrievalExcludesImport, Importing
  <2>5. WriterKeepsActivity'
    BY <1>4 DEF BeginImport, WriterKeepsActivity
  <2>. QED
    BY <1>4, <2>3, <2>4, <2>5
      DEF BeginImport, AuditInvariant, RequestsLogged, HandedIsAudited
<1>5. ASSUME NEW p \in Procs,
             CommitPreparedDirectoryImport(p) \/ \E s \in Sources : ImportDirectory(p, s)
      PROVE  AuditInvariant'
  BY <1>4, <1>5 DEF CommitPreparedDirectoryImport, ImportDirectory
<1>6. ASSUME NEW p \in Procs PROVE imp[p] \in Imports /\ imp[p].scan \in Scan
  BY DEF TypeOK, Imports
<1>7. ASSUME NEW p \in Procs, AbortImport(p) PROVE AuditInvariant'
  <2>1. imp'[p].phase = imp[p].phase /\ \A q \in Procs : q # p => imp'[q] = imp[q]
    BY <1>6, <1>7 DEF AbortImport, TypeOK, Imports
  <2>. QED BY <1>7, <2>1, WorkStep DEF AbortImport
<1>8. ASSUME NEW p \in Procs, ScanFile(p) PROVE AuditInvariant'
  <2>1. imp'[p].phase = "scan" /\ \A q \in Procs : q # p => imp'[q] = imp[q]
    BY <1>6, <1>8 DEF ScanFile, Running, TypeOK, Imports
  <2>. QED BY <1>8, <2>1, WorkStep DEF ScanFile, Running, InTransaction
<1>9. ASSUME NEW p \in Procs, BeginApply(p) PROVE AuditInvariant'
  <2>1. imp'[p].phase = "apply" /\ \A q \in Procs : q # p => imp'[q] = imp[q]
    BY <1>6, <1>9 DEF BeginApply, Running, TypeOK, Imports
  <2>2. work'.events = work.events
    BY <1>6, <1>9, ImportKeepsEvents DEF BeginApply, TypeOK, Scan
  <2>. QED BY <1>9, <2>1, <2>2, WorkStep DEF BeginApply, Running, InTransaction
<1>10. ASSUME NEW p \in Procs, ApplyFile(p) PROVE AuditInvariant'
  <2> DEFINE scan == imp[p].scan
             x == <<scan.src, scan.pos>>
             c == scan.seen[scan.pos]
  <2>1. imp'[p].phase = "apply" /\ \A q \in Procs : q # p => imp'[q] = imp[q]
    BY <1>6, <1>10 DEF ApplyFile, Running, TypeOK, Imports
  <2>2. work'.events = work.events
    <3>1. CASE c = NoFile
      BY <1>10, <3>1 DEF ApplyFile
    <3>2. CASE c # NoFile
      <4>1. scan.pos \in Nat \ {0} /\ ~(scan.pos > NFiles)
        BY <1>6, <1>10 DEF ApplyFile, Scanned, Scan
      <4>2. scan.pos \in Files
        BY <4>1, VaultDbAssumption DEF Files
      <4>3. x \in Docs /\ c \in Contents
        BY <1>6, <3>2, <4>2 DEF Docs, Scan, Inventory
      <4>. QED BY <1>10, <3>2, <4>3, ImportKeepsEvents DEF ApplyFile, TypeOK
    <3>. QED BY <3>1, <3>2
  <2>. QED BY <1>10, <2>1, <2>2, WorkStep DEF ApplyFile, Running, InTransaction
<1>11. ASSUME NEW p \in Procs, FinishApply(p) PROVE AuditInvariant'
  <2>1. imp'[p].phase = "final" /\ \A q \in Procs : q # p => imp'[q] = imp[q]
    BY <1>6, <1>11 DEF FinishApply, Running, TypeOK, Imports
  <2>. QED BY <1>11, <2>1, WorkStep DEF FinishApply, Running, InTransaction
<1>12. ASSUME NEW p \in Procs, Finalize(p) PROVE AuditInvariant'
  <2>1. imp'[p].phase = "ending" /\ \A q \in Procs : q # p => imp'[q] = imp[q]
    BY <1>6, <1>12 DEF Finalize, Running, TypeOK, Imports
  <2>2. work'.events = work.events
    <3>1. 1 .. MaxStamp \subseteq Nat
      BY VaultAssumption
    <3>. QED BY <1>6, <1>12, <3>1, ImportKeepsEvents DEF Finalize, TypeOK, Scan
  <2>. QED BY <1>12, <2>1, <2>2, WorkStep DEF Finalize, Running, InTransaction
<1>13. ASSUME NEW p \in Procs, RollbackImport(p) PROVE AuditInvariant'
  <2>1. writer = p
    BY <1>13 DEF RollbackImport, AuditInvariant, WriterIsImporting
  <2>2. [NoImport EXCEPT !.phase = "settled"].phase \notin InTransaction
    BY DEF NoImport, InTransaction
  <2>. QED BY <1>13, <2>1, <2>2, LeaveStep DEF RollbackImport, Turn
<1>14. ASSUME NEW p \in Procs, ReleaseImport(p) PROVE AuditInvariant'
  <2>1. writer # p
    BY <1>14 DEF ReleaseImport, AuditInvariant, WriterIsImporting, InTransaction
  <2>2. NoImport.phase \notin InTransaction
    BY DEF NoImport, InTransaction
  <2>. QED BY <1>14, <2>1, <2>2, LeaveStep DEF ReleaseImport, Turn
<1>15. ASSUME NEW p \in Procs, Crash(p) PROVE AuditInvariant'
  <2>1. NoImport.phase = "idle" /\ NoImport.phase \notin InTransaction
    BY DEF NoImport, InTransaction
  <2>. QED BY <1>15, <2>1, LeaveStep DEF Crash
<1>16. ASSUME NEW p \in Procs, CommitImport(p) PROVE AuditInvariant'
  <2>1. writer = p
    BY <1>16 DEF CommitImport, Running, AuditInvariant, WriterIsImporting, InTransaction
  <2>2. \A q \in Procs : imp'[q] = IF q = p THEN [NoImport EXCEPT !.phase = "settled"]
                                   ELSE imp[q]
    BY <1>16 DEF CommitImport, TypeOK
  <2>3. [NoImport EXCEPT !.phase = "settled"].phase = "settled"
    BY DEF NoImport
  <2>4. WriterIsImporting'
    BY <1>16, <2>1, <2>2, <2>3, VaultAssumption
      DEF CommitImport, AuditInvariant, WriterIsImporting, InTransaction
  <2>5. RetrievalExcludesImport'
    BY <1>16, <2>2
      DEF CommitImport, Running, Turn, AuditInvariant, RetrievalExcludesImport, Importing
  <2>6. Requests(db'.events) = Requests(db.events)
    BY <1>16, <2>1, VaultAssumption DEF CommitImport, AuditInvariant, WriterKeepsActivity
  <2>7. WriterKeepsActivity'
    BY <1>16 DEF CommitImport, WriterKeepsActivity
  <2>. QED
    BY <1>16, <2>4, <2>5, <2>6, <2>7
      DEF CommitImport, AuditInvariant, RequestsLogged, HandedIsAudited
<1>17. ASSUME NEW p \in Procs, NEW kind, NEW rows, BeginRetrieval(p, kind, rows)
       PROVE  AuditInvariant'
  <2>1. RetrievalExcludesImport'
    BY <1>17
      DEF BeginRetrieval, RetrievalAuditAvailable, TypeOK, AuditInvariant,
          RetrievalExcludesImport, Importing
  <2>2. WriterIsImporting'
    BY <1>17 DEF BeginRetrieval, AuditInvariant, WriterIsImporting
  <2>. QED BY <1>17, <2>1, <2>2, QuietStep DEF BeginRetrieval
<1>18. ASSUME NEW p \in Procs, SearchVault(p) \/ FetchDocument(p) PROVE AuditInvariant'
  BY <1>17, <1>18 DEF SearchVault, FetchDocument
<1>19. ASSUME UNCHANGED <<writer, imp>>,
              UNCHANGED call \/ \E p \in Procs : call' = [call EXCEPT ![p] = NoCall]
       PROVE  WriterIsImporting' /\ RetrievalExcludesImport'
  BY <1>19
    DEF AuditInvariant, WriterIsImporting, RetrievalExcludesImport, Importing, TypeOK, NoCall
<1>20. ASSUME NEW p \in Procs, RefuseRetrieval(p) PROVE AuditInvariant'
  BY <1>19, <1>20, QuietStep DEF RefuseRetrieval
<1>21. ASSUME NEW p \in Procs, AuditAndReturn(p) PROVE AuditInvariant'
  <2>1. ~Importing(p) /\ writer # p
    BY <1>21
      DEF AuditAndReturn, AuditInvariant, RetrievalExcludesImport, WriterIsImporting,
          Importing, InTransaction
  <2>2. PICK rank \in Rankings(call[p].rows) :
          /\ WriteHere(p, Audited(View(p), requests + 1, rank))
          /\ erased' = erased \cup Dropped(View(p), Audited(View(p), requests + 1, rank))
    BY <1>21 DEF AuditAndReturn
  <2> DEFINE new == Audited(db, requests + 1, rank)
  <2>3. /\ writer = None /\ db' = new /\ UNCHANGED <<work, writer>>
        /\ erased' = erased \cup (Requests(db.events) \ Requests(new.events))
    BY <2>1, <2>2 DEF WriteHere, View, Dropped
  <2>4. call[p].rows \in Rows /\ requests \in Nat /\ db \in Database
    BY DEF TypeOK, Calls
  <2>5. /\ requests + 1 \in Requests(new.events)
        /\ Requests(new.events) \subseteq Requests(db.events) \cup {requests + 1}
    BY <2>4, AuditLogs DEF AuditInvariant, RequestsLogged
  <2> HIDE DEF new
  <2>6. requests' = requests + 1 /\ handed' = handed \cup {requests + 1}
    BY <1>21 DEF AuditAndReturn
  <2>7. HandedIsAudited'
    BY <2>3, <2>5, <2>6 DEF AuditInvariant, HandedIsAudited
  <2>8. RequestsLogged'
    BY <2>3, <2>4, <2>5, <2>6 DEF AuditInvariant, RequestsLogged
  <2>9. WriterIsImporting' /\ RetrievalExcludesImport'
    BY <1>19, <1>21, <2>3 DEF AuditAndReturn
  <2>10. WriterKeepsActivity'
    BY <2>3 DEF WriterKeepsActivity
  <2>. QED BY <2>7, <2>8, <2>9, <2>10 DEF AuditInvariant
<1>22. ASSUME UNCHANGED <<writer, imp, call, requests, handed>>, writer = None,
              Requests(db'.events) \subseteq Requests(db.events),
              erased' = erased \cup (Requests(db.events) \ Requests(db'.events))
       PROVE  AuditInvariant'
  <2>1. WriterIsImporting' /\ RetrievalExcludesImport'
    BY <1>19, <1>22
  <2>. QED
    BY <1>22, <2>1
      DEF AuditInvariant, HandedIsAudited, RequestsLogged, WriterKeepsActivity
<1>23. ASSUME NEW p \in Procs, PurgeSource(p) PROVE AuditInvariant'
  <2>1. db'.events \subseteq db.events
    BY <1>23 DEF PurgeSource, PurgeRows, TypeOK, Database
  <2>2. Requests(db'.events) \subseteq Requests(db.events)
    BY <2>1 DEF Requests
  <2>. QED BY <1>22, <1>23, <2>2 DEF PurgeSource, Dropped
<1>24. ASSUME NEW p \in Procs, ClearRetrievalActivity(p) PROVE AuditInvariant'
  <2>1. db'.events = {}
    BY <1>24 DEF ClearRetrievalActivity, ClearEvents, TypeOK, Database
  <2>2. Requests(db'.events) = {}
    BY <2>1 DEF Requests
  <2>. QED BY <1>22, <1>24, <2>2 DEF ClearRetrievalActivity
<1>25. ASSUME NEW p \in Procs, NEW x \in Docs, PurgeDocument(p, x) PROVE AuditInvariant'
  <2>1. CASE writer = p
    <3>1. work' = DeleteDocs(work, {x}) /\ UNCHANGED <<db, writer>>
      BY <1>25, <2>1 DEF PurgeDocument, WriteHere, View
    <3>2. Requests(work'.events) = Requests(work.events)
      BY <3>1, DeleteDocsKeepsRequests DEF TypeOK
    <3>3. WriterIsImporting' /\ RetrievalExcludesImport'
      BY <1>19, <1>25, <3>1 DEF PurgeDocument
    <3>. QED
      BY <1>25, <3>1, <3>2, <3>3
        DEF PurgeDocument, AuditInvariant, HandedIsAudited, RequestsLogged,
            WriterKeepsActivity
  <2>2. CASE writer # p
    <3>1. writer = None /\ db' = DeleteDocs(db, {x}) /\ UNCHANGED <<work, writer>>
      BY <1>25, <2>2 DEF PurgeDocument, WriteHere, View
    <3>2. Requests(db'.events) = Requests(db.events)
      BY <3>1, DeleteDocsKeepsRequests DEF TypeOK
    <3>. QED BY <1>22, <1>25, <3>1, <3>2 DEF PurgeDocument
  <2>. QED BY <2>1, <2>2
<1>26. CASE UNCHANGED vars
  BY <1>1, <1>26 DEF vars
<1>. QED
  BY <1>2, <1>3, <1>5, <1>7, <1>8, <1>9, <1>10, <1>11, <1>12, <1>13, <1>14, <1>15,
     <1>16, <1>18, <1>20, <1>21, <1>23, <1>24, <1>25, <1>26
  DEF Next, ImportStep, EndRetrieval

(* The write slot, the private version and the request numbers stay in the *)
(* relation that makes retrieval fail closed.                              *)
THEOREM AuditInvariantHolds == Spec => []AuditInvariant
<1>1. Init => AuditInvariant
  <2> SUFFICES ASSUME Init PROVE AuditInvariant
    OBVIOUS
  <2>1. Requests(db.events) = {}
    BY DEF Init, EmptyVault, Requests
  <2>2. \A p \in Procs : imp[p].phase = "idle" /\ call[p].kind = "none"
    BY DEF Init, NoImport, NoCall
  <2>3. WriterIsImporting
    BY <2>2, VaultAssumption DEF Init, WriterIsImporting, InTransaction
  <2>. QED
    BY <2>1, <2>2, <2>3
      DEF Init, AuditInvariant, WriterKeepsActivity, RetrievalExcludesImport,
          RequestsLogged, HandedIsAudited
<1>. QED BY <1>1, AuditStep, TypeCorrect, PTL DEF Spec

(* Every request whose results were returned is in the committed activity  *)
(* log unless a clear, a purge or the row cap removed it: no rollback,     *)
(* abort, crash or concurrent writer loses an audit entry.                 *)
THEOREM RetrievalFailsClosed == Spec => []HandedIsAudited
<1>1. AuditInvariant => HandedIsAudited
  BY DEF AuditInvariant
<1>. QED BY <1>1, AuditInvariantHolds, PTL

-----------------------------------------------------------------------------
(* Half imported sources *)

(* Only the import's own first and last statement and a source purge touch *)
(* the sources table.                                                      *)
LEMMA SourcesTable ==
  ASSUME NEW d \in Database
  PROVE  /\ \A x \in Docs, c \in Contents :
              LET n == ImportPreparedFile(d, x, c) IN
                n.present = d.present /\ n.scanned = d.scanned
         /\ \A X : LET n == DeleteDocs(d, X) IN
                n.present = d.present /\ n.scanned = d.scanned
         /\ \A req, rank : LET n == Audited(d, req, rank) IN
                n.present = d.present /\ n.scanned = d.scanned
         /\ LET n == ClearEvents(d) IN n.present = d.present /\ n.scanned = d.scanned
BY DEF Database, ImportPreparedFile, DeleteDocs, Audited, ClearEvents

(* Steps that keep both versions of the sources table, and the progress of *)
(* the writer's import.                                                    *)
LEMMA SourcesKept ==
  ASSUME HalfImportInvariant, UNCHANGED writer,
         db'.present = db.present, db'.scanned = db.scanned,
         work'.present = work.present, work'.scanned = work.scanned,
         \A p \in Procs : writer = p =>
           /\ imp'[p].scan.src = imp[p].scan.src
           /\ imp[p].phase \in {"apply", "final"} => imp'[p].phase \in {"apply", "final"}
  PROVE  HalfImportInvariant'
BY DEF HalfImportInvariant, NoHalfImportedSource

(* Every step keeps sources from being seen half imported. *)
LEMMA HalfImportStep ==
  TypeOK /\ AuditInvariant /\ HalfImportInvariant /\ [Next]_vars => HalfImportInvariant'
<1> SUFFICES ASSUME TypeOK, AuditInvariant, HalfImportInvariant, [Next]_vars
             PROVE  HalfImportInvariant'
  OBVIOUS
<1> USE DEF fsVars, dbVars, histVars
<1>1. ASSUME UNCHANGED <<db, work, writer, imp>> PROVE HalfImportInvariant'
  BY <1>1, SourcesKept
<1>2. ASSUME NEW s \in Sources,
             ReplaceFolder(s) \/ \E f \in Files : ChangeFile(s, f)
      PROVE  HalfImportInvariant'
  BY <1>1, <1>2 DEF ReplaceFolder, ChangeFile
<1>3. ASSUME NEW p \in Procs,
             \/ PreviewStep(p) \/ SearchVault(p) \/ FetchDocument(p) \/ RefuseRetrieval(p)
             \/ \E s \in Sources : StartPreview(p, s) \/ PrepareSourcePurge(p, s)
      PROVE  HalfImportInvariant'
  BY <1>1, <1>3
    DEF PreviewStep, StartPreview, PrepareSourcePurge, SearchVault, FetchDocument,
        BeginRetrieval, RefuseRetrieval
<1>4. ASSUME NEW p \in Procs,
             CommitPreparedDirectoryImport(p) \/ \E s \in Sources : ImportDirectory(p, s)
      PROVE  HalfImportInvariant'
  <2>1. UNCHANGED db /\ writer' = p /\ work' = db
    BY <1>4 DEF CommitPreparedDirectoryImport, ImportDirectory, BeginImport
  <2>. QED BY <2>1 DEF HalfImportInvariant, NoHalfImportedSource
<1>5. ASSUME NEW p \in Procs, imp[p].phase \in InTransaction
      PROVE  writer = p /\ imp[p].scan \in Scan /\ imp[p].scan.src \in Sources
  BY <1>5 DEF AuditInvariant, WriterIsImporting, TypeOK, Imports, Scan
<1>6. ASSUME NEW p \in Procs, AbortImport(p) \/ ScanFile(p) \/ FinishApply(p)
      PROVE  HalfImportInvariant'
  <2>1. /\ imp'[p].scan.src = imp[p].scan.src
        /\ imp[p].phase \in {"apply", "final"} => imp'[p].phase \in {"apply", "final"}
    <3>1. imp[p] \in Imports /\ imp[p].scan \in Scan
      BY DEF TypeOK, Imports
    <3>2. CASE AbortImport(p)
      BY <3>1, <3>2 DEF AbortImport, TypeOK, Imports
    <3>3. CASE ScanFile(p)
      <4>1. ReadNext(imp[p].scan).src = imp[p].scan.src
        BY <3>1 DEF ReadNext, Scan
      <4>. QED BY <3>1, <3>3, <4>1 DEF ScanFile, Running, TypeOK, Imports
    <3>4. CASE FinishApply(p)
      BY <3>1, <3>4 DEF FinishApply, TypeOK, Imports
    <3>. QED BY <1>6, <3>2, <3>3, <3>4
  <2>2. writer = p
    BY <1>5, <1>6 DEF AbortImport, ScanFile, FinishApply, Running, InTransaction
  <2>. QED BY <1>6, <2>1, <2>2, SourcesKept DEF AbortImport, ScanFile, FinishApply
<1>7. ASSUME NEW p \in Procs, ApplyFile(p) PROVE HalfImportInvariant'
  <2> DEFINE scan == imp[p].scan
             x == <<scan.src, scan.pos>>
             c == scan.seen[scan.pos]
  <2>1. writer = p /\ scan \in Scan /\ imp[p].phase = "apply"
    BY <1>5, <1>7 DEF ApplyFile, Running, InTransaction
  <2>2. imp'[p].scan.src = scan.src /\ imp'[p].phase = "apply"
    BY <1>7, <2>1 DEF ApplyFile, TypeOK, Imports, Scan
  <2>3. work'.present = work.present /\ work'.scanned = work.scanned
    <3>1. CASE c = NoFile
      BY <1>7, <3>1 DEF ApplyFile
    <3>2. CASE c # NoFile
      <4>1. scan.pos \in Nat \ {0} /\ ~(scan.pos > NFiles)
        BY <1>7, <2>1 DEF ApplyFile, Scanned, Scan
      <4>2. scan.pos \in Files
        BY <4>1, VaultDbAssumption DEF Files
      <4>3. x \in Docs /\ c \in Contents
        BY <2>1, <3>2, <4>2 DEF Docs, Scan, Inventory
      <4>. QED BY <1>7, <3>2, <4>3, SourcesTable DEF ApplyFile, TypeOK
    <3>. QED BY <3>1, <3>2
  <2>. QED BY <1>7, <2>1, <2>2, <2>3, SourcesKept DEF ApplyFile
<1>8. ASSUME NEW p \in Procs, BeginApply(p) PROVE HalfImportInvariant'
  <2>1. writer = p /\ imp[p].scan.src \in Sources /\ imp[p].phase = "scan"
    BY <1>5, <1>8 DEF BeginApply, Running, InTransaction
  <2>2. imp'[p].scan.src = imp[p].scan.src /\ imp'[p].phase = "apply"
    BY <1>5, <1>8, <2>1 DEF BeginApply, InTransaction, TypeOK, Imports, Scan
  <2>3. /\ work'.present = work.present \cup {imp[p].scan.src}
        /\ work'.scanned = [work.scanned EXCEPT ![imp[p].scan.src] = 0]
    BY <1>8 DEF BeginApply, BeginSource, TypeOK, Database
  <2>4. \A s \in work.present : s # imp[p].scan.src => work'.scanned[s] = work.scanned[s]
    BY <2>3 DEF TypeOK, Database
  <2>. QED
    BY <1>8, <2>1, <2>2, <2>3, <2>4
      DEF BeginApply, HalfImportInvariant, NoHalfImportedSource
<1>9. ASSUME NEW p \in Procs, Finalize(p) PROVE HalfImportInvariant'
  <2>1. writer = p /\ imp[p].scan.src \in Sources
    BY <1>5, <1>9 DEF Finalize, Running, InTransaction
  <2>2. PICK stamp \in 1 .. MaxStamp : work' = FinishSource(work, imp[p].scan.src, stamp)
    BY <1>9 DEF Finalize
  <2>3. stamp # 0
    BY VaultAssumption
  <2>4. /\ work'.present = work.present
        /\ \A s \in Sources : work'.scanned[s] =
             IF s = imp[p].scan.src THEN stamp ELSE work.scanned[s]
    BY <2>2 DEF FinishSource, TypeOK, Database
  <2>5. \A s \in work'.present : work'.scanned[s] # 0
    BY <2>1, <2>3, <2>4 DEF HalfImportInvariant, TypeOK, Database
  <2>. QED
    BY <1>9, <2>1, <2>5 DEF Finalize, HalfImportInvariant, NoHalfImportedSource
<1>10. ASSUME NEW p \in Procs, CommitImport(p) PROVE HalfImportInvariant'
  <2>1. writer = p
    BY <1>5, <1>10 DEF CommitImport, Running, InTransaction
  <2>2. \A s \in work.present : work.scanned[s] # 0
    BY <1>10, <2>1 DEF CommitImport, Running, HalfImportInvariant
  <2>. QED
    BY <1>10, <2>2, VaultAssumption
      DEF CommitImport, HalfImportInvariant, NoHalfImportedSource
<1>11. ASSUME NEW p \in Procs, RollbackImport(p) \/ Crash(p) \/ ReleaseImport(p)
       PROVE  HalfImportInvariant'
  <2>1. UNCHANGED db
    BY <1>11 DEF RollbackImport, Crash, ReleaseImport
  <2>2. \A q \in Procs : writer' = q =>
          writer = q /\ UNCHANGED work /\ imp'[q] = imp[q]
    <3>1. \A q \in Procs : q # p => imp'[q] = imp[q]
      BY <1>11 DEF RollbackImport, Crash, ReleaseImport, TypeOK
    <3>2. ReleaseImport(p) => writer # p
      BY DEF ReleaseImport, AuditInvariant, WriterIsImporting, InTransaction
    <3>. QED
      BY <1>11, <3>1, <3>2, VaultAssumption DEF RollbackImport, Crash, ReleaseImport
  <2>. QED BY <2>1, <2>2 DEF HalfImportInvariant, NoHalfImportedSource
<1>12. ASSUME NEW p \in Procs, NEW n, n.present = View(p).present,
              n.scanned = View(p).scanned, WriteHere(p, n), UNCHANGED imp
       PROVE  HalfImportInvariant'
  BY <1>12, SourcesKept DEF View, WriteHere
<1>13. ASSUME NEW p \in Procs PROVE View(p) \in Database
  BY DEF View, TypeOK
<1>14. ASSUME NEW p \in Procs, AuditAndReturn(p) PROVE HalfImportInvariant'
  <2>1. PICK rank : WriteHere(p, Audited(View(p), requests + 1, rank))
    BY <1>14 DEF AuditAndReturn
  <2>. QED BY <1>12, <1>13, <1>14, <2>1, SourcesTable DEF AuditAndReturn
<1>15. ASSUME NEW p \in Procs, NEW x \in Docs, PurgeDocument(p, x)
       PROVE  HalfImportInvariant'
  BY <1>12, <1>13, <1>15, SourcesTable DEF PurgeDocument
<1>16. ASSUME NEW p \in Procs, PurgeSource(p) PROVE HalfImportInvariant'
  <2> DEFINE s == ticket[p].token.source
  <2>1. /\ db'.present = db.present \ {s}
        /\ db'.scanned = [db.scanned EXCEPT ![s] = 0]
    BY <1>16 DEF PurgeSource, PurgeRows, TypeOK, Database
  <2>2. \A r \in db'.present : db'.scanned[r] # 0
    BY <2>1 DEF HalfImportInvariant, NoHalfImportedSource, TypeOK, Database
  <2>. QED
    BY <1>16, <2>2, VaultAssumption
      DEF PurgeSource, HalfImportInvariant, NoHalfImportedSource
<1>17. ASSUME NEW p \in Procs, ClearRetrievalActivity(p) PROVE HalfImportInvariant'
  BY <1>17, SourcesTable, SourcesKept DEF ClearRetrievalActivity, TypeOK
<1>18. CASE UNCHANGED vars
  BY <1>1, <1>18 DEF vars
<1>. QED
  BY <1>2, <1>3, <1>4, <1>6, <1>7, <1>8, <1>9, <1>10, <1>11, <1>14, <1>15, <1>16,
     <1>17, <1>18
  DEF Next, ImportStep, EndRetrieval

(* No other connection, and no state after a crash, ever shows a source    *)
(* whose import has not been finished.                                     *)
THEOREM SourcesWholeOrAbsent == Spec => []NoHalfImportedSource
<1>1. Init => HalfImportInvariant
  BY VaultAssumption
    DEF Init, EmptyVault, HalfImportInvariant, NoHalfImportedSource
<1>2. HalfImportInvariant => NoHalfImportedSource
  BY DEF HalfImportInvariant
<1>. QED BY <1>1, <1>2, HalfImportStep, AuditInvariantHolds, TypeCorrect, PTL DEF Spec

-----------------------------------------------------------------------------
(* What a step of Vault does to the committed and the private version.     *)

(* A statement that runs inside the import transaction of p. *)
ImportStatement(p, d, n) ==
  LET s == imp[p].scan.src IN
  \/ imp[p].phase = "scan" /\ n = BeginSource(d, s)
  \/ /\ imp[p].phase = "apply"
     /\ \E f \in Files, c \in Contents : n = ImportPreparedFile(d, <<s, f>>, c)
  \/ imp[p].phase = "final" /\ \E stamp \in 1 .. MaxStamp : n = FinishSource(d, s, stamp)
  \/ \E x \in Docs : n = DeleteDocs(d, {x})

(* A transaction of its own that begins and commits in one turn. *)
ShortTransaction(d, n) ==
  \/ \E s \in Sources : n = PurgeRows(d, s)
  \/ \E x \in Docs : n = DeleteDocs(d, {x})
  \/ n = ClearEvents(d)
  \/ \E rows \in Rows : \E rank \in Rankings(rows) :
       rows \subseteq d.revs /\ n = Audited(d, requests + 1, rank)

Reads == UNCHANGED <<db, work, writer>>
Begins == writer = None /\ writer' # None /\ db' = db /\ work' = db
Writes ==
  /\ UNCHANGED <<db, writer>>
  /\ \E p \in Procs : writer = p /\ ImportStatement(p, work, work')
Transacts == writer = None /\ UNCHANGED <<work, writer>> /\ ShortTransaction(db, db')
Commits == db' = work /\ writer' = None /\ work' = EmptyVault
RollsBack == db' = db /\ writer' = None /\ work' = EmptyVault

(* A file the import of p is about to apply is a file of its source, with  *)
(* a text of Contents.                                                     *)
LEMMA AppliedFile ==
  ASSUME TypeOK, NEW p \in Procs, ApplyFile(p),
         imp[p].scan.seen[imp[p].scan.pos] # NoFile
  PROVE  /\ imp[p].scan.src \in Sources /\ imp[p].scan.pos \in Files
         /\ imp[p].scan.seen[imp[p].scan.pos] \in Contents
<1>1. imp[p].scan \in Scan
  BY DEF TypeOK, Imports
<1>2. imp[p].scan.pos \in Nat \ {0} /\ ~(imp[p].scan.pos > NFiles)
  BY <1>1 DEF ApplyFile, Scanned, Scan
<1>3. imp[p].scan.pos \in Files
  BY <1>2, VaultDbAssumption DEF Files
<1>. QED BY <1>1, <1>3 DEF Scan, Inventory

(* Every step of Vault is one of these six, seen from the two versions of  *)
(* the database.                                                           *)
LEMMA VersionSteps ==
  TypeOK /\ AuditInvariant /\ [Next]_vars =>
    Reads \/ Begins \/ Writes \/ Transacts \/ Commits \/ RollsBack
<1> DEFINE Cases == Reads \/ Begins \/ Writes \/ Transacts \/ Commits \/ RollsBack
<1> SUFFICES ASSUME TypeOK, AuditInvariant, [Next]_vars PROVE Cases
  OBVIOUS
<1> USE DEF fsVars, dbVars, histVars
<1>1. ASSUME NEW s \in Sources,
             ReplaceFolder(s) \/ \E f \in Files : ChangeFile(s, f)
      PROVE  Cases
  BY <1>1 DEF ReplaceFolder, ChangeFile, Reads
<1>2. ASSUME NEW p \in Procs,
             \/ PreviewStep(p) \/ SearchVault(p) \/ FetchDocument(p) \/ RefuseRetrieval(p)
             \/ AbortImport(p) \/ ScanFile(p) \/ FinishApply(p) \/ ReleaseImport(p)
             \/ \E s \in Sources : StartPreview(p, s) \/ PrepareSourcePurge(p, s)
      PROVE  Cases
  BY <1>2
    DEF PreviewStep, StartPreview, PrepareSourcePurge, SearchVault, FetchDocument,
        BeginRetrieval, RefuseRetrieval, AbortImport, ScanFile, FinishApply,
        ReleaseImport, Reads
<1>3. ASSUME NEW p \in Procs,
             CommitPreparedDirectoryImport(p) \/ \E s \in Sources : ImportDirectory(p, s)
      PROVE  Cases
  BY <1>3, VaultAssumption
    DEF CommitPreparedDirectoryImport, ImportDirectory, BeginImport, Begins
<1>4. ASSUME NEW p \in Procs, imp[p].phase \in InTransaction PROVE writer = p
  BY <1>4 DEF AuditInvariant, WriterIsImporting
<1>5. ASSUME NEW p \in Procs, BeginApply(p) PROVE Cases
  BY <1>4, <1>5 DEF BeginApply, Running, InTransaction, Writes, ImportStatement
<1>6. ASSUME NEW p \in Procs, ApplyFile(p) PROVE Cases
  <2>1. writer = p /\ imp[p].phase = "apply"
    BY <1>4, <1>6 DEF ApplyFile, Running, InTransaction
  <2>2. CASE imp[p].scan.seen[imp[p].scan.pos] = NoFile
    BY <1>6, <2>2 DEF ApplyFile, Reads
  <2>3. CASE imp[p].scan.seen[imp[p].scan.pos] # NoFile
    BY <1>6, <2>1, <2>3, AppliedFile DEF ApplyFile, Writes, ImportStatement
  <2>. QED BY <2>2, <2>3
<1>7. ASSUME NEW p \in Procs, Finalize(p) PROVE Cases
  BY <1>4, <1>7 DEF Finalize, Running, InTransaction, Writes, ImportStatement
<1>8. ASSUME NEW p \in Procs, CommitImport(p) \/ RollbackImport(p) PROVE Cases
  BY <1>8 DEF CommitImport, RollbackImport, Commits, RollsBack
<1>9. ASSUME NEW p \in Procs, Crash(p) PROVE Cases
  BY <1>9 DEF Crash, RollsBack, Reads
<1>10. ASSUME NEW p \in Procs, AuditAndReturn(p) PROVE Cases
  <2>1. writer # p
    BY <1>10
      DEF AuditAndReturn, AuditInvariant, RetrievalExcludesImport, WriterIsImporting,
          Importing, InTransaction
  <2>2. call[p].rows \in Rows /\ call[p].rows \subseteq db.revs
    BY <1>10, <2>1 DEF AuditAndReturn, ReferencesExist, View, TypeOK, Calls
  <2>. QED
    BY <1>10, <2>1, <2>2 DEF AuditAndReturn, WriteHere, View, Transacts, ShortTransaction
<1>11. ASSUME NEW p \in Procs, NEW x \in Docs, PurgeDocument(p, x) PROVE Cases
  BY <1>11 DEF PurgeDocument, WriteHere, View, Writes, ImportStatement, Transacts,
               ShortTransaction
<1>12. ASSUME NEW p \in Procs, PurgeSource(p) PROVE Cases
  BY <1>12 DEF PurgeSource, Transacts, ShortTransaction, TypeOK, Tickets, Tokens
<1>13. ASSUME NEW p \in Procs, ClearRetrievalActivity(p) PROVE Cases
  BY <1>13 DEF ClearRetrievalActivity, Transacts, ShortTransaction
<1>14. CASE UNCHANGED vars
  BY <1>14 DEF vars, Reads
<1> HIDE DEF Cases
<1>. QED
  BY <1>1, <1>2, <1>3, <1>5, <1>6, <1>7, <1>8, <1>9, <1>10, <1>11, <1>12, <1>13, <1>14
  DEF Next, ImportStep, EndRetrieval

-----------------------------------------------------------------------------
(* Lineage *)

(* The statements that leave the revisions and their currency alone. *)
LEMMA LineageUntouched ==
  ASSUME NEW d \in Database, NEW n \in Database, CurrentIsNewest(d),
         n.cur = d.cur, n.revs = d.revs
  PROVE  CurrentIsNewest(n)
BY DEF CurrentIsNewest, CurrentOf, CurrentRevs

(* A new or changed file becomes the newest and current revision of its    *)
(* document; an unchanged one leaves the lineage alone.                    *)
LEMMA ImportKeepsLineage ==
  ASSUME NEW d \in Database, CurrentIsNewest(d), NEW x \in Docs, NEW c \in Contents
  PROVE  CurrentIsNewest(ImportPreparedFile(d, x, c))
<1>1. CASE \E r \in CurrentOf(d, x) : r.content = c
  BY <1>1 DEF ImportPreparedFile
<1>2. CASE ~\E r \in CurrentOf(d, x) : r.content = c
  <2> DEFINE new == [doc |-> x, ord |-> d.cur[x] + 1, content |-> c]
             n == ImportPreparedFile(d, x, c)
  <2>1. /\ n.revs = d.revs \cup {new}
        /\ \A y \in Docs : n.cur[y] = IF y = x THEN d.cur[x] + 1 ELSE d.cur[y]
    BY <1>2 DEF ImportPreparedFile, Database
  <2>2. new.doc = x /\ new.ord = d.cur[x] + 1
    OBVIOUS
  <2> HIDE DEF new, n
  <2>3. \A r \in d.revs : r.doc \in Docs /\ r.ord \in Nat /\ d.cur[r.doc] \in Nat
    BY DEF Database, Revisions
  <2>4. d.cur[x] \in Nat
    BY DEF Database
  <2>5. \A r \in d.revs : 1 <= r.ord /\ r.ord <= d.cur[r.doc]
    BY DEF CurrentIsNewest
  <2>6. \A r \in n.revs : 1 <= r.ord /\ r.ord <= n.cur[r.doc]
    BY <2>1, <2>2, <2>3, <2>4, <2>5
  <2>7. \A r \in d.revs : r.doc = x => r.ord # new.ord
    BY <2>2, <2>3, <2>4, <2>5
  <2>8. \A r, q \in n.revs : r.doc = q.doc /\ r.ord = q.ord => r = q
    BY <2>1, <2>2, <2>7 DEF CurrentIsNewest
  <2>9. ASSUME NEW y \in Docs, n.cur[y] # 0 PROVE CurrentOf(n, y) # {}
    <3>1. CASE y = x
      <4>1. new \in CurrentOf(n, y)
        BY <2>1, <2>2, <3>1 DEF CurrentOf, CurrentRevs
      <4>. QED BY <4>1
    <3>2. CASE y # x
      <4>1. PICK r \in CurrentOf(d, y) : TRUE
        BY <2>1, <2>9, <3>2 DEF CurrentIsNewest
      <4>2. r \in CurrentOf(n, y)
        BY <2>1, <2>3, <3>2, <4>1 DEF CurrentOf, CurrentRevs
      <4>. QED BY <4>2
    <3>. QED BY <3>1, <3>2
  <2>. QED BY <2>6, <2>8, <2>9 DEF CurrentIsNewest, n
<1>. QED BY <1>1, <1>2

(* Removing whole documents, by a document or a source purge, leaves every *)
(* other lineage intact.                                                   *)
LEMMA RemovalKeepsLineage ==
  ASSUME NEW d \in Database, CurrentIsNewest(d), NEW n, NEW X,
         n.cur = [y \in Docs |-> IF y \in X THEN 0 ELSE d.cur[y]],
         n.revs = {r \in d.revs : r.doc \notin X}
  PROVE  CurrentIsNewest(n)
<1>1. \A r \in d.revs : r.doc \in Docs
  BY DEF Database, Revisions
<1>2. \A r \in n.revs : r \in d.revs /\ n.cur[r.doc] = d.cur[r.doc]
  BY <1>1
<1>3. ASSUME NEW y \in Docs, n.cur[y] # 0 PROVE CurrentOf(n, y) # {}
  <2>1. y \notin X /\ n.cur[y] = d.cur[y]
    BY <1>3
  <2>2. PICK r \in CurrentOf(d, y) : TRUE
    BY <1>3, <2>1 DEF CurrentIsNewest
  <2>3. r \in CurrentOf(n, y)
    BY <1>1, <2>1, <2>2 DEF CurrentOf, CurrentRevs
  <2>. QED BY <2>3
<1>. QED BY <1>2, <1>3 DEF CurrentIsNewest

(* Every step keeps the lineage of both versions. *)
LEMMA LineageStep ==
  TypeOK /\ AuditInvariant /\ LineageInvariant /\ [Next]_vars => LineageInvariant'
<1> SUFFICES ASSUME TypeOK, AuditInvariant, LineageInvariant, [Next]_vars
             PROVE  LineageInvariant'
  OBVIOUS
<1>1. CurrentIsNewest(EmptyVault)
  BY DEF CurrentIsNewest, EmptyVault
<1>2. db \in Database /\ work \in Database
  BY DEF TypeOK
<1>3. ASSUME NEW d \in Database, CurrentIsNewest(d), NEW X
      PROVE  CurrentIsNewest(DeleteDocs(d, X))
  <2>1. /\ DeleteDocs(d, X).cur = [y \in Docs |-> IF y \in X THEN 0 ELSE d.cur[y]]
        /\ DeleteDocs(d, X).revs = {r \in d.revs : r.doc \notin X}
    BY DEF DeleteDocs, Database
  <2>. QED BY <1>3, <2>1, RemovalKeepsLineage
<1>4. CASE Writes
  <2>1. PICK p \in Procs : writer = p /\ ImportStatement(p, work, work')
    BY <1>4 DEF Writes
  <2> DEFINE s == imp[p].scan.src
  <2>2. s \in Sources
    BY DEF TypeOK, Imports, Scan
  <2>3. CASE work' = BeginSource(work, s)
    <3>1. 0 \in Nat
      OBVIOUS
    <3>2. BeginSource(work, s) \in Database
      BY <1>2, <2>2, <3>1, SourceType
    <3>3. work'.cur = work.cur /\ work'.revs = work.revs
      BY <1>2, <2>3 DEF BeginSource, Database
    <3>. QED BY <1>2, <1>4, <2>3, <3>2, <3>3, LineageUntouched DEF LineageInvariant, Writes
  <2>4. ASSUME NEW f \in Files, NEW c \in Contents,
               work' = ImportPreparedFile(work, <<s, f>>, c)
        PROVE  LineageInvariant'
    <3>1. <<s, f>> \in Docs
      BY <2>2 DEF Docs
    <3>. QED BY <1>2, <1>4, <2>4, <3>1, ImportKeepsLineage DEF LineageInvariant, Writes
  <2>5. ASSUME NEW stamp \in 1 .. MaxStamp, work' = FinishSource(work, s, stamp)
        PROVE  LineageInvariant'
    <3>1. stamp \in Nat
      BY VaultAssumption
    <3>2. work' \in Database /\ work'.cur = work.cur /\ work'.revs = work.revs
      BY <1>2, <2>2, <2>5, <3>1, SourceType DEF FinishSource, Database
    <3>. QED BY <1>2, <1>4, <3>2, LineageUntouched DEF LineageInvariant, Writes
  <2>6. ASSUME NEW x \in Docs, work' = DeleteDocs(work, {x})
        PROVE  LineageInvariant'
    BY <1>2, <1>3, <1>4, <2>6 DEF LineageInvariant, Writes
  <2>. QED BY <2>1, <2>3, <2>4, <2>5, <2>6 DEF ImportStatement
<1>5. CASE Transacts
  <2>1. ASSUME NEW s \in Sources, db' = PurgeRows(db, s) PROVE LineageInvariant'
    <3>1. /\ db'.cur = [y \in Docs |-> IF y \in DocsOf(s) THEN 0 ELSE db.cur[y]]
          /\ db'.revs = {r \in db.revs : r.doc \notin DocsOf(s)}
      BY <1>2, <2>1 DEF PurgeRows, Database
    <3>. QED BY <1>2, <1>5, <3>1, RemovalKeepsLineage DEF LineageInvariant, Transacts
  <2>2. ASSUME NEW x \in Docs, db' = DeleteDocs(db, {x}) PROVE LineageInvariant'
    BY <1>2, <1>3, <1>5, <2>2 DEF LineageInvariant, Transacts
  <2>3. ASSUME db' = ClearEvents(db) PROVE LineageInvariant'
    <3>1. db' \in Database /\ db'.cur = db.cur /\ db'.revs = db.revs
      BY <1>2, <2>3, ClearType DEF ClearEvents, Database
    <3>. QED BY <1>2, <1>5, <3>1, LineageUntouched DEF LineageInvariant, Transacts
  <2>4. ASSUME NEW rows \in Rows, NEW rank \in Rankings(rows),
               db' = Audited(db, requests + 1, rank)
        PROVE  LineageInvariant'
    <3>1. requests + 1 \in Nat /\ rows \in SUBSET Revisions
      BY DEF TypeOK, Rows
    <3>2. db' \in Database
      BY <1>2, <2>4, <3>1, AuditedType
    <3>3. db'.cur = db.cur /\ db'.revs = db.revs
      BY <1>2, <2>4 DEF Audited, Database
    <3>. QED BY <1>2, <1>5, <3>2, <3>3, LineageUntouched DEF LineageInvariant, Transacts
  <2>. QED BY <1>5, <2>1, <2>2, <2>3, <2>4 DEF Transacts, ShortTransaction
<1>6. CASE Reads \/ Begins \/ Commits \/ RollsBack
  BY <1>1, <1>6 DEF LineageInvariant, Reads, Begins, Commits, RollsBack
<1>. QED BY <1>4, <1>5, <1>6, VersionSteps

(* The lineage of both versions is intact in every reachable state. *)
THEOREM LineageInvariantHolds == Spec => []LineageInvariant
<1>1. Init => LineageInvariant
  BY DEF Init, EmptyVault, LineageInvariant, CurrentIsNewest
<1>. QED BY <1>1, LineageStep, AuditInvariantHolds, TypeCorrect, PTL DEF Spec

(* Every document's current revision is its newest, and there is one,      *)
(* whatever imports, aborts, purges and crashes interleave: no constraint  *)
(* of schema.ts states it, only the statements of vault.ts keep it.        *)
THEOREM LineageAlwaysIntact == Spec => []LineageIntact
<1>1. LineageInvariant => LineageIntact
  BY DEF LineageInvariant, LineageIntact
<1>. QED BY <1>1, LineageInvariantHolds, PTL

-----------------------------------------------------------------------------
(* References *)

(* The statements that touch neither documents nor revisions and add no    *)
(* reference keep every reference, as long as no source row disappears.    *)
LEMMA RowsUntouched ==
  ASSUME NEW d \in Database, NEW n, NoOrphans(d), n.cur = d.cur, n.revs = d.revs,
         d.present \subseteq n.present, \A e \in n.events : e.ref \subseteq d.revs
  PROVE  NoOrphans(n)
BY DEF NoOrphans

(* A prepared file of a source that has a row leaves no orphan. *)
LEMMA ImportKeepsRows ==
  ASSUME NEW d \in Database, NoOrphans(d), NEW x \in Docs, NEW c \in Contents,
         x[1] \in d.present
  PROVE  NoOrphans(ImportPreparedFile(d, x, c))
<1>1. CASE \E r \in CurrentOf(d, x) : r.content = c
  BY <1>1 DEF ImportPreparedFile
<1>2. CASE ~\E r \in CurrentOf(d, x) : r.content = c
  <2> DEFINE new == [doc |-> x, ord |-> d.cur[x] + 1, content |-> c]
             n == ImportPreparedFile(d, x, c)
  <2>1. /\ n.revs = d.revs \cup {new} /\ n.present = d.present /\ n.events = d.events
        /\ \A y \in Docs : n.cur[y] = IF y = x THEN d.cur[x] + 1 ELSE d.cur[y]
    BY <1>2 DEF ImportPreparedFile, Database
  <2>2. new.doc = x
    OBVIOUS
  <2>3. d.cur[x] \in Nat /\ \A r \in d.revs : r.doc \in Docs
    BY DEF Database, Revisions
  <2> HIDE DEF new, n
  <2>4. n.cur[x] # 0
    BY <2>1, <2>3
  <2>. QED BY <2>1, <2>2, <2>3, <2>4 DEF NoOrphans, n
<1>. QED BY <1>1, <1>2

(* Deleting documents takes their revisions and clears the references to   *)
(* them.                                                                   *)
LEMMA DeleteKeepsRows ==
  ASSUME NEW d \in Database, NoOrphans(d), NEW X
  PROVE  NoOrphans(DeleteDocs(d, X))
<1> DEFINE n == DeleteDocs(d, X)
<1>1. /\ n.present = d.present
      /\ n.cur = [y \in Docs |-> IF y \in X THEN 0 ELSE d.cur[y]]
      /\ n.revs = {r \in d.revs : r.doc \notin X}
      /\ n.events = {[e EXCEPT !.ref = {r \in @ : r.doc \notin X}] : e \in d.events}
  BY DEF DeleteDocs, Database
<1>2. \A r \in d.revs : r.doc \in Docs
  BY DEF Database, Revisions
<1>3. ASSUME NEW e \in n.events PROVE e.ref \subseteq n.revs
  <2>1. PICK f \in d.events : e = [f EXCEPT !.ref = {r \in @ : r.doc \notin X}]
    BY <1>1
  <2>2. f \in Events
    BY DEF Database
  <2>3. e.ref = {r \in f.ref : r.doc \notin X}
    BY <2>1, <2>2 DEF Events
  <2>. QED BY <1>1, <2>3 DEF NoOrphans
<1> HIDE DEF n
<1>. QED BY <1>1, <1>2, <1>3 DEF NoOrphans, n

(* A source purge takes the documents and revisions of the source, and     *)
(* with them every audit row that refers to one.                           *)
LEMMA PurgeKeepsRows ==
  ASSUME NEW d \in Database, NoOrphans(d), NEW s \in Sources
  PROVE  NoOrphans(PurgeRows(d, s))
<1> DEFINE n == PurgeRows(d, s)
<1>1. /\ n.present = d.present \ {s}
      /\ n.cur = [y \in Docs |-> IF y \in DocsOf(s) THEN 0 ELSE d.cur[y]]
      /\ n.revs = {r \in d.revs : r.doc \notin DocsOf(s)}
      /\ n.events = d.events \ EventsOf(d, s)
  BY DEF PurgeRows, Database
<1>2. \A r \in d.revs : r.doc \in Docs
  BY DEF Database, Revisions
<1>3. \A y \in Docs : y[1] = s => y \in DocsOf(s)
  BY DEF Docs, DocsOf
<1> HIDE DEF n
<1>4. \A e \in n.events : e.ref \subseteq n.revs
  BY <1>1 DEF EventsOf, NoOrphans
<1>5. \A y \in Docs : n.cur[y] # 0 => y[1] \in n.present
  BY <1>1, <1>3 DEF NoOrphans
<1>6. \A r \in n.revs : n.cur[r.doc] # 0
  BY <1>1, <1>2 DEF NoOrphans
<1>. QED BY <1>4, <1>5, <1>6 DEF NoOrphans, n

(* The rows an audit adds refer to the returned revisions only. *)
LEMMA AuditRefs ==
  ASSUME NEW d \in Database, NEW req \in Nat, NEW rows \in Rows, NEW rank \in Rankings(rows)
  PROVE  /\ Audited(d, req, rank).cur = d.cur /\ Audited(d, req, rank).revs = d.revs
         /\ Audited(d, req, rank).present = d.present
         /\ \A e \in Audited(d, req, rank).events : e \in d.events \/ e.ref \subseteq rows
<1> DEFINE n == Audited(d, req, rank)
<1>1. /\ n.cur = d.cur /\ n.revs = d.revs /\ n.present = d.present
      /\ n.events = Prune(d.events \cup AuditRows(req, rank))
  BY DEF Audited, Database
<1>2. DOMAIN rank = rows
  BY DEF Rankings
<1>3. \A e \in AuditRows(req, rank) : e.ref \subseteq rows
  BY <1>2 DEF AuditRows
<1>. QED BY <1>1, <1>3 DEF Prune

(* The source an import writes to gets its row first and keeps it.         *)
LEMMA ImportedSourceKept ==
  ASSUME TypeOK, AuditInvariant, RowsInvariant, [Next]_vars,
         NEW p \in Procs, imp'[p].phase \in Applying
  PROVE  imp'[p].scan.src \in work'.present
<1> USE DEF fsVars, dbVars, histVars
<1>1. \A q \in Procs : imp[q] \in Imports /\ imp[q].scan \in Scan
  BY DEF TypeOK, Imports
<1>2. \A q \in Procs : imp[q].phase \in InTransaction => writer = q
  BY DEF AuditInvariant, WriterIsImporting
<1>3. work \in Database
  BY DEF TypeOK
<1>4. ASSUME imp'[p].scan.src = imp[p].scan.src, imp[p].phase \in Applying,
             work.present \subseteq work'.present
      PROVE  imp'[p].scan.src \in work'.present
  BY <1>4 DEF RowsInvariant
<1>5. ASSUME imp'[p] = imp[p], work'.present = work.present
      PROVE  imp'[p].scan.src \in work'.present
  BY <1>5 DEF RowsInvariant
<1>6. ASSUME NEW q \in Procs,
             CommitPreparedDirectoryImport(q) \/ \E s \in Sources : ImportDirectory(q, s)
      PROVE  imp'[p].scan.src \in work'.present
  <2>1. /\ writer = None /\ imp'[q].phase = "scan"
        /\ \A o \in Procs : o # q => imp'[o] = imp[o]
    BY <1>6 DEF CommitPreparedDirectoryImport, ImportDirectory, BeginImport, TypeOK
  <2>. QED BY <1>2, <2>1, VaultAssumption DEF Applying, InTransaction
<1>7. ASSUME NEW q \in Procs, BeginApply(q) PROVE imp'[p].scan.src \in work'.present
  <2>1. writer = q
    BY <1>2, <1>7 DEF BeginApply, Running, InTransaction
  <2>2. imp'[q].scan.src = imp[q].scan.src /\ \A o \in Procs : o # q => imp'[o] = imp[o]
    BY <1>1, <1>7 DEF BeginApply, TypeOK, Imports, Scan
  <2>3. p = q
    BY <1>2, <2>1, <2>2 DEF Applying, InTransaction
  <2>4. work'.present = work.present \cup {imp[q].scan.src}
    BY <1>3, <1>7 DEF BeginApply, BeginSource, Database
  <2>. QED BY <2>2, <2>3, <2>4
<1>8. ASSUME NEW q \in Procs,
             AbortImport(q) \/ ScanFile(q) \/ ApplyFile(q) \/ FinishApply(q) \/ Finalize(q)
      PROVE  imp'[p].scan.src \in work'.present
  <2>1. \A o \in Procs : o # q => imp'[o] = imp[o]
    BY <1>8 DEF AbortImport, ScanFile, ApplyFile, FinishApply, Finalize, TypeOK
  <2>2. work'.present = work.present
    <3>1. CASE ApplyFile(q)
      <4>1. CASE imp[q].scan.seen[imp[q].scan.pos] = NoFile
        BY <3>1, <4>1 DEF ApplyFile
      <4>2. CASE imp[q].scan.seen[imp[q].scan.pos] # NoFile
        <5>1. /\ <<imp[q].scan.src, imp[q].scan.pos>> \in Docs
              /\ imp[q].scan.seen[imp[q].scan.pos] \in Contents
          BY <3>1, <4>2, AppliedFile DEF Docs
        <5>2. work' = ImportPreparedFile(work, <<imp[q].scan.src, imp[q].scan.pos>>,
                                         imp[q].scan.seen[imp[q].scan.pos])
          BY <3>1, <4>2 DEF ApplyFile
        <5>. DEFINE x == <<imp[q].scan.src, imp[q].scan.pos>>
                    c == imp[q].scan.seen[imp[q].scan.pos]
        <5>3. work' = ImportPreparedFile(work, x, c) /\ x \in Docs /\ c \in Contents
          BY <5>1, <5>2
        <5>. HIDE DEF x, c
        <5>. QED BY <1>3, <5>3, SourcesTable
      <4>. QED BY <4>1, <4>2
    <3>2. CASE Finalize(q)
      BY <1>3, <3>2 DEF Finalize, FinishSource, Database
    <3>3. CASE AbortImport(q) \/ ScanFile(q) \/ FinishApply(q)
      BY <3>3 DEF AbortImport, ScanFile, FinishApply
    <3>. QED BY <1>8, <3>1, <3>2, <3>3
  <2>3. imp'[q].scan.src = imp[q].scan.src
        /\ (imp'[q].phase \in Applying => imp[q].phase \in Applying)
    <3>1. CASE AbortImport(q)
      BY <1>1, <3>1 DEF AbortImport, TypeOK, Imports
    <3>2. CASE ScanFile(q)
      <4>1. ReadNext(imp[q].scan).src = imp[q].scan.src
        BY <1>1 DEF ReadNext, Scan
      <4>. QED BY <1>1, <3>2, <4>1 DEF ScanFile, Running, TypeOK, Imports
    <3>3. CASE ApplyFile(q)
      BY <1>1, <3>3 DEF ApplyFile, TypeOK, Imports, Scan
    <3>4. CASE FinishApply(q)
      BY <1>1, <3>4 DEF FinishApply, Running, TypeOK, Imports, Applying
    <3>5. CASE Finalize(q)
      BY <1>1, <3>5 DEF Finalize, Running, TypeOK, Imports, Applying
    <3>. QED BY <1>8, <3>1, <3>2, <3>3, <3>4, <3>5
  <2>. QED BY <1>4, <1>5, <2>1, <2>2, <2>3
<1>9. ASSUME NEW q \in Procs,
             CommitImport(q) \/ RollbackImport(q) \/ ReleaseImport(q) \/ Crash(q)
      PROVE  imp'[p].scan.src \in work'.present
  <2>1. /\ imp'[q].phase \notin Applying
        /\ \A o \in Procs : o # q => imp'[o] = imp[o]
    BY <1>9 DEF CommitImport, RollbackImport, ReleaseImport, Crash, TypeOK, NoImport, Applying
  <2>2. imp'[p] = imp[p] /\ writer = p /\ p # q
    BY <1>2, <2>1 DEF Applying, InTransaction
  <2>3. work' = work
    BY <1>2, <1>9, <2>2
      DEF CommitImport, RollbackImport, ReleaseImport, Crash, Running, InTransaction
  <2>. QED BY <1>5, <2>2, <2>3
<1>10. ASSUME NEW q \in Procs, AuditAndReturn(q) PROVE imp'[p].scan.src \in work'.present
  <2>1. writer # q
    BY <1>2, <1>10
      DEF AuditAndReturn, AuditInvariant, RetrievalExcludesImport, WriterIsImporting,
          Importing, InTransaction
  <2>2. work' = work /\ imp' = imp
    BY <1>10, <2>1 DEF AuditAndReturn, WriteHere
  <2>. QED BY <1>5, <2>2
<1>11. ASSUME NEW q \in Procs, NEW x \in Docs, PurgeDocument(q, x)
       PROVE  imp'[p].scan.src \in work'.present
  <2>1. imp' = imp /\ work'.present = work.present
    BY <1>3, <1>11, SourcesTable DEF PurgeDocument, WriteHere, View
  <2>. QED BY <1>5, <2>1
<1>12. ASSUME UNCHANGED <<work, imp>> PROVE imp'[p].scan.src \in work'.present
  BY <1>5, <1>12
<1>. QED
  BY <1>6, <1>7, <1>8, <1>9, <1>10, <1>11, <1>12
  DEF Next, ImportStep, EndRetrieval, vars, ChangeFile, ReplaceFolder, StartPreview,
      PreviewStep, SearchVault, FetchDocument, BeginRetrieval, RefuseRetrieval,
      PrepareSourcePurge, PurgeSource, ClearRetrievalActivity

(* Every step keeps the references of both versions. *)
LEMMA RowsStep ==
  TypeOK /\ AuditInvariant /\ RowsInvariant /\ [Next]_vars => RowsInvariant'
<1> SUFFICES ASSUME TypeOK, AuditInvariant, RowsInvariant, [Next]_vars
             PROVE  NoOrphans(db)' /\ NoOrphans(work)'
  BY ImportedSourceKept DEF RowsInvariant
<1>1. db \in Database /\ work \in Database /\ NoOrphans(db) /\ NoOrphans(work)
  BY DEF TypeOK, RowsInvariant
<1>2. NoOrphans(EmptyVault)
  BY DEF NoOrphans, EmptyVault
<1>3. CASE Writes
  <2>1. PICK p \in Procs : writer = p /\ ImportStatement(p, work, work')
    BY <1>3 DEF Writes
  <2> DEFINE s == imp[p].scan.src
  <2>2. s \in Sources
    BY DEF TypeOK, Imports, Scan
  <2>3. \A e \in work.events : e.ref \subseteq work.revs
    BY <1>1 DEF NoOrphans
  <2>4. CASE work' = BeginSource(work, s)
    <3>1. /\ work'.cur = work.cur /\ work'.revs = work.revs /\ work'.events = work.events
          /\ work.present \subseteq work'.present
      BY <1>1, <2>4 DEF BeginSource, Database
    <3>. QED BY <1>1, <1>3, <2>3, <3>1, RowsUntouched DEF Writes
  <2>5. ASSUME NEW f \in Files, NEW c \in Contents, imp[p].phase = "apply",
               work' = ImportPreparedFile(work, <<s, f>>, c)
        PROVE  NoOrphans(db)' /\ NoOrphans(work)'
    <3>1. <<s, f>> \in Docs /\ <<s, f>>[1] \in work.present
      BY <2>2, <2>5 DEF Docs, RowsInvariant, Applying
    <3>. QED BY <1>1, <1>3, <2>5, <3>1, ImportKeepsRows DEF Writes
  <2>6. ASSUME NEW stamp \in 1 .. MaxStamp, work' = FinishSource(work, s, stamp)
        PROVE  NoOrphans(db)' /\ NoOrphans(work)'
    <3>1. /\ work'.cur = work.cur /\ work'.revs = work.revs /\ work'.events = work.events
          /\ work.present \subseteq work'.present
      BY <1>1, <2>6 DEF FinishSource, Database
    <3>. QED BY <1>1, <1>3, <2>3, <3>1, RowsUntouched DEF Writes
  <2>7. ASSUME NEW x \in Docs, work' = DeleteDocs(work, {x})
        PROVE  NoOrphans(db)' /\ NoOrphans(work)'
    BY <1>1, <1>3, <2>7, DeleteKeepsRows DEF Writes
  <2>. QED BY <2>1, <2>4, <2>5, <2>6, <2>7 DEF ImportStatement
<1>4. CASE Transacts
  <2>1. ASSUME NEW s \in Sources, db' = PurgeRows(db, s)
        PROVE  NoOrphans(db)' /\ NoOrphans(work)'
    BY <1>1, <1>4, <2>1, PurgeKeepsRows DEF Transacts
  <2>2. ASSUME NEW x \in Docs, db' = DeleteDocs(db, {x})
        PROVE  NoOrphans(db)' /\ NoOrphans(work)'
    BY <1>1, <1>4, <2>2, DeleteKeepsRows DEF Transacts
  <2>3. ASSUME db' = ClearEvents(db) PROVE NoOrphans(db)' /\ NoOrphans(work)'
    <3>1. /\ db'.cur = db.cur /\ db'.revs = db.revs /\ db'.events = {}
          /\ db'.present = db.present
      BY <1>1, <2>3 DEF ClearEvents, Database
    <3>. QED BY <1>1, <1>4, <3>1, RowsUntouched DEF Transacts
  <2>4. ASSUME NEW rows \in Rows, NEW rank \in Rankings(rows), rows \subseteq db.revs,
               db' = Audited(db, requests + 1, rank)
        PROVE  NoOrphans(db)' /\ NoOrphans(work)'
    <3>1. requests + 1 \in Nat
      BY DEF TypeOK
    <3>2. /\ db'.cur = db.cur /\ db'.revs = db.revs /\ db'.present = db.present
          /\ \A e \in db'.events : e \in db.events \/ e.ref \subseteq rows
      BY <1>1, <2>4, <3>1, AuditRefs
    <3>3. \A e \in db'.events : e.ref \subseteq db.revs
      BY <1>1, <2>4, <3>2 DEF NoOrphans
    <3>. QED BY <1>1, <1>4, <3>2, <3>3, RowsUntouched DEF Transacts
  <2>. QED BY <1>4, <2>1, <2>2, <2>3, <2>4 DEF Transacts, ShortTransaction
<1>5. CASE Reads \/ Begins \/ Commits \/ RollsBack
  BY <1>1, <1>2, <1>5 DEF Reads, Begins, Commits, RollsBack
<1>. QED BY <1>3, <1>4, <1>5, VersionSteps

(* The foreign keys, and the references from audit rows that the schema    *)
(* clears instead of cascading, hold in every committed state.             *)
THEOREM ReferencesAlwaysResolve == Spec => []NoOrphanRows
<1>1. Init => RowsInvariant
  BY DEF Init, EmptyVault, RowsInvariant, NoOrphans, NoImport, Applying
<1>2. RowsInvariant => NoOrphanRows
  BY DEF RowsInvariant, NoOrphanRows
<1>. QED BY <1>1, <1>2, RowsStep, AuditInvariantHolds, TypeCorrect, PTL DEF Spec

-----------------------------------------------------------------------------
(* The row cap *)

(* A nonempty set of naturals has a least element. *)
LEMMA LeastNatural ==
  ASSUME NEW S \in SUBSET Nat, S # {}
  PROVE  \E m \in S : \A n \in S : m <= n
<1>1. PICK m \in S : \A n \in S : ~ (<<n, m>> \in OpToRel(<, Nat))
  BY NatLessThanWellFounded, WFMin
<1>2. \A n \in S : ~(n < m)
  BY <1>1 DEF OpToRel
<1>. QED BY <1>2

(* In a nonempty set of audit rows there is one that no other is older     *)
(* than.                                                                   *)
LEMMA OldestRow ==
  ASSUME NEW ev \in SUBSET Events, ev # {}
  PROVE  \E e \in ev : \A f \in ev : ~Newer(e, f)
<1> DEFINE reqs == {e.req : e \in ev}
<1>1. \A e \in ev : e.req \in Nat /\ e.rank \in Nat
  BY DEF Events
<1>2. PICK m \in reqs : \A n \in reqs : m <= n
  <2>1. reqs \in SUBSET Nat /\ reqs # {}
    BY <1>1
  <2> HIDE DEF reqs
  <2>. QED BY <2>1, LeastNatural
<1> DEFINE ranks == {e.rank : e \in {f \in ev : f.req = m}}
<1>3. PICK k \in ranks : \A n \in ranks : k <= n
  <2>1. ranks \in SUBSET Nat /\ ranks # {}
    BY <1>1
  <2> HIDE DEF ranks
  <2>. QED BY <2>1, LeastNatural
<1>4. PICK e \in ev : e.req = m /\ e.rank = k
  OBVIOUS
<1>5. ASSUME NEW f \in ev PROVE ~Newer(e, f)
  <2>1. e.req <= f.req
    BY <1>2, <1>4
  <2>2. f.req = e.req => e.rank <= f.rank
    BY <1>3, <1>4
  <2>. QED BY <1>1, <2>1, <2>2 DEF Newer
<1>. QED BY <1>5

(* Pruning keeps at most MaxRows rows, given that no two share a request   *)
(* and a rank.                                                             *)
LEMMA PruneBounds ==
  ASSUME NEW ev \in SUBSET Events, IsFiniteSet(ev),
         \A e, f \in ev : e.req = f.req /\ e.rank = f.rank => e = f
  PROVE  IsFiniteSet(Prune(ev)) /\ Cardinality(Prune(ev)) <= MaxRows
<1>1. Prune(ev) \in SUBSET ev
  BY DEF Prune
<1>2. IsFiniteSet(Prune(ev)) /\ Cardinality(Prune(ev)) \in Nat
  BY <1>1, FS_Subset, FS_CardinalityType
<1>3. CASE Prune(ev) = {}
  BY <1>2, <1>3, FS_EmptySet, VaultDbAssumption
<1>4. CASE Prune(ev) # {}
  <2>1. Prune(ev) \in SUBSET Events
    BY <1>1
  <2>2. PICK e \in Prune(ev) : \A f \in Prune(ev) : ~Newer(e, f)
    BY <1>4, <2>1, OldestRow
  <2> DEFINE newer == {f \in ev : Newer(f, e)}
             rest == Prune(ev) \ {e}
  <2>3. Cardinality(newer) < MaxRows
    BY DEF Prune
  <2>4. rest \subseteq newer
    <3>1. ASSUME NEW f \in rest PROVE Newer(f, e)
      <4>1. f \in ev /\ e \in ev /\ f # e /\ ~Newer(e, f)
        BY <1>1, <2>2
      <4>2. e.req \in Nat /\ e.rank \in Nat /\ f.req \in Nat /\ f.rank \in Nat
        BY <4>1 DEF Events
      <4>3. f.req # e.req \/ f.rank # e.rank
        BY <4>1
      <4>. QED BY <4>1, <4>2, <4>3 DEF Newer
    <3>. QED BY <1>1, <3>1
  <2>5. newer \in SUBSET ev
    OBVIOUS
  <2> HIDE DEF newer
  <2>6. IsFiniteSet(newer) /\ Cardinality(newer) \in Nat
    BY <2>5, FS_Subset, FS_CardinalityType
  <2>7. Cardinality(rest) <= Cardinality(newer)
    BY <2>4, <2>6, FS_Subset
  <2>8. Cardinality(rest) = Cardinality(Prune(ev)) - 1
    BY <1>2, FS_RemoveElement
  <2> HIDE DEF rest
  <2>. QED BY <1>2, <2>3, <2>6, <2>7, <2>8, VaultDbAssumption
<1>. QED BY <1>3, <1>4

(* The rows of one audit are finitely many and numbered injectively. *)
LEMMA AuditRowsNumbered ==
  ASSUME NEW req \in Nat, NEW rows \in Rows, NEW rank \in Rankings(rows)
  PROVE  /\ AuditRows(req, rank) \in SUBSET Events /\ IsFiniteSet(AuditRows(req, rank))
         /\ \A e \in AuditRows(req, rank) : e.req = req
         /\ \A e, f \in AuditRows(req, rank) : e.rank = f.rank => e = f
<1>1. /\ DOMAIN rank = rows /\ rows \in SUBSET Revisions /\ IsFiniteSet(rows)
      /\ \A r \in rows : rank[r] \in 1 .. Cardinality(rows)
      /\ \A r, q \in rows : r # q => rank[r] # rank[q]
  BY DEF Rankings, Rows
<1>2. \A r \in rows : rank[r] \in Nat
  BY <1>1
<1>3. CASE rows = {}
  <2>1. AuditRows(req, rank) = {[req |-> req, rank |-> 0, ref |-> {}]}
    BY <1>1, <1>3 DEF AuditRows
  <2> DEFINE only == [req |-> req, rank |-> 0, ref |-> {}]
  <2>2. only \in Events /\ only.req = req
    BY DEF Events
  <2> HIDE DEF only
  <2>3. AuditRows(req, rank) = {only}
    BY <2>1 DEF only
  <2>4. IsFiniteSet({only})
    BY FS_Singleton
  <2>. QED BY <2>2, <2>3, <2>4
<1>4. CASE rows # {}
  <2> DEFINE row(r) == [req |-> req, rank |-> rank[r], ref |-> {r}]
             numbered == [r \in rows |-> row(r)]
             T == {row(r) : r \in rows}
  <2>1. AuditRows(req, rank) = T
    BY <1>1, <1>4 DEF AuditRows
  <2>2. numbered \in Surjection(rows, T)
    BY DEF Surjection
  <2>3. IsFiniteSet(T)
    <3> HIDE DEF numbered, T
    <3>. QED BY <1>1, <2>2, FS_Surjection
  <2>4. \A r \in rows : row(r) \in Events
    BY <1>1, <1>2 DEF Events
  <2>5. \A e \in T : e.req = req
    OBVIOUS
  <2>6. \A e, g \in T : e.rank = g.rank => e = g
    BY <1>1
  <2>7. T \in SUBSET Events
    BY <2>4
  <2> HIDE DEF T, row, numbered
  <2>. QED BY <2>1, <2>3, <2>5, <2>6, <2>7
<1>. QED BY <1>3, <1>4

(* A log without any row of the new request stays within the cap and keeps *)
(* its numbering when the request is audited.                              *)
LEMMA AuditKeepsCap ==
  ASSUME NEW d \in Database, Bounded(d), NEW n \in Nat,
         Requests(d.events) \subseteq 1 .. n,
         NEW rows \in Rows, NEW rank \in Rankings(rows)
  PROVE  Bounded(Audited(d, n + 1, rank))
<1> DEFINE new == AuditRows(n + 1, rank)
           ev == d.events \cup new
<1>1. n + 1 \in Nat /\ n + 1 \notin 1 .. n
  OBVIOUS
<1>2. /\ new \in SUBSET Events /\ IsFiniteSet(new) /\ \A e \in new : e.req = n + 1
      /\ \A e, f \in new : e.rank = f.rank => e = f
  BY <1>1, AuditRowsNumbered
<1>3. \A e \in d.events : e.req # n + 1
  BY <1>1 DEF Requests
<1>4. /\ d.events \in SUBSET Events /\ IsFiniteSet(d.events)
      /\ \A e, f \in d.events : e.req = f.req /\ e.rank = f.rank => e = f
  BY DEF Database, Bounded
<1>5. Audited(d, n + 1, rank).events = Prune(ev)
  BY DEF Audited, Database
<1> HIDE DEF new
<1>6. ev \in SUBSET Events /\ IsFiniteSet(ev)
  BY <1>2, <1>4, FS_Union
<1>7. \A e, f \in ev : e.req = f.req /\ e.rank = f.rank => e = f
  BY <1>2, <1>3, <1>4
<1> HIDE DEF ev
<1>8. IsFiniteSet(Prune(ev)) /\ Cardinality(Prune(ev)) <= MaxRows
  BY <1>6, <1>7, PruneBounds
<1>. QED BY <1>5, <1>7, <1>8 DEF Bounded, Prune

(* Fewer rows, or the same rows with references cleared, stay within the   *)
(* cap.                                                                    *)
LEMMA FewerKeepsCap ==
  ASSUME NEW d \in Database, Bounded(d), NEW n, n.events \subseteq d.events
  PROVE  Bounded(n)
<1>1. IsFiniteSet(d.events) /\ Cardinality(d.events) \in Nat
  BY FS_CardinalityType DEF Bounded
<1>2. /\ IsFiniteSet(n.events) /\ Cardinality(n.events) \in Nat
      /\ Cardinality(n.events) <= Cardinality(d.events)
  BY <1>1, FS_Subset, FS_CardinalityType
<1>. QED BY <1>1, <1>2, VaultDbAssumption DEF Bounded

(* A removal keeps the cap: it only blanks references. *)
LEMMA DeleteKeepsCap ==
  ASSUME NEW d \in Database, Bounded(d), NEW X
  PROVE  Bounded(DeleteDocs(d, X))
<1> DEFINE cut(e) == [e EXCEPT !.ref = {r \in @ : r.doc \notin X}]
           f == [e \in d.events |-> cut(e)]
           T == {cut(e) : e \in d.events}
<1>1. DeleteDocs(d, X).events = T
  BY DEF DeleteDocs, Database
<1>2. f \in Surjection(d.events, T)
  BY DEF Surjection
<1>3. IsFiniteSet(d.events) /\ Cardinality(d.events) \in Nat
  BY FS_CardinalityType DEF Bounded
<1>4. \A e \in d.events : cut(e).req = e.req /\ cut(e).rank = e.rank
  BY DEF Database, Events
<1>5. \A e, g \in T : e.req = g.req /\ e.rank = g.rank => e = g
  <2> TAKE e, g \in T
  <2> HAVE e.req = g.req /\ e.rank = g.rank
  <2>1. PICK a \in d.events : e = cut(a)
    OBVIOUS
  <2>2. PICK b \in d.events : g = cut(b)
    OBVIOUS
  <2>3. a.req = b.req /\ a.rank = b.rank
    BY <1>4, <2>1, <2>2
  <2>. QED BY <2>1, <2>2, <2>3 DEF Bounded
<1>6. IsFiniteSet(T) /\ Cardinality(T) <= Cardinality(d.events) /\ Cardinality(T) \in Nat
  <2> HIDE DEF f, T
  <2>. QED BY <1>2, <1>3, FS_Surjection, FS_CardinalityType
<1> HIDE DEF T
<1>. QED BY <1>1, <1>3, <1>5, <1>6, VaultDbAssumption DEF Bounded

(* Every step keeps both logs within the cap. *)
LEMMA LogStep ==
  TypeOK /\ AuditInvariant /\ LogInvariant /\ [Next]_vars => LogInvariant'
<1> SUFFICES ASSUME TypeOK, AuditInvariant, LogInvariant, [Next]_vars
             PROVE  LogInvariant'
  OBVIOUS
<1>1. db \in Database /\ work \in Database /\ Bounded(db) /\ Bounded(work)
  BY DEF TypeOK, LogInvariant
<1>2. Bounded(EmptyVault)
  BY FS_EmptySet, VaultDbAssumption DEF Bounded, EmptyVault
<1>3. CASE Writes
  <2>1. PICK p \in Procs : writer = p /\ ImportStatement(p, work, work')
    BY <1>3 DEF Writes
  <2>2. imp[p].scan.src \in Sources
    BY DEF TypeOK, Imports, Scan
  <2>3. CASE \E x \in Docs : work' = DeleteDocs(work, {x})
    BY <1>1, <1>3, <2>3, DeleteKeepsCap DEF Writes, LogInvariant
  <2>4. CASE ~\E x \in Docs : work' = DeleteDocs(work, {x})
    <3>1. work'.events = work.events
      BY <1>1, <2>1, <2>4
        DEF ImportStatement, BeginSource, FinishSource, ImportPreparedFile, Database
    <3>. QED BY <1>1, <1>3, <3>1, FewerKeepsCap DEF Writes, LogInvariant
  <2>. QED BY <2>3, <2>4
<1>4. CASE Transacts
  <2>1. CASE \E x \in Docs : db' = DeleteDocs(db, {x})
    BY <1>1, <1>4, <2>1, DeleteKeepsCap DEF Transacts, LogInvariant
  <2>2. ASSUME NEW rows \in Rows, NEW rank \in Rankings(rows),
               db' = Audited(db, requests + 1, rank)
        PROVE  LogInvariant'
    <3>1. requests \in Nat /\ Requests(db.events) \subseteq 1 .. requests
      BY DEF TypeOK, AuditInvariant, RequestsLogged
    <3>. QED BY <1>1, <1>4, <2>2, <3>1, AuditKeepsCap DEF Transacts, LogInvariant
  <2>3. CASE db' = ClearEvents(db) \/ \E s \in Sources : db' = PurgeRows(db, s)
    <3>1. ASSUME db' = ClearEvents(db) PROVE db'.events \subseteq db.events
      BY <1>1, <3>1 DEF ClearEvents, Database
    <3>2. ASSUME NEW s \in Sources, db' = PurgeRows(db, s)
          PROVE  db'.events \subseteq db.events
      BY <1>1, <3>2 DEF PurgeRows, Database
    <3>. QED BY <1>1, <1>4, <2>3, <3>1, <3>2, FewerKeepsCap DEF Transacts, LogInvariant
  <2>. QED BY <1>4, <2>1, <2>2, <2>3 DEF Transacts, ShortTransaction
<1>5. CASE Reads \/ Begins \/ Commits \/ RollsBack
  BY <1>1, <1>2, <1>5 DEF Reads, Begins, Commits, RollsBack, LogInvariant
<1>. QED BY <1>3, <1>4, <1>5, VersionSteps

(* The physical cap on audit rows holds in every committed state, for      *)
(* every cap and every limit of results below it.                          *)
THEOREM ActivityAlwaysBounded == Spec => []ActivityBounded
<1>1. Init => LogInvariant
  BY FS_EmptySet, VaultDbAssumption DEF Init, EmptyVault, LogInvariant, Bounded
<1>2. LogInvariant => ActivityBounded
  BY DEF LogInvariant, Bounded, ActivityBounded
<1>. QED BY <1>1, <1>2, LogStep, AuditInvariantHolds, TypeCorrect, PTL DEF Spec

-----------------------------------------------------------------------------
(* Confirmed purges *)

(* With an intact lineage, the revisions under the hash of a confirmation  *)
(* are exactly the current contents of the source that the dialog lists.   *)
LEMMA TokenCoversShown ==
  ASSUME NEW d \in Database, CurrentIsNewest(d), NEW s \in Sources
  PROVE  CurrentContent(d, s) =
           {<<r.doc, r.content>> : r \in UNION {l[2] : l \in SnapshotToken(d, s).lineage}}
<1> DEFINE listed == {q \in CurrentRevs(d) : q.doc[1] = s}
           lineage == {<<x, CurrentOf(d, x)>> : x \in {y \in DocsOf(s) : d.cur[y] # 0}}
           covered == UNION {l[2] : l \in lineage}
<1>1. SnapshotToken(d, s).lineage = lineage
  BY DEF SnapshotToken
<1>2. ASSUME NEW q \in listed PROVE q \in covered
  <2>1. /\ q \in d.revs /\ q.doc \in Docs /\ q.doc[1] = s /\ q.ord \in Nat
        /\ q.ord = d.cur[q.doc]
    BY DEF CurrentRevs, Database, Revisions
  <2>2. q.doc \in DocsOf(s)
    BY <2>1 DEF Docs, DocsOf
  <2>3. d.cur[q.doc] # 0
    BY <2>1 DEF CurrentIsNewest
  <2>4. q \in CurrentOf(d, q.doc)
    BY DEF CurrentOf
  <2>5. <<q.doc, CurrentOf(d, q.doc)>> \in lineage
    BY <2>2, <2>3
  <2> HIDE DEF lineage
  <2>. QED BY <2>4, <2>5
<1>3. ASSUME NEW q \in covered PROVE q \in listed
  <2>1. PICK x \in DocsOf(s) : q \in CurrentOf(d, x)
    OBVIOUS
  <2>. QED BY <2>1 DEF CurrentOf, DocsOf
<1>4. listed = covered
  <2> HIDE DEF listed, covered
  <2>. QED BY <1>2, <1>3
<1> HIDE DEF lineage
<1>. QED BY <1>1, <1>4 DEF CurrentContent

(* Every open confirmation covers what it shows. *)
LEMMA TicketStep ==
  TypeOK /\ LineageInvariant /\ TicketInvariant /\ [Next]_vars => TicketInvariant'
<1> SUFFICES ASSUME TypeOK, LineageInvariant, TicketInvariant, [Next]_vars,
                    NEW q \in Procs, ticket'[q] # None
             PROVE  ticket'[q].shown =
                      {<<r.doc, r.content>> :
                         r \in UNION {l[2] : l \in ticket'[q].token.lineage}}
  BY DEF TicketInvariant
<1> USE DEF fsVars, dbVars, histVars
<1>1. CASE ticket'[q] = ticket[q]
  BY <1>1 DEF TicketInvariant
<1>2. ASSUME NEW p \in Procs, NEW s \in Sources, PrepareSourcePurge(p, s),
             ticket'[q] # ticket[q]
      PROVE  ticket'[q].shown = {<<r.doc, r.content>> :
                                   r \in UNION {l[2] : l \in ticket'[q].token.lineage}}
  <2>1. ticket'[q] = [token |-> SnapshotToken(db, s), shown |-> CurrentContent(db, s)]
    BY <1>2 DEF PrepareSourcePurge, TypeOK
  <2>2. db \in Database /\ CurrentIsNewest(db)
    BY DEF TypeOK, LineageInvariant
  <2>. QED BY <2>1, <2>2, TokenCoversShown
<1>3. ASSUME NEW p \in Procs, PurgeSource(p) \/ Crash(p) PROVE ticket'[q] = ticket[q]
  BY <1>3 DEF PurgeSource, Crash, TypeOK
<1>4. \/ \E p \in Procs : PurgeSource(p) \/ Crash(p) \/ \E s \in Sources : PrepareSourcePurge(p, s)
      \/ ticket' = ticket
  BY ZenonT(60) DEF Next, ImportStep, EndRetrieval, vars, ChangeFile, ReplaceFolder, StartPreview,
         PreviewStep, SearchVault, FetchDocument, BeginRetrieval, RefuseRetrieval,
         ClearRetrievalActivity, CommitPreparedDirectoryImport, ImportDirectory,
         BeginImport, AbortImport, ScanFile, BeginApply, ApplyFile, FinishApply, Finalize,
         CommitImport, RollbackImport, ReleaseImport, AuditAndReturn, PurgeDocument
<1>. QED BY <1>1, <1>2, <1>3, <1>4

(* A confirmed source purge removes what its confirmation showed and       *)
(* nothing else, whatever other processes imported, purged or retrieved    *)
(* between the dialog and the click.                                       *)
THEOREM PurgesAreConfirmed == Spec => PurgeMatchesConfirmation
<1> USE DEF fsVars, dbVars, histVars
<1>1. Init => TicketInvariant
  BY DEF Init, TicketInvariant
<1>2. ASSUME TypeOK, AuditInvariant, LineageInvariant, TicketInvariant, [Next]_vars,
             NEW p \in Procs, NEW s \in Sources,
             db'.receipts[s] # db.receipts[s], ticket'[p] # ticket[p]
      PROVE  /\ ticket[p].shown = CurrentContent(db, s)
             /\ s \notin db'.present
             /\ \A r \in db'.revs : r.doc[1] # s
             /\ \A e \in db'.events, r \in UNION {q.ref : q \in db.events} :
                  r \in e.ref => r.doc[1] # s
             /\ {r \in db'.revs : r.doc[1] # s} = {r \in db.revs : r.doc[1] # s}
  <2>1. PICK q \in Procs : PurgeSource(q)
    BY <1>2, ZenonT(60)
      DEF Next, ImportStep, EndRetrieval, vars, ChangeFile, ReplaceFolder, StartPreview,
          PreviewStep, SearchVault, FetchDocument, BeginRetrieval, RefuseRetrieval,
          ClearRetrievalActivity, CommitPreparedDirectoryImport, ImportDirectory,
          BeginImport, AbortImport, ScanFile, BeginApply, ApplyFile, FinishApply, Finalize,
          CommitImport, RollbackImport, ReleaseImport, AuditAndReturn, PurgeDocument,
          PrepareSourcePurge, Crash
  <2> DEFINE src == ticket[p].token.source
  <2>2. p = q /\ ticket[p] # None /\ Confirmed(db, ticket[p]) /\ db' = PurgeRows(db, src)
    BY <1>2, <2>1 DEF PurgeSource, TypeOK
  <2>3. db \in Database /\ CurrentIsNewest(db) /\ src \in Sources
    BY <1>2, <2>2 DEF TypeOK, LineageInvariant, Tickets, Tokens
  <2>4. /\ db'.present = db.present \ {src} /\ db'.events = db.events \ EventsOf(db, src)
        /\ db'.revs = {r \in db.revs : r.doc \notin DocsOf(src)}
        /\ db'.receipts = [db.receipts EXCEPT ![src] = @ + 1]
    BY <2>2, <2>3 DEF PurgeRows, Database
  <2>5. s = src
    BY <1>2, <2>3, <2>4 DEF Database
  <2>6. SnapshotToken(db, s) = ticket[p].token
    BY <2>2, <2>5 DEF Confirmed
  <2>7. ticket[p].shown = CurrentContent(db, s)
    BY <1>2, <2>2, <2>3, <2>5, <2>6, TokenCoversShown DEF TicketInvariant
  <2>8. ASSUME NEW r \in Revisions PROVE r.doc[1] = s <=> r.doc \in DocsOf(s)
    BY DEF Revisions, Docs, DocsOf
  <2>9. db.revs \subseteq Revisions /\ \A e \in db.events : e.ref \subseteq Revisions
    BY <2>3 DEF Database, Events
  <2>10. /\ \A r \in db'.revs : r.doc[1] # s
         /\ {r \in db'.revs : r.doc[1] # s} = {r \in db.revs : r.doc[1] # s}
    BY <2>4, <2>5, <2>8, <2>9
  <2>11. \A e \in db'.events : \A r \in e.ref : r.doc[1] # s
    BY <2>4, <2>5, <2>8, <2>9 DEF EventsOf
  <2>. QED BY <2>4, <2>5, <2>7, <2>10, <2>11
<1>3. TypeOK /\ AuditInvariant /\ LineageInvariant /\ TicketInvariant /\ [Next]_vars =>
      [\A p \in Procs, s \in Sources :
         db'.receipts[s] # db.receipts[s] /\ ticket'[p] # ticket[p] =>
           /\ ticket[p].shown = CurrentContent(db, s)
           /\ s \notin db'.present
           /\ \A r \in db'.revs : r.doc[1] # s
           /\ \A e \in db'.events, r \in UNION {q.ref : q \in db.events} :
                r \in e.ref => r.doc[1] # s
           /\ {r \in db'.revs : r.doc[1] # s} = {r \in db.revs : r.doc[1] # s}]_vars
  BY <1>2
<1>. QED
  BY <1>1, <1>3, TicketStep, LineageInvariantHolds, AuditInvariantHolds, TypeCorrect, PTL
  DEF Spec, PurgeMatchesConfirmation

-----------------------------------------------------------------------------
(* The vault implements its ledger: seen from the committed database, every *)
(* import, purge, retrieval and clear is one step or none.                  *)

-----------------------------------------------------------------------------
(* The statements, table by table *)

(* A database is what its six tables hold. *)
LEMMA SameDatabase ==
  ASSUME NEW d \in Database, NEW n \in Database,
         d.present = n.present, d.scanned = n.scanned, d.cur = n.cur,
         d.revs = n.revs, d.events = n.events, d.receipts = n.receipts
  PROVE  d = n
BY DEF Database

Cut(e, X) == [e EXCEPT !.ref = {r \in @ : r.doc \notin X}]

(* What DeleteDocs leaves in each table. *)
LEMMA DeleteTables ==
  ASSUME NEW d \in Database, NEW X
  PROVE  LET n == DeleteDocs(d, X) IN
         /\ n.cur = [y \in Docs |-> IF y \in X THEN 0 ELSE d.cur[y]]
         /\ n.revs = {r \in d.revs : r.doc \notin X}
         /\ n.events = {Cut(e, X) : e \in d.events}
         /\ n.present = d.present /\ n.scanned = d.scanned /\ n.receipts = d.receipts
BY DEF DeleteDocs, Database, Cut

(* FinishSource touches the scan time of one source only. *)
LEMMA FinishTables ==
  ASSUME NEW d \in Database, NEW s \in Sources, NEW t \in Nat
  PROVE  LET n == FinishSource(d, s, t) IN
         /\ n \in Database
         /\ n.scanned = [d.scanned EXCEPT ![s] = t]
         /\ n.cur = d.cur /\ n.revs = d.revs /\ n.events = d.events
         /\ n.present = d.present /\ n.receipts = d.receipts
<1>1. FinishSource(d, s, t) \in Database
  BY SourceType
<1>. QED BY <1>1 DEF FinishSource, Database

(* The revision a changed file becomes. *)
NextRevision(d, x, c) == [doc |-> x, ord |-> d.cur[x] + 1, content |-> c]

(* What an import of a new or changed file leaves in each table. *)
LEMMA ImportTables ==
  ASSUME NEW d \in Database, NEW x \in Docs, NEW c \in Contents,
         ~\E r \in CurrentOf(d, x) : r.content = c
  PROVE  LET n == ImportPreparedFile(d, x, c) IN
         /\ n.cur = [d.cur EXCEPT ![x] = d.cur[x] + 1]
         /\ n.revs = d.revs \cup {NextRevision(d, x, c)}
         /\ n.present = d.present /\ n.scanned = d.scanned
         /\ n.events = d.events /\ n.receipts = d.receipts
BY DEF ImportPreparedFile, Database, NextRevision

(* What the ledger installs, in the vocabulary of the vault. *)
Pending(d, s, inv) ==
  {x \in DocsOf(s) : inv[x[2]] # NoFile /\ ~\E r \in CurrentOf(d, x) : r.content = inv[x[2]]}

Install(d, s, inv) ==
  [d EXCEPT !.present = @ \cup {s},
            !.cur = [x \in Docs |-> IF x \in Pending(d, s, inv) THEN @[x] + 1 ELSE @[x]],
            !.revs = @ \cup {NextRevision(d, x, inv[x[2]]) : x \in Pending(d, s, inv)}]

(* The ledger's Install is the one defined here. *)
LEMMA LedgerInstall ==
  ASSUME NEW d, NEW s, NEW inv
  PROVE  Ledger!Install(d, s, inv) = Install(d, s, inv)
<1>1. Ledger!Unimported(d, s, inv) = Pending(d, s, inv)
  BY DEF Ledger!Unimported, Ledger!DocsOf, Ledger!Files, Ledger!CurrentOf,
         Ledger!CurrentRevs, Pending, DocsOf, Files, CurrentOf, CurrentRevs
<1>2. Ledger!Docs = Docs
  BY DEF Ledger!Docs, Ledger!Files, Docs, Files
<1>. QED BY <1>1, <1>2 DEF Ledger!Install, Install, NextRevision

(* What Install leaves in each table. *)
LEMMA InstallTables ==
  ASSUME NEW d \in Database, NEW s \in Sources, NEW inv \in Inventory
  PROVE  LET n == Install(d, s, inv) IN
         /\ n \in Database
         /\ n.cur = [x \in Docs |-> IF x \in Pending(d, s, inv) THEN d.cur[x] + 1 ELSE d.cur[x]]
         /\ n.revs = d.revs \cup {NextRevision(d, x, inv[x[2]]) : x \in Pending(d, s, inv)}
         /\ n.present = d.present \cup {s} /\ n.scanned = d.scanned
         /\ n.events = d.events /\ n.receipts = d.receipts
<1> DEFINE new == Pending(d, s, inv)
           n == Install(d, s, inv)
<1>1. \A x \in new : x \in Docs /\ inv[x[2]] \in Contents
  BY DEF Pending, DocsOf, Docs, Inventory
<1>2. \A x \in Docs : d.cur[x] \in Nat /\ d.cur[x] + 1 \in Nat
  BY DEF Database
<1>3. \A x \in new : NextRevision(d, x, inv[x[2]]) \in Revisions
  BY <1>1, <1>2 DEF Revisions, NextRevision
<1> HIDE DEF new
<1>4. [x \in Docs |-> IF x \in new THEN d.cur[x] + 1 ELSE d.cur[x]] \in [Docs -> Nat]
  BY <1>2
<1>5. d.revs \cup {NextRevision(d, x, inv[x[2]]) : x \in new} \in SUBSET Revisions
  BY <1>3 DEF Database
<1>6. n \in Database
  BY <1>4, <1>5 DEF Install, Database, new
<1>7. /\ n.cur = [x \in Docs |-> IF x \in new THEN d.cur[x] + 1 ELSE d.cur[x]]
      /\ n.revs = d.revs \cup {NextRevision(d, x, inv[x[2]]) : x \in new}
      /\ n.present = d.present \cup {s} /\ n.scanned = d.scanned
      /\ n.events = d.events /\ n.receipts = d.receipts
  BY DEF Install, Database, new
<1> HIDE DEF n
<1>. QED BY <1>6, <1>7 DEF n, new

-----------------------------------------------------------------------------
(* How the statements of an import and of a removal commute *)

(* Deleting nothing changes nothing; deleting twice deletes both. *)
LEMMA DeleteNothing ==
  ASSUME NEW d \in Database
  PROVE  DeleteDocs(d, {}) = d
<1> DEFINE n == DeleteDocs(d, {})
<1>1. \A e \in d.events : Cut(e, {}) = e
  BY DEF Database, Events, Cut
<1>2. {Cut(e, {}) : e \in d.events} = d.events
  BY <1>1
<1>3. [y \in Docs |-> IF y \in {} THEN 0 ELSE d.cur[y]] = d.cur
  BY DEF Database
<1>4. {r \in d.revs : r.doc \notin {}} = d.revs
  OBVIOUS
<1>5. n \in Database
  BY DeleteDocsType
<1>6. /\ n.cur = [y \in Docs |-> IF y \in {} THEN 0 ELSE d.cur[y]]
      /\ n.revs = {r \in d.revs : r.doc \notin {}}
      /\ n.events = {Cut(e, {}) : e \in d.events}
      /\ n.present = d.present /\ n.scanned = d.scanned /\ n.receipts = d.receipts
  BY DeleteTables
<1> HIDE DEF n
<1>7. n.cur = d.cur /\ n.revs = d.revs /\ n.events = d.events
  BY <1>2, <1>3, <1>4, <1>6
<1>. QED BY <1>5, <1>6, <1>7, SameDatabase DEF n

(* Two removals are one removal of both. *)
LEMMA DeleteTwice ==
  ASSUME NEW d \in Database, NEW X, NEW Y
  PROVE  DeleteDocs(DeleteDocs(d, X), Y) = DeleteDocs(d, X \cup Y)
<1> DEFINE m == DeleteDocs(d, X)
           n == DeleteDocs(m, Y)
           o == DeleteDocs(d, X \cup Y)
<1>1. m \in Database
  BY DeleteDocsType
<1>2. /\ m.cur = [y \in Docs |-> IF y \in X THEN 0 ELSE d.cur[y]]
      /\ m.revs = {r \in d.revs : r.doc \notin X}
      /\ m.events = {Cut(e, X) : e \in d.events}
      /\ m.present = d.present /\ m.scanned = d.scanned /\ m.receipts = d.receipts
  BY DeleteTables
<1> HIDE DEF m
<1>3. n \in Database /\ o \in Database
  BY <1>1, DeleteDocsType
<1>4. /\ n.cur = [y \in Docs |-> IF y \in Y THEN 0 ELSE m.cur[y]]
      /\ n.revs = {r \in m.revs : r.doc \notin Y}
      /\ n.events = {Cut(e, Y) : e \in m.events}
      /\ n.present = m.present /\ n.scanned = m.scanned /\ n.receipts = m.receipts
  BY <1>1, DeleteTables
<1>5. /\ o.cur = [y \in Docs |-> IF y \in X \cup Y THEN 0 ELSE d.cur[y]]
      /\ o.revs = {r \in d.revs : r.doc \notin X \cup Y}
      /\ o.events = {Cut(e, X \cup Y) : e \in d.events}
      /\ o.present = d.present /\ o.scanned = d.scanned /\ o.receipts = d.receipts
  BY DeleteTables
<1> HIDE DEF n, o
<1>6. ASSUME NEW e \in d.events PROVE Cut(Cut(e, X), Y) = Cut(e, X \cup Y)
  <2>1. e \in Events
    BY DEF Database
  <2>2. {q \in {r \in e.ref : r.doc \notin X} : q.doc \notin Y} =
          {r \in e.ref : r.doc \notin X \cup Y}
    OBVIOUS
  <2>3. Cut(Cut(e, X), Y) =
          [e EXCEPT !.ref = {q \in {r \in e.ref : r.doc \notin X} : q.doc \notin Y}]
    BY <2>1 DEF Events, Cut
  <2>. QED BY <2>1, <2>2, <2>3 DEF Cut
<1>7. n.events = {Cut(Cut(e, X), Y) : e \in d.events}
  BY <1>2, <1>4
<1>8. n.events = o.events
  BY <1>5, <1>6, <1>7
<1>9. n.cur = o.cur /\ n.revs = o.revs
  BY <1>2, <1>4, <1>5
<1>10. n.present = o.present /\ n.scanned = o.scanned /\ n.receipts = o.receipts
  BY <1>2, <1>4, <1>5
<1>. QED BY <1>3, <1>8, <1>9, <1>10, SameDatabase DEF m, n, o

(* The scan time is independent of documents and files. *)
LEMMA StampThenDelete ==
  ASSUME NEW d \in Database, NEW s \in Sources, NEW t \in Nat, NEW X
  PROVE  DeleteDocs(FinishSource(d, s, t), X) = FinishSource(DeleteDocs(d, X), s, t)
BY DEF DeleteDocs, FinishSource, Database

(* The scan time and a file's import commute. *)
LEMMA StampThenFile ==
  ASSUME NEW d \in Database, NEW s \in Sources, NEW t \in Nat,
         NEW x \in Docs, NEW c \in Contents
  PROVE  ImportPreparedFile(FinishSource(d, s, t), x, c) =
           FinishSource(ImportPreparedFile(d, x, c), s, t)
<1> DEFINE m == FinishSource(d, s, t)
           a == ImportPreparedFile(m, x, c)
           b == ImportPreparedFile(d, x, c)
           n == FinishSource(b, s, t)
<1>1. /\ m \in Database /\ m.scanned = [d.scanned EXCEPT ![s] = t]
      /\ m.cur = d.cur /\ m.revs = d.revs /\ m.events = d.events
      /\ m.present = d.present /\ m.receipts = d.receipts
  BY FinishTables
<1> HIDE DEF m
<1>2. CurrentOf(m, x) = CurrentOf(d, x)
  BY <1>1 DEF CurrentOf, CurrentRevs
<1>3. CASE \E r \in CurrentOf(d, x) : r.content = c
  BY <1>2, <1>3 DEF ImportPreparedFile, m
<1>4. CASE ~\E r \in CurrentOf(d, x) : r.content = c
  <2>1. NextRevision(m, x, c) = NextRevision(d, x, c)
    BY <1>1 DEF NextRevision
  <2>2. /\ a.cur = [m.cur EXCEPT ![x] = m.cur[x] + 1]
        /\ a.revs = m.revs \cup {NextRevision(m, x, c)}
        /\ a.present = m.present /\ a.scanned = m.scanned
        /\ a.events = m.events /\ a.receipts = m.receipts
    BY <1>1, <1>2, <1>4, ImportTables
  <2>3. /\ b.cur = [d.cur EXCEPT ![x] = d.cur[x] + 1]
        /\ b.revs = d.revs \cup {NextRevision(d, x, c)}
        /\ b.present = d.present /\ b.scanned = d.scanned
        /\ b.events = d.events /\ b.receipts = d.receipts
    BY <1>4, ImportTables
  <2>4. a \in Database /\ b \in Database
    BY <1>1, ImportFileType
  <2> HIDE DEF a, b
  <2>5. /\ n \in Database /\ n.scanned = [b.scanned EXCEPT ![s] = t]
        /\ n.cur = b.cur /\ n.revs = b.revs /\ n.events = b.events
        /\ n.present = b.present /\ n.receipts = b.receipts
    BY <2>4, FinishTables
  <2> HIDE DEF n
  <2>6. /\ a.cur = n.cur /\ a.revs = n.revs /\ a.events = n.events
        /\ a.present = n.present /\ a.scanned = n.scanned /\ a.receipts = n.receipts
    BY <1>1, <2>1, <2>2, <2>3, <2>5
  <2>. QED BY <2>4, <2>5, <2>6, SameDatabase DEF a, b, m, n
<1>. QED BY <1>3, <1>4

(* The later scan time wins. *)
LEMMA StampTwice ==
  ASSUME NEW d \in Database, NEW s \in Sources, NEW t \in Nat, NEW u \in Nat
  PROVE  FinishSource(FinishSource(d, s, t), s, u) = FinishSource(d, s, u)
BY DEF FinishSource, Database

(* A file is imported the same way whether other documents are deleted     *)
(* before or after it.                                                     *)
LEMMA DeleteAfterFile ==
  ASSUME NEW d \in Database, NEW X, NEW x \in Docs, x \notin X, NEW c \in Contents
  PROVE  ImportPreparedFile(DeleteDocs(d, X), x, c) = DeleteDocs(ImportPreparedFile(d, x, c), X)
<1> DEFINE m == DeleteDocs(d, X)
           a == ImportPreparedFile(m, x, c)
           b == ImportPreparedFile(d, x, c)
           n == DeleteDocs(b, X)
<1>1. m \in Database
  BY DeleteDocsType
<1>2. /\ m.cur = [y \in Docs |-> IF y \in X THEN 0 ELSE d.cur[y]]
      /\ m.revs = {r \in d.revs : r.doc \notin X}
      /\ m.events = {Cut(e, X) : e \in d.events}
      /\ m.present = d.present /\ m.scanned = d.scanned /\ m.receipts = d.receipts
  BY DeleteTables
<1> HIDE DEF m
<1>3. m.cur[x] = d.cur[x]
  BY <1>2
<1>4. CurrentOf(m, x) = CurrentOf(d, x)
  BY <1>2, <1>3 DEF CurrentOf, CurrentRevs
<1>5. CASE \E r \in CurrentOf(d, x) : r.content = c
  BY <1>4, <1>5 DEF ImportPreparedFile, m
<1>6. CASE ~\E r \in CurrentOf(d, x) : r.content = c
  <2>1. NextRevision(m, x, c) = NextRevision(d, x, c) /\ NextRevision(d, x, c).doc = x
    BY <1>3 DEF NextRevision
  <2>2. /\ a.cur = [m.cur EXCEPT ![x] = m.cur[x] + 1]
        /\ a.revs = m.revs \cup {NextRevision(m, x, c)}
        /\ a.present = m.present /\ a.scanned = m.scanned
        /\ a.events = m.events /\ a.receipts = m.receipts
    BY <1>1, <1>4, <1>6, ImportTables
  <2>3. /\ b.cur = [d.cur EXCEPT ![x] = d.cur[x] + 1]
        /\ b.revs = d.revs \cup {NextRevision(d, x, c)}
        /\ b.present = d.present /\ b.scanned = d.scanned
        /\ b.events = d.events /\ b.receipts = d.receipts
    BY <1>6, ImportTables
  <2>4. a \in Database /\ b \in Database
    BY <1>1, ImportFileType
  <2> HIDE DEF a, b
  <2>5. n \in Database
    BY <2>4, DeleteDocsType
  <2>6. /\ n.cur = [y \in Docs |-> IF y \in X THEN 0 ELSE b.cur[y]]
        /\ n.revs = {r \in b.revs : r.doc \notin X}
        /\ n.events = {Cut(e, X) : e \in b.events}
        /\ n.present = b.present /\ n.scanned = b.scanned /\ n.receipts = b.receipts
    BY <2>4, DeleteTables
  <2> HIDE DEF n
  <2>7. a.cur = n.cur
    <3>1. d.cur \in [Docs -> Nat]
      BY DEF Database
    <3>. QED BY <1>2, <1>3, <2>2, <2>3, <2>6, <3>1
  <2>8. a.revs = n.revs
    BY <1>2, <2>1, <2>2, <2>3, <2>6
  <2>9. /\ a.events = n.events /\ a.present = n.present /\ a.scanned = n.scanned
        /\ a.receipts = n.receipts
    BY <1>2, <2>2, <2>3, <2>6
  <2>. QED BY <2>4, <2>5, <2>7, <2>8, <2>9, SameDatabase DEF a, b, m, n
<1>. QED BY <1>5, <1>6

-----------------------------------------------------------------------------
(* An inventory installed file by file *)

(* The first statement of an import installs nothing. *)
LEMMA InstallNothing ==
  ASSUME NEW d \in Database, NEW s \in Sources, NEW inv, \A f \in Files : inv[f] = NoFile
  PROVE  BeginSource(d, s) = FinishSource(Install(d, s, inv), s, 0)
<1>1. Pending(d, s, inv) = {}
  BY DEF Pending, DocsOf
<1> DEFINE m == Install(d, s, inv)
<1>2. m = [d EXCEPT !.present = @ \cup {s}]
  <2>1. [x \in Docs |-> IF x \in {} THEN d.cur[x] + 1 ELSE d.cur[x]] = d.cur
    BY DEF Database
  <2>2. d.revs \cup {NextRevision(d, x, inv[x[2]]) : x \in {}} = d.revs
    OBVIOUS
  <2>. QED BY <1>1, <2>1, <2>2 DEF Install, Database
<1> HIDE DEF m
<1>3. BeginSource(d, s) = FinishSource(m, s, 0)
  BY <1>2 DEF BeginSource, FinishSource, Database
<1>. QED BY <1>3 DEF m

(* The inventory inv2 is inv with file f, of content c, in addition. *)
Gains(inv, inv2, f, c) ==
  /\ inv \in Inventory /\ inv2 \in Inventory
  /\ inv[f] = NoFile /\ inv2[f] = c
  /\ \A g \in Files : g # f => inv2[g] = inv[g]

(* Importing one more file of the inventory installs it too.               *)
LEMMA InstallNext ==
  ASSUME NEW d \in Database, NEW s \in Sources, NEW inv, NEW inv2, NEW f \in Files,
         NEW c \in Contents, Gains(inv, inv2, f, c), NEW x, x = <<s, f>>
  PROVE  ImportPreparedFile(Install(d, s, inv), x, c) = Install(d, s, inv2)
<1> DEFINE old == Pending(d, s, inv)
           all == Pending(d, s, inv2)
           m == Install(d, s, inv)
           n == Install(d, s, inv2)
           a == ImportPreparedFile(m, x, c)
<1>1. x \in Docs /\ x \in DocsOf(s) /\ x[2] = f /\ c # NoFile
  BY VaultDbAssumption DEF Docs, DocsOf
<1>2. /\ inv \in Inventory /\ inv2 \in Inventory /\ inv[f] = NoFile /\ inv2[f] = c
      /\ \A g \in Files : g # f => inv2[g] = inv[g]
  BY DEF Gains
<1>3. \A y \in DocsOf(s) : y \in Docs /\ y[2] \in Files /\ (y # x => y[2] # f)
  BY DEF Docs, DocsOf
<1>4. x \notin old /\ old \subseteq DocsOf(s)
  BY <1>1, <1>2 DEF Pending
<1>5. all = IF \E r \in CurrentOf(d, x) : r.content = c THEN old ELSE old \cup {x}
  <2>1. \A y \in DocsOf(s) : y # x => (y \in all <=> y \in old)
    BY <1>2, <1>3 DEF Pending
  <2>2. x \in all <=> ~\E r \in CurrentOf(d, x) : r.content = c
    BY <1>1, <1>2 DEF Pending
  <2>3. all \subseteq DocsOf(s)
    BY DEF Pending
  <2> HIDE DEF old, all
  <2>. QED BY <1>4, <2>1, <2>2, <2>3
<1>6. /\ m \in Database
      /\ m.cur = [y \in Docs |-> IF y \in old THEN d.cur[y] + 1 ELSE d.cur[y]]
      /\ m.revs = d.revs \cup {NextRevision(d, y, inv[y[2]]) : y \in old}
      /\ m.present = d.present \cup {s} /\ m.scanned = d.scanned
      /\ m.events = d.events /\ m.receipts = d.receipts
  BY <1>2, InstallTables
<1>7. /\ n \in Database
      /\ n.cur = [y \in Docs |-> IF y \in all THEN d.cur[y] + 1 ELSE d.cur[y]]
      /\ n.revs = d.revs \cup {NextRevision(d, y, inv2[y[2]]) : y \in all}
      /\ n.present = d.present \cup {s} /\ n.scanned = d.scanned
      /\ n.events = d.events /\ n.receipts = d.receipts
  BY <1>2, InstallTables
<1> HIDE DEF m, n, old, all
<1>8. \A y \in old : inv2[y[2]] = inv[y[2]]
  BY <1>2, <1>3, <1>4
<1>9. {NextRevision(d, y, inv2[y[2]]) : y \in old} = {NextRevision(d, y, inv[y[2]]) : y \in old}
  BY <1>8
<1>10. m.cur[x] = d.cur[x]
  BY <1>1, <1>4, <1>6
<1>11. CurrentOf(m, x) = CurrentOf(d, x)
  <2>1. \A y \in old : NextRevision(d, y, inv[y[2]]).doc = y
    BY DEF NextRevision
  <2>. QED BY <1>4, <1>6, <1>10, <2>1 DEF CurrentOf, CurrentRevs
<1>12. CASE \E r \in CurrentOf(d, x) : r.content = c
  <2>1. a = m
    BY <1>11, <1>12 DEF ImportPreparedFile
  <2>2. all = old
    BY <1>5, <1>12
  <2>3. n.cur = m.cur /\ n.revs = m.revs
    BY <1>6, <1>7, <1>9, <2>2
  <2>4. /\ m.present = n.present /\ m.scanned = n.scanned
        /\ m.events = n.events /\ m.receipts = n.receipts
    BY <1>6, <1>7
  <2>5. m = n
    BY <1>6, <1>7, <2>3, <2>4, SameDatabase
  <2>. QED BY <2>1, <2>5 DEF m, n
<1>13. CASE ~\E r \in CurrentOf(d, x) : r.content = c
  <2>1. NextRevision(m, x, c) = NextRevision(d, x, inv2[x[2]])
    BY <1>1, <1>2, <1>10 DEF NextRevision
  <2>2. a \in Database
    BY <1>1, <1>6, ImportFileType
  <2>3. /\ a.cur = [m.cur EXCEPT ![x] = m.cur[x] + 1]
        /\ a.revs = m.revs \cup {NextRevision(m, x, c)}
        /\ a.present = m.present /\ a.scanned = m.scanned
        /\ a.events = m.events /\ a.receipts = m.receipts
    BY <1>1, <1>6, <1>11, <1>13, ImportTables
  <2> HIDE DEF a
  <2>4. all = old \cup {x}
    BY <1>5, <1>13
  <2>5. {NextRevision(d, y, inv2[y[2]]) : y \in all} =
          {NextRevision(d, y, inv2[y[2]]) : y \in old} \cup {NextRevision(d, x, inv2[x[2]])}
    BY <2>4
  <2>6. a.revs = n.revs
    BY <1>6, <1>7, <1>9, <2>1, <2>3, <2>5
  <2>7. a.cur = n.cur
    BY <1>1, <1>6, <1>7, <1>10, <2>3, <2>4
  <2>8. /\ a.present = n.present /\ a.scanned = n.scanned
        /\ a.events = n.events /\ a.receipts = n.receipts
    BY <1>6, <1>7, <2>3
  <2>9. a = n
    BY <1>7, <2>2, <2>6, <2>7, <2>8, SameDatabase
  <2>. QED BY <2>9 DEF a, m, n
<1>. QED BY <1>12, <1>13

(* A document the inventory has not arrived at can be deleted before.      *)
LEMMA DeleteBeforeInstall ==
  ASSUME NEW d \in Database, NEW s \in Sources, NEW inv \in Inventory, NEW x \in Docs,
         x \notin Arrived(s, inv)
  PROVE  DeleteDocs(Install(d, s, inv), {x}) = Install(DeleteDocs(d, {x}), s, inv)
<1> DEFINE e == DeleteDocs(d, {x})
           old == Pending(d, s, inv)
           m == Install(d, s, inv)
           a == DeleteDocs(m, {x})
           n == Install(e, s, inv)
<1>1. /\ e.cur = [y \in Docs |-> IF y \in {x} THEN 0 ELSE d.cur[y]]
      /\ e.revs = {r \in d.revs : r.doc \notin {x}}
      /\ e.events = {Cut(v, {x}) : v \in d.events}
      /\ e.present = d.present /\ e.scanned = d.scanned /\ e.receipts = d.receipts
  BY DeleteTables
<1>2. e \in Database
  BY DeleteDocsType
<1> HIDE DEF e
<1>3. x \notin old /\ old \subseteq Docs
  BY DEF Pending, Arrived, DocsOf, Docs
<1>4. \A y \in Docs : y # x => CurrentOf(e, y) = CurrentOf(d, y)
  BY <1>1 DEF CurrentOf, CurrentRevs
<1>5. Pending(e, s, inv) = old
  <2>1. \A y \in DocsOf(s) : inv[y[2]] # NoFile => y \in Docs /\ y # x
    BY DEF Arrived, DocsOf, Docs
  <2>2. \A y \in DocsOf(s) : inv[y[2]] # NoFile => CurrentOf(e, y) = CurrentOf(d, y)
    BY <1>4, <2>1
  <2>. QED BY <2>2 DEF Pending
<1>6. /\ m \in Database
      /\ m.cur = [y \in Docs |-> IF y \in old THEN d.cur[y] + 1 ELSE d.cur[y]]
      /\ m.revs = d.revs \cup {NextRevision(d, y, inv[y[2]]) : y \in old}
      /\ m.present = d.present \cup {s} /\ m.scanned = d.scanned
      /\ m.events = d.events /\ m.receipts = d.receipts
  BY InstallTables
<1>7. /\ n \in Database
      /\ n.cur = [y \in Docs |-> IF y \in old THEN e.cur[y] + 1 ELSE e.cur[y]]
      /\ n.revs = e.revs \cup {NextRevision(e, y, inv[y[2]]) : y \in old}
      /\ n.present = e.present \cup {s} /\ n.scanned = e.scanned
      /\ n.events = e.events /\ n.receipts = e.receipts
  BY <1>2, <1>5, InstallTables
<1> HIDE DEF m, n, old
<1>8. a \in Database
  BY <1>6, DeleteDocsType
<1>9. /\ a.cur = [y \in Docs |-> IF y \in {x} THEN 0 ELSE m.cur[y]]
      /\ a.revs = {r \in m.revs : r.doc \notin {x}}
      /\ a.events = {Cut(v, {x}) : v \in m.events}
      /\ a.present = m.present /\ a.scanned = m.scanned /\ a.receipts = m.receipts
  BY <1>6, DeleteTables
<1> HIDE DEF a
<1>10. a.cur = n.cur
  BY <1>1, <1>3, <1>6, <1>7, <1>9
<1>11. \A y \in old : NextRevision(e, y, inv[y[2]]) = NextRevision(d, y, inv[y[2]])
                      /\ NextRevision(d, y, inv[y[2]]).doc # x
  BY <1>1, <1>3 DEF NextRevision
<1>12. {NextRevision(e, y, inv[y[2]]) : y \in old} = {NextRevision(d, y, inv[y[2]]) : y \in old}
  BY <1>11
<1>13. a.revs = n.revs
  BY <1>1, <1>6, <1>7, <1>9, <1>11, <1>12
<1>14. /\ a.events = n.events /\ a.present = n.present /\ a.scanned = n.scanned
       /\ a.receipts = n.receipts
  BY <1>1, <1>6, <1>7, <1>9
<1>. QED BY <1>7, <1>8, <1>10, <1>13, <1>14, SameDatabase DEF a, e, m, n

-----------------------------------------------------------------------------
(* What each statement of an import does to its outcome *)

(* Outcome in terms of the Install defined here. *)
LEMMA OutcomeInstall ==
  ASSUME NEW d, NEW s, NEW inv, NEW early, NEW late, NEW t
  PROVE  Outcome(d, s, inv, early, late, t) =
           FinishSource(DeleteDocs(Install(DeleteDocs(d, early), s, inv), late), s, t)
BY LedgerInstall DEF Outcome

(* Every version on the way to an outcome is a database. *)
LEMMA OutcomeTypes ==
  ASSUME NEW d \in Database, NEW s \in Sources, NEW inv \in Inventory,
         NEW early, NEW late
  PROVE  /\ DeleteDocs(d, early) \in Database
         /\ Install(DeleteDocs(d, early), s, inv) \in Database
         /\ DeleteDocs(Install(DeleteDocs(d, early), s, inv), late) \in Database
<1>1. DeleteDocs(d, early) \in Database
  BY DeleteDocsType
<1>2. Install(DeleteDocs(d, early), s, inv) \in Database
  BY <1>1, InstallTables
<1>. QED BY <1>1, <1>2, DeleteDocsType

(* The source upsert starts an outcome with nothing installed. *)
LEMMA OutcomeBegins ==
  ASSUME NEW d \in Database, NEW s \in Sources, NEW inv \in Inventory,
         \A f \in Files : inv[f] = NoFile, NEW early
  PROVE  BeginSource(DeleteDocs(d, early), s) = Outcome(d, s, inv, early, {}, 0)
<1> DEFINE m == DeleteDocs(d, early)
<1>1. m \in Database /\ Install(m, s, inv) \in Database
  BY OutcomeTypes
<1> HIDE DEF m
<1>2. BeginSource(m, s) = FinishSource(Install(m, s, inv), s, 0)
  BY <1>1, InstallNothing
<1>3. DeleteDocs(Install(m, s, inv), {}) = Install(m, s, inv)
  BY <1>1, DeleteNothing
<1>. QED BY <1>2, <1>3, OutcomeInstall DEF m

(* The next file of the inventory is installed in the outcome.             *)
LEMMA OutcomeGrows ==
  ASSUME NEW d \in Database, NEW s \in Sources, NEW inv, NEW inv2, NEW f \in Files,
         NEW c \in Contents, Gains(inv, inv2, f, c),
         NEW early, NEW late, NEW x, x = <<s, f>>, x \notin late, NEW t, t \in Nat
  PROVE  ImportPreparedFile(Outcome(d, s, inv, early, late, t), x, c) =
           Outcome(d, s, inv2, early, late, t)
<1> DEFINE m == DeleteDocs(d, early)
           i == Install(m, s, inv)
           k == DeleteDocs(i, late)
<1>0. inv \in Inventory /\ inv2 \in Inventory
  BY DEF Gains
<1>1. m \in Database /\ i \in Database /\ k \in Database
  BY <1>0, OutcomeTypes
<1>2. x \in Docs
  BY DEF Docs
<1>3. ImportPreparedFile(i, x, c) = Install(m, s, inv2)
  <2> HIDE DEF m
  <2>. QED BY <1>1, InstallNext
<1>4. x \notin late
  OBVIOUS
<1>5. Outcome(d, s, inv, early, late, t) = FinishSource(k, s, t)
  BY OutcomeInstall
<1>6. Outcome(d, s, inv2, early, late, t) =
        FinishSource(DeleteDocs(Install(m, s, inv2), late), s, t)
  BY OutcomeInstall
<1> HIDE DEF m, i
<1>7. ImportPreparedFile(k, x, c) = DeleteDocs(Install(m, s, inv2), late)
  BY <1>1, <1>2, <1>3, <1>4, DeleteAfterFile
<1> HIDE DEF k
<1>8. ImportPreparedFile(FinishSource(k, s, t), x, c) =
        FinishSource(ImportPreparedFile(k, x, c), s, t)
  BY <1>1, <1>2, StampThenFile
<1>. QED BY <1>5, <1>6, <1>7, <1>8

(* The last statement only replaces the scan time. *)
LEMMA OutcomeFinishes ==
  ASSUME NEW d \in Database, NEW s \in Sources, NEW inv \in Inventory,
         NEW early, NEW late, NEW t \in Nat, NEW u \in Nat
  PROVE  FinishSource(Outcome(d, s, inv, early, late, t), s, u) =
           Outcome(d, s, inv, early, late, u)
BY OutcomeTypes, OutcomeInstall, StampTwice

(* A document purged during the import counts as purged after it if the    *)
(* import had brought it, and as purged before it otherwise.               *)
LEMMA OutcomeLoses ==
  ASSUME NEW d \in Database, NEW s \in Sources, NEW inv \in Inventory,
         NEW early, NEW late, NEW t, t \in Nat, NEW x \in Docs, NEW X, X = {x}
  PROVE  /\ x \in Arrived(s, inv) =>
              DeleteDocs(Outcome(d, s, inv, early, late, t), X) =
                Outcome(d, s, inv, early, late \cup X, t)
         /\ x \notin Arrived(s, inv) =>
              DeleteDocs(Outcome(d, s, inv, early, late, t), X) =
                Outcome(d, s, inv, early \cup X, late, t)
<1> DEFINE m == DeleteDocs(d, early)
           i == Install(m, s, inv)
           k == DeleteDocs(i, late)
<1>1. m \in Database /\ i \in Database /\ k \in Database
  BY OutcomeTypes
<1>2. Outcome(d, s, inv, early, late, t) = FinishSource(k, s, t)
  BY OutcomeInstall
<1>3. Outcome(d, s, inv, early, late \cup X, t) =
        FinishSource(DeleteDocs(i, late \cup X), s, t)
  BY OutcomeInstall
<1>4. Outcome(d, s, inv, early \cup X, late, t) =
        FinishSource(DeleteDocs(Install(DeleteDocs(d, early \cup X), s, inv), late), s, t)
  BY OutcomeInstall
<1>5. DeleteDocs(m, X) = DeleteDocs(d, early \cup X)
  BY DeleteTwice
<1> HIDE DEF m
<1>6. x \notin Arrived(s, inv) => DeleteDocs(i, X) = Install(DeleteDocs(m, X), s, inv)
  BY <1>1, DeleteBeforeInstall
<1> HIDE DEF i
<1>7. DeleteDocs(k, X) = DeleteDocs(i, late \cup X)
  BY <1>1, DeleteTwice
<1>8. DeleteDocs(DeleteDocs(i, X), late) = DeleteDocs(i, X \cup late)
  BY <1>1, DeleteTwice
<1>9. X \cup late = late \cup X
  OBVIOUS
<1> HIDE DEF k
<1>10. DeleteDocs(FinishSource(k, s, t), X) = FinishSource(DeleteDocs(k, X), s, t)
  BY <1>1, StampThenDelete
<1>. QED BY <1>2, <1>3, <1>4, <1>5, <1>6, <1>7, <1>8, <1>9, <1>10

-----------------------------------------------------------------------------
(* The private version at every turn of an import *)

(* The part of the inventory an import has applied is an inventory. *)
LEMMA AppliedType ==
  ASSUME TypeOK, NEW p \in Procs
  PROVE  Applied(p) \in Inventory
BY DEF Applied, TypeOK, Imports, Scan, Inventory

(* Turns that move neither version, nor what has been applied. *)
LEMMA ProgressKept ==
  ASSUME TypeOK, NEW p \in Procs, Progress(p), UNCHANGED <<db, work, gone>>,
         imp'[p].scan.src = imp[p].scan.src,
         \/ imp'[p].phase = "scan" /\ imp[p].phase = "scan"
         \/ /\ imp[p].phase \in Applying /\ imp'[p].phase \in Applying
            /\ imp'[p].phase = "ending" => imp[p].phase = "ending"
            /\ Applied(p)' = Applied(p)
  PROVE  Progress(p)'
<1>1. CASE imp'[p].phase = "scan" /\ imp[p].phase = "scan"
  BY <1>1 DEF Progress, Applying
<1>2. CASE /\ imp[p].phase \in Applying /\ imp'[p].phase \in Applying
           /\ imp'[p].phase = "ending" => imp[p].phase = "ending"
           /\ Applied(p)' = Applied(p)
  <2> DEFINE s == imp[p].scan.src
             inv == Applied(p)
  <2>1. PICK early \in SUBSET Docs, late \in SUBSET Docs :
          /\ late \subseteq Arrived(s, inv) /\ late \subseteq gone
          /\ early \subseteq Arrived(s, inv) \cup gone
          /\ work = Outcome(db, s, inv, early, late, work.scanned[s])
    BY <1>2 DEF Progress
  <2>2. imp'[p].phase = "ending" => work.scanned[s] > 0
    BY <1>2 DEF Progress
  <2>3. inv' = inv /\ s' = s /\ work' = work /\ gone' = gone /\ db' = db
    BY <1>2
  <2>4. imp'[p].phase # "scan"
    BY <1>2 DEF Applying
  <2> HIDE DEF s, inv
  <2>5. /\ late \subseteq Arrived(s', inv') /\ late \subseteq gone'
        /\ early \subseteq Arrived(s', inv') \cup gone'
        /\ work' = Outcome(db', s', inv', early, late, work'.scanned[s'])
    BY <2>1, <2>3
  <2>6. imp'[p].phase = "ending" => work'.scanned[s'] > 0
    BY <2>2, <2>3
  <2>. QED BY <2>4, <2>5, <2>6 DEF Progress, s, inv
<1>. QED BY <1>1, <1>2

(* The statement that opens the second half of the import. *)
LEMMA ProgressBegins ==
  ASSUME TypeOK, NEW p \in Procs, Progress(p), BeginApply(p)
  PROVE  Progress(p)'
<1> DEFINE s == imp[p].scan.src
<1> USE DEF fsVars, dbVars, histVars
<1>1. imp[p].phase = "scan" /\ s \in Sources /\ imp[p] \in Imports /\ imp[p].scan \in Scan
  BY DEF BeginApply, Running, TypeOK, Imports, Scan
<1>2. /\ imp'[p].phase = "apply" /\ imp'[p].scan.src = s /\ imp'[p].scan.pos = 1
      /\ UNCHANGED <<db, gone>> /\ work' = BeginSource(work, s)
  BY <1>1 DEF BeginApply, TypeOK, Imports, Scan
<1>3. PICK early \in SUBSET Docs : early \subseteq gone /\ work = DeleteDocs(db, early)
  BY <1>1 DEF Progress
<1> DEFINE inv == [f \in Files |-> NoFile]
<1>4. Applied(p)' = inv
  <2>1. \A f \in Files : f >= 1
    BY VaultDbAssumption DEF Files
  <2>. QED BY <1>2, <2>1 DEF Applied
<1>5. inv \in Inventory /\ \A f \in Files : inv[f] = NoFile
  BY DEF Inventory
<1>6. db \in Database /\ work \in Database
  BY DEF TypeOK
<1>7. work' = Outcome(db, s, inv, early, {}, 0)
  BY <1>1, <1>2, <1>3, <1>5, <1>6, OutcomeBegins
<1>8. work'.scanned[s] = 0
  BY <1>1, <1>2, <1>6 DEF BeginSource, Database
<1> HIDE DEF s, inv
<1>9. /\ {} \subseteq Arrived(s, inv) /\ {} \subseteq gone'
      /\ early \subseteq Arrived(s, inv) \cup gone'
      /\ work' = Outcome(db', s, inv, early, {}, work'.scanned[s])
  BY <1>2, <1>3, <1>7, <1>8
<1>10. {} \in SUBSET Docs
  OBVIOUS
<1>. QED BY <1>2, <1>4, <1>9, <1>10 DEF Progress, Applying, s

(* One file, read again and found as scanned. *)
LEMMA ProgressGrows ==
  ASSUME TypeOK, NEW p \in Procs, Progress(p), ApplyFile(p)
  PROVE  Progress(p)'
<1> DEFINE s == imp[p].scan.src
           k == imp[p].scan.pos
           c == imp[p].scan.seen[k]
           x == <<s, k>>
           inv == Applied(p)
<1> USE DEF fsVars, dbVars, histVars
<1>1. /\ imp[p].phase = "apply" /\ s \in Sources /\ imp[p] \in Imports
      /\ imp[p].scan \in Scan /\ k \in Nat
  BY DEF ApplyFile, Running, TypeOK, Imports, Scan
<1>2. /\ imp'[p].phase = "apply" /\ imp'[p].scan.src = s /\ imp'[p].scan.pos = k + 1
      /\ imp'[p].scan.seen = imp[p].scan.seen /\ UNCHANGED db
  BY <1>1 DEF ApplyFile, TypeOK, Imports, Scan
<1>3. Applied(p)' = [f \in Files |-> IF f >= k + 1 THEN NoFile ELSE imp[p].scan.seen[f]]
  BY <1>2 DEF Applied
<1>4. inv = [f \in Files |-> IF f >= k THEN NoFile ELSE imp[p].scan.seen[f]]
  BY <1>1 DEF Applied
<1>5. \A f \in Files : f \in Nat
  BY VaultDbAssumption DEF Files
<1>6. CASE c = NoFile
  <2>1. \A f \in Files : (f >= k <=> f >= k + 1 \/ f = k)
    BY <1>1, <1>5
  <2>2. Applied(p)' = inv
    BY <1>3, <1>4, <1>6, <2>1
  <2>3. UNCHANGED <<work, gone>>
    BY <1>6 DEF ApplyFile
  <2>. QED BY <1>1, <1>2, <2>2, <2>3, ProgressKept DEF Applying
<1>7. CASE c # NoFile
  <2>1. k \in Files /\ c \in Contents
    BY <1>7, AppliedFile
  <2>2. work' = ImportPreparedFile(work, x, c) /\ gone' = gone \ {x}
    BY <1>7 DEF ApplyFile
  <2>3. \A f \in Files : (f >= k <=> f >= k + 1 \/ f = k)
    BY <1>1, <1>5
  <2>4. inv[k] = NoFile /\ Applied(p)' = [inv EXCEPT ![k] = c]
    BY <1>1, <1>3, <1>4, <2>1, <2>3
  <2>5. inv \in Inventory
    BY AppliedType
  <2>6. PICK early \in SUBSET Docs, late \in SUBSET Docs :
          /\ late \subseteq Arrived(s, inv) /\ late \subseteq gone
          /\ early \subseteq Arrived(s, inv) \cup gone
          /\ work = Outcome(db, s, inv, early, late, work.scanned[s])
    BY <1>1 DEF Progress, Applying
  <2>7. x \in Docs /\ x \notin Arrived(s, inv)
    BY <1>1, <2>1, <2>4 DEF Arrived, Docs
  <2>8. db \in Database /\ work \in Database /\ work.scanned[s] \in Nat
    BY <1>1 DEF TypeOK, Database
  <2> DEFINE inv2 == [inv EXCEPT ![k] = c]
  <2>9. x \notin late
    BY <2>6, <2>7
  <2> DEFINE t == work.scanned[s]
  <2>16. t \in Nat /\ x = <<s, k>> /\ Gains(inv, inv2, k, c)
    BY <2>1, <2>4, <2>5, <2>8 DEF Gains, Inventory
  <2>17. ImportPreparedFile(Outcome(db, s, inv, early, late, t), x, c) =
           Outcome(db, s, inv2, early, late, t)
    <3> HIDE DEF inv, inv2, t, s, k, c, x
    <3>. QED BY <1>1, <2>1, <2>8, <2>9, <2>16, OutcomeGrows
  <2> HIDE DEF inv
  <2>10. ImportPreparedFile(Outcome(db, s, inv, early, late, work.scanned[s]), x, c) =
           Outcome(db, s, inv2, early, late, work.scanned[s])
    BY <2>17
  <2>11. work'.scanned = work.scanned
    BY <2>1, <2>2, <2>7, <2>8, SourcesTable
  <2>12. work' = Outcome(db', s, inv2, early, late, work'.scanned[s])
    BY <1>2, <2>2, <2>6, <2>10, <2>11
  <2>13. Arrived(s, inv2) = Arrived(s, inv) \cup {x}
    <3>1. c # NoFile /\ x \in DocsOf(s) /\ x[2] = k
      BY <1>7, <2>1 DEF DocsOf
    <3>2. \A y \in DocsOf(s) : y # x => inv2[y[2]] = inv[y[2]]
      BY <2>5 DEF DocsOf, Inventory
    <3>3. inv2[k] = c
      BY <2>1, <2>5 DEF Inventory
    <3> HIDE DEF inv2, x
    <3>. QED BY <3>1, <3>2, <3>3 DEF Arrived
  <2>14. /\ late \subseteq Arrived(s, inv2) /\ late \subseteq gone'
         /\ early \subseteq Arrived(s, inv2) \cup gone'
    BY <2>2, <2>6, <2>9, <2>13
  <2>15. Applied(p)' = inv2
    BY <2>4
  <2> HIDE DEF inv2, s
  <2>. QED BY <1>2, <2>12, <2>14, <2>15 DEF Progress, Applying, s
<1>. QED BY <1>6, <1>7

(* The final scan time. *)
LEMMA ProgressFinishes ==
  ASSUME TypeOK, NEW p \in Procs, Progress(p), Finalize(p)
  PROVE  Progress(p)'
<1> DEFINE s == imp[p].scan.src
           inv == Applied(p)
<1> USE DEF fsVars, dbVars, histVars
<1>1. /\ imp[p].phase = "final" /\ s \in Sources /\ imp[p] \in Imports /\ imp[p].scan \in Scan
  BY DEF Finalize, Running, TypeOK, Imports, Scan
<1>2. imp'[p].phase = "ending" /\ imp'[p].scan = imp[p].scan /\ UNCHANGED <<db, gone>>
  BY <1>1 DEF Finalize, TypeOK, Imports
<1>3. PICK stamp \in 1 .. MaxStamp : work' = FinishSource(work, s, stamp)
  BY DEF Finalize
<1>4. stamp \in Nat /\ stamp > 0
  BY VaultAssumption
<1>5. Applied(p)' = inv
  BY <1>1, <1>2 DEF Applied
<1>6. PICK early \in SUBSET Docs, late \in SUBSET Docs :
        /\ late \subseteq Arrived(s, inv) /\ late \subseteq gone
        /\ early \subseteq Arrived(s, inv) \cup gone
        /\ work = Outcome(db, s, inv, early, late, work.scanned[s])
  BY <1>1 DEF Progress, Applying
<1>7. db \in Database /\ work \in Database /\ work.scanned[s] \in Nat /\ inv \in Inventory
  BY <1>1, AppliedType DEF TypeOK, Database
<1>8. work'.scanned[s] = stamp
  BY <1>1, <1>3, <1>4, <1>7 DEF FinishSource, Database
<1> HIDE DEF inv
<1>9. FinishSource(Outcome(db, s, inv, early, late, work.scanned[s]), s, stamp) =
        Outcome(db, s, inv, early, late, stamp)
  BY <1>1, <1>4, <1>7, OutcomeFinishes
<1>10. work' = Outcome(db', s, inv, early, late, work'.scanned[s])
  BY <1>2, <1>3, <1>6, <1>8, <1>9
<1> HIDE DEF s
<1>. QED BY <1>2, <1>4, <1>5, <1>6, <1>8, <1>10 DEF Progress, Applying, s

(* A document purged by the importing process itself, inside its import.   *)
LEMMA ProgressLoses ==
  ASSUME TypeOK, NEW p \in Procs, Progress(p), imp[p].phase \in InTransaction, writer = p,
         NEW x \in Docs, PurgeDocument(p, x)
  PROVE  Progress(p)'
<1> DEFINE s == imp[p].scan.src
           inv == Applied(p)
<1> USE DEF fsVars, dbVars, histVars
<1>1. /\ work' = DeleteDocs(work, {x}) /\ UNCHANGED <<db, imp>> /\ gone' = gone \cup {x}
  BY DEF PurgeDocument, WriteHere, View
<1>2. db \in Database /\ work \in Database /\ s \in Sources /\ inv \in Inventory
  BY AppliedType DEF TypeOK, Imports, Scan
<1>3. Applied(p)' = inv
  BY <1>1 DEF Applied
<1>4. CASE imp[p].phase = "scan"
  <2>1. PICK early \in SUBSET Docs : early \subseteq gone /\ work = DeleteDocs(db, early)
    BY <1>4 DEF Progress
  <2>2. DeleteDocs(DeleteDocs(db, early), {x}) = DeleteDocs(db, early \cup {x})
    BY <1>2, DeleteTwice
  <2>3. early \cup {x} \in SUBSET Docs /\ early \cup {x} \subseteq gone'
    BY <1>1, <2>1
  <2>4. work' = DeleteDocs(db', early \cup {x})
    BY <1>1, <2>1, <2>2
  <2>. QED BY <1>1, <1>4, <2>3, <2>4 DEF Progress, Applying
<1>5. CASE imp[p].phase \in Applying
  <2>1. PICK early \in SUBSET Docs, late \in SUBSET Docs :
          /\ late \subseteq Arrived(s, inv) /\ late \subseteq gone
          /\ early \subseteq Arrived(s, inv) \cup gone
          /\ work = Outcome(db, s, inv, early, late, work.scanned[s])
    BY <1>5 DEF Progress
  <2>2. work'.scanned = work.scanned /\ work.scanned[s] \in Nat
    BY <1>1, <1>2, SourcesTable DEF Database
  <2> DEFINE t == work.scanned[s]
  <2> HIDE DEF s, inv
  <2> DEFINE X == {x}
  <2>8. t \in Nat /\ X = {x}
    BY <2>2
  <2>9. /\ x \in Arrived(s, inv) =>
             DeleteDocs(Outcome(db, s, inv, early, late, t), X) =
               Outcome(db, s, inv, early, late \cup X, t)
        /\ x \notin Arrived(s, inv) =>
             DeleteDocs(Outcome(db, s, inv, early, late, t), X) =
               Outcome(db, s, inv, early \cup X, late, t)
    <3> HIDE DEF t, X
    <3>. QED BY <1>2, <2>8, OutcomeLoses
  <2>3. /\ x \in Arrived(s, inv) =>
             work' = Outcome(db', s, inv, early, late \cup {x}, work'.scanned[s])
        /\ x \notin Arrived(s, inv) =>
             work' = Outcome(db', s, inv, early \cup {x}, late, work'.scanned[s])
    BY <1>1, <2>1, <2>2, <2>9
  <2>4. imp'[p].phase = "ending" => work'.scanned[s] > 0
    BY <1>1, <2>2 DEF Progress, s
  <2>5. imp'[p].phase # "scan"
    BY <1>1, <1>5 DEF Applying
  <2>6. CASE x \in Arrived(s, inv)
    <3>1. /\ late \cup {x} \in SUBSET Docs
          /\ late \cup {x} \subseteq Arrived(s, inv) /\ late \cup {x} \subseteq gone'
          /\ early \subseteq Arrived(s, inv) \cup gone'
          /\ work' = Outcome(db', s, inv, early, late \cup {x}, work'.scanned[s])
      BY <1>1, <2>1, <2>2, <2>3, <2>6
    <3>. QED BY <1>1, <1>3, <2>4, <2>5, <3>1 DEF Progress, s
  <2>7. CASE x \notin Arrived(s, inv)
    <3>1. /\ early \cup {x} \in SUBSET Docs
          /\ late \subseteq Arrived(s, inv) /\ late \subseteq gone'
          /\ early \cup {x} \subseteq Arrived(s, inv) \cup gone'
          /\ work' = Outcome(db', s, inv, early \cup {x}, late, work'.scanned[s])
      BY <1>1, <2>1, <2>2, <2>3, <2>7
    <3>. QED BY <1>1, <1>3, <2>4, <2>5, <3>1 DEF Progress, s
  <2>. QED BY <2>6, <2>7
<1>. QED BY <1>4, <1>5 DEF InTransaction, Applying

(* Every step keeps the private version in step with the committed one. *)
LEMMA ProgressStep ==
  ASSUME TypeOK, AuditInvariant, WorkInvariant, [Next]_vars,
         NEW p \in Procs, writer' = p
  PROVE  Progress(p)'
<1> USE DEF fsVars, dbVars, histVars
<1>1. \A q \in Procs : /\ imp[q] \in Imports /\ imp[q].scan \in Scan
                       /\ writer = q <=> imp[q].phase \in InTransaction
  BY DEF TypeOK, Imports, AuditInvariant, WriterIsImporting
<1>2. p # None
  BY VaultAssumption
<1>3. writer = p => Progress(p)
  BY DEF WorkInvariant
<1>4. ASSUME writer = p, UNCHANGED <<db, work, gone>>, imp'[p] = imp[p]
      PROVE  Progress(p)'
  <2>1. Applied(p)' = Applied(p)
    BY <1>4 DEF Applied
  <2>. QED
    BY <1>1, <1>3, <1>4, <2>1, ProgressKept DEF InTransaction, Applying
<1>5. ASSUME NEW q \in Procs,
             CommitPreparedDirectoryImport(q) \/ \E s \in Sources : ImportDirectory(q, s)
      PROVE  Progress(p)'
  <2>1. /\ q = p /\ work' = db /\ UNCHANGED <<db, gone>> /\ imp'[q].phase = "scan"
    BY <1>5 DEF CommitPreparedDirectoryImport, ImportDirectory, BeginImport, TypeOK
  <2>2. work' = DeleteDocs(db', {}) /\ {} \in SUBSET Docs /\ {} \subseteq gone'
    BY <2>1, DeleteNothing DEF TypeOK
  <2>. QED BY <2>1, <2>2 DEF Progress, Applying
<1>6. ASSUME NEW q \in Procs, AbortImport(q) \/ ScanFile(q) \/ FinishApply(q)
      PROVE  Progress(p)'
  <2>1. /\ writer = p /\ UNCHANGED <<db, work, gone>> /\ \A o \in Procs : o # q => imp'[o] = imp[o]
    BY <1>6 DEF AbortImport, ScanFile, FinishApply, TypeOK
  <2>2. q = p
    BY <1>1, <1>6, <2>1 DEF AbortImport, ScanFile, FinishApply, Running, InTransaction
  <2>3. CASE AbortImport(p)
    <3>1. imp'[p].scan = imp[p].scan /\ imp'[p].phase = imp[p].phase
      BY <1>1, <2>3 DEF AbortImport, TypeOK, Imports
    <3>2. Applied(p)' = Applied(p)
      BY <3>1 DEF Applied
    <3>. QED BY <1>1, <1>3, <2>1, <3>1, <3>2, ProgressKept DEF InTransaction, Applying
  <2>4. CASE ScanFile(p)
    <3>1. ReadNext(imp[p].scan).src = imp[p].scan.src
      BY <1>1 DEF ReadNext, Scan
    <3>2. /\ imp[p].phase = "scan" /\ imp'[p].phase = "scan"
          /\ imp'[p].scan.src = imp[p].scan.src
      BY <1>1, <2>4, <3>1 DEF ScanFile, Running, TypeOK, Imports
    <3>. QED BY <1>3, <2>1, <3>2, ProgressKept
  <2>5. CASE FinishApply(p)
    <3>1. /\ imp[p].phase = "apply" /\ imp'[p].phase = "final" /\ imp'[p].scan = imp[p].scan
          /\ imp[p].scan.pos > NFiles /\ imp[p].scan.pos \in Nat
      BY <1>1, <2>5 DEF FinishApply, Running, Scanned, TypeOK, Imports, Scan
    <3>2. \A f \in Files : ~(f >= imp[p].scan.pos)
      BY <3>1, VaultDbAssumption DEF Files
    <3>3. Applied(p)' = Applied(p)
      BY <3>1, <3>2 DEF Applied
    <3>. QED BY <1>3, <2>1, <3>1, <3>3, ProgressKept DEF Applying
  <2>. QED BY <1>6, <2>2, <2>3, <2>4, <2>5
<1>7. ASSUME NEW q \in Procs, BeginApply(q) \/ ApplyFile(q) \/ Finalize(q)
      PROVE  Progress(p)'
  <2>1. writer = p /\ writer = q
    BY <1>1, <1>7 DEF BeginApply, ApplyFile, Finalize, Running, InTransaction
  <2>. QED BY <1>3, <1>7, <2>1, ProgressBegins, ProgressGrows, ProgressFinishes
<1>8. ASSUME NEW q \in Procs, CommitImport(q) \/ RollbackImport(q) PROVE FALSE
  BY <1>2, <1>8 DEF CommitImport, RollbackImport
<1>9. ASSUME NEW q \in Procs, ReleaseImport(q) \/ Crash(q) PROVE Progress(p)'
  <2>1. /\ writer = p /\ UNCHANGED <<db, work, gone>>
        /\ \A o \in Procs : o # q => imp'[o] = imp[o]
    BY <1>2, <1>9 DEF ReleaseImport, Crash, TypeOK
  <2>2. q # p
    BY <1>1, <1>2, <1>9, <2>1 DEF ReleaseImport, Crash, InTransaction
  <2>. QED BY <1>4, <2>1, <2>2
<1>10. ASSUME NEW q \in Procs, AuditAndReturn(q) PROVE Progress(p)'
  <2>1. writer # q
    BY <1>10
      DEF AuditAndReturn, AuditInvariant, RetrievalExcludesImport, WriterIsImporting,
          Importing, InTransaction
  <2>. QED BY <1>2, <1>10, <2>1 DEF AuditAndReturn, WriteHere
<1>11. ASSUME NEW q \in Procs, NEW x \in Docs, PurgeDocument(q, x) PROVE Progress(p)'
  <2>1. writer = p /\ q = p
    BY <1>2, <1>11 DEF PurgeDocument, WriteHere
  <2>. QED BY <1>1, <1>3, <1>11, <2>1, ProgressLoses
<1>12. ASSUME NEW q \in Procs, PurgeSource(q) \/ ClearRetrievalActivity(q) PROVE FALSE
  BY <1>2, <1>12 DEF PurgeSource, ClearRetrievalActivity
<1>13. ASSUME UNCHANGED <<db, work, writer, gone, imp>> PROVE Progress(p)'
  BY <1>4, <1>13
<1>. QED
  BY <1>5, <1>6, <1>7, <1>8, <1>9, <1>10, <1>11, <1>12, <1>13
  DEF Next, ImportStep, EndRetrieval, vars, ChangeFile, ReplaceFolder, StartPreview,
      PreviewStep, SearchVault, FetchDocument, BeginRetrieval, RefuseRetrieval,
      PrepareSourcePurge

(* At every turn of every import the private version is the committed one  *)
(* with the files applied so far installed and the purges applied.         *)
THEOREM WorkInvariantHolds == Spec => []WorkInvariant
<1>1. Init => WorkInvariant
  BY VaultAssumption DEF Init, WorkInvariant
<1>2. TypeOK /\ AuditInvariant /\ WorkInvariant /\ [Next]_vars => WorkInvariant'
  BY ProgressStep DEF WorkInvariant
<1>. QED BY <1>1, <1>2, AuditInvariantHolds, TypeCorrect, PTL DEF Spec

-----------------------------------------------------------------------------
(* Every step is a step of the ledger *)

(* The ledger's statements are those of the vault. *)
LEMMA LedgerStatements ==
  ASSUME NEW d, NEW s, NEW X, NEW t, NEW req, NEW rank, NEW ev
  PROVE  /\ Ledger!DeleteDocs(d, X) = DeleteDocs(d, X)
         /\ Ledger!FinishSource(d, s, t) = FinishSource(d, s, t)
         /\ Ledger!PurgeRows(d, s) = PurgeRows(d, s)
         /\ Ledger!Audited(d, req, rank) = Audited(d, req, rank)
         /\ Ledger!ClearEvents(d) = ClearEvents(d)
         /\ Ledger!Rankings(X) = Rankings(X)
         /\ Ledger!Requests(ev) = Requests(ev)
<1>1. Ledger!Docs = Docs /\ Ledger!DocsOf(s) = DocsOf(s)
  BY DEF Ledger!Docs, Ledger!DocsOf, Ledger!Files, Docs, DocsOf, Files
<1>2. Ledger!DeleteDocs(d, X) = DeleteDocs(d, X)
  BY <1>1 DEF Ledger!DeleteDocs, DeleteDocs
<1>3. Ledger!FinishSource(d, s, t) = FinishSource(d, s, t)
  BY DEF Ledger!FinishSource, FinishSource
<1>4. Ledger!PurgeRows(d, s) = PurgeRows(d, s)
  BY <1>1 DEF Ledger!PurgeRows, Ledger!EventsOf, PurgeRows, EventsOf
<1>8. \A S : Ledger!Cardinality(S) = Cardinality(S)
  BY DEF Ledger!Cardinality, Cardinality
<1>5. Ledger!Audited(d, req, rank) = Audited(d, req, rank)
  BY <1>8 DEF Ledger!Audited, Ledger!AuditRows, Ledger!Prune, Ledger!Newer,
         Audited, AuditRows, Prune, Newer
<1>6. Ledger!ClearEvents(d) = ClearEvents(d)
  BY DEF Ledger!ClearEvents, ClearEvents
<1>7. Ledger!Rankings(X) = Rankings(X) /\ Ledger!Requests(ev) = Requests(ev)
  BY <1>8 DEF Ledger!Rankings, Ledger!Requests, Rankings, Requests
<1>. QED BY <1>2, <1>3, <1>4, <1>5, <1>6, <1>7

(* Request numbers are handed out in order, each of them once. *)
LEMMA HandedStep == TypeOK /\ HandedOnce /\ [Next]_vars => HandedOnce'
<1> SUFFICES ASSUME TypeOK, HandedOnce, [Next]_vars PROVE HandedOnce'
  OBVIOUS
<1> USE DEF fsVars, dbVars, histVars
<1>1. requests \in Nat
  BY DEF TypeOK
<1>2. CASE UNCHANGED <<requests, handed>>
  BY <1>2 DEF HandedOnce
<1>3. ASSUME NEW p \in Procs, AuditAndReturn(p) PROVE HandedOnce'
  BY <1>1, <1>3 DEF AuditAndReturn, HandedOnce
<1>. QED
  BY <1>2, <1>3, ZenonT(60)
  DEF Next, ImportStep, EndRetrieval, vars, ChangeFile, ReplaceFolder, StartPreview,
      PreviewStep, SearchVault, FetchDocument, BeginRetrieval, RefuseRetrieval,
      PrepareSourcePurge, CommitPreparedDirectoryImport, ImportDirectory, BeginImport,
      AbortImport, ScanFile, BeginApply, ApplyFile, FinishApply, Finalize, CommitImport,
      RollbackImport, ReleaseImport, PurgeSource, PurgeDocument, ClearRetrievalActivity, Crash

(* The commit of an import installs its whole inventory at once. *)
LEMMA CommitIsImport ==
  ASSUME TypeOK, NEW p \in Procs, Progress(p), CommitImport(p)
  PROVE  \E early, late \in SUBSET Docs :
           /\ late \subseteq gone
           /\ early \subseteq Arrived(imp[p].scan.src, imp[p].scan.seen) \cup gone
           /\ db' = Outcome(db, imp[p].scan.src, imp[p].scan.seen, early, late,
                            db'.scanned[imp[p].scan.src])
           /\ db'.scanned[imp[p].scan.src] > 0
<1>1. imp[p].phase = "ending" /\ db' = work
  BY DEF CommitImport, Running
<1>2. Applied(p) = imp[p].scan.seen
  BY <1>1 DEF Applied, TypeOK, Imports, Scan, Inventory
<1>. QED BY <1>1, <1>2 DEF Progress, Applying

(* Every step of the vault is a step of the ledger or leaves it alone. *)
LEMMA LedgerStep ==
  TypeOK /\ AuditInvariant /\ WorkInvariant /\ HandedOnce /\ [Next]_vars =>
    [Ledger!Next]_(Ledger!vars)
<1> SUFFICES ASSUME TypeOK, AuditInvariant, WorkInvariant, HandedOnce, [Next]_vars
             PROVE  Ledger!Next \/ UNCHANGED <<db, handed>>
  BY DEF Ledger!vars
<1> USE DEF fsVars, dbVars, histVars
<1>1. Ledger!Docs = Docs /\ Ledger!Inventory = Inventory
  BY DEF Ledger!Docs, Ledger!Inventory, Ledger!Files, Docs, Inventory, Files
<1>2. ASSUME NEW p \in Procs, CommitImport(p) PROVE Ledger!Next
  <2> DEFINE s == imp[p].scan.src
             inv == imp[p].scan.seen
  <2>1. s \in Sources /\ inv \in Inventory
    BY DEF TypeOK, Imports, Scan
  <2>2. writer = p
    BY <1>2 DEF CommitImport, Running, AuditInvariant, WriterIsImporting, InTransaction
  <2>3. PICK early \in SUBSET Docs, late \in SUBSET Docs :
          /\ db' = Outcome(db, s, inv, early, late, db'.scanned[s])
          /\ db'.scanned[s] > 0
    BY <1>2, <2>2, CommitIsImport DEF WorkInvariant
  <2> HIDE DEF s, inv
  <2>4. Outcome(db, s, inv, early, late, db'.scanned[s]) =
          Ledger!FinishSource(
            Ledger!DeleteDocs(Ledger!Install(Ledger!DeleteDocs(db, early), s, inv), late),
            s, db'.scanned[s])
    BY LedgerStatements DEF Outcome
  <2>5. handed' = handed
    BY <1>2 DEF CommitImport
  <2>6. Ledger!Import(s, inv, early, late)
    BY <2>3, <2>4, <2>5 DEF Ledger!Import
  <2>. QED BY <1>1, <2>1, <2>6 DEF Ledger!Next
<1>3. ASSUME NEW p \in Procs, PurgeSource(p) PROVE Ledger!Next
  <2>1. PICK s \in Sources : s \in db.present /\ db' = PurgeRows(db, s)
    BY <1>3 DEF PurgeSource, Confirmed, TypeOK, Database
  <2>2. handed' = handed
    BY <1>3 DEF PurgeSource
  <2>3. Ledger!PurgeSource(s)
    BY <2>1, <2>2, LedgerStatements DEF Ledger!PurgeSource
  <2>. QED BY <2>3 DEF Ledger!Next
<1>4. ASSUME NEW p \in Procs, NEW x \in Docs, PurgeDocument(p, x)
      PROVE  Ledger!Next \/ UNCHANGED <<db, handed>>
  <2>1. handed' = handed
    BY <1>4 DEF PurgeDocument
  <2>2. db' = db \/ db' = DeleteDocs(db, {x})
    BY <1>4 DEF PurgeDocument, WriteHere, View
  <2>3. db' = DeleteDocs(db, {x}) => Ledger!PurgeDocument(x)
    BY <2>1, LedgerStatements DEF Ledger!PurgeDocument
  <2>. QED BY <1>1, <2>1, <2>2, <2>3 DEF Ledger!Next
<1>5. ASSUME NEW p \in Procs, AuditAndReturn(p) PROVE Ledger!Next
  <2> DEFINE rows == call[p].rows
             req == requests + 1
  <2>1. writer # p
    BY <1>5
      DEF AuditAndReturn, AuditInvariant, RetrievalExcludesImport, WriterIsImporting,
          Importing, InTransaction
  <2>2. PICK rank \in Rankings(rows) : db' = Audited(db, req, rank)
    BY <1>5, <2>1 DEF AuditAndReturn, WriteHere, View
  <2>3. rows \subseteq db.revs /\ handed' = handed \cup {req}
    BY <1>5, <2>1 DEF AuditAndReturn, ReferencesExist, View
  <2>4. db \in Database /\ requests \in Nat /\ rows \in Rows
    BY DEF TypeOK, Calls
  <2>5. Requests(db.events) \subseteq 1 .. requests
    BY DEF AuditInvariant, RequestsLogged
  <2> HIDE DEF rows
  <2>6. req \in Requests(db'.events)
    BY <2>2, <2>4, <2>5, AuditLogs
  <2>7. req \notin handed
    BY <2>4 DEF HandedOnce
  <2> HIDE DEF req
  <2>8. Ledger!Retrieve(req, rows)
    BY <2>2, <2>3, LedgerStatements DEF Ledger!Retrieve
  <2>9. Ledger!Requests(db'.events) = Requests(db'.events)
    BY LedgerStatements
  <2>. QED BY <2>3, <2>6, <2>7, <2>8, <2>9 DEF Ledger!Next
<1>6. ASSUME NEW p \in Procs, ClearRetrievalActivity(p) PROVE Ledger!Next
  <2>1. Ledger!Clear
    BY <1>6, LedgerStatements DEF ClearRetrievalActivity, Ledger!Clear
  <2>. QED BY <2>1 DEF Ledger!Next
<1>7. ASSUME NEW p \in Procs, \/ AbortImport(p) \/ ScanFile(p) \/ BeginApply(p) \/ ApplyFile(p)
                               \/ FinishApply(p) \/ Finalize(p) \/ RollbackImport(p)
                               \/ ReleaseImport(p) \/ CommitPreparedDirectoryImport(p)
                               \/ \E s \in Sources : ImportDirectory(p, s)
      PROVE  UNCHANGED <<db, handed>>
  BY <1>7
  DEF AbortImport, ScanFile, BeginApply, ApplyFile, FinishApply, Finalize, RollbackImport,
      ReleaseImport, CommitPreparedDirectoryImport, ImportDirectory, BeginImport
<1>8. ASSUME NEW p \in Procs, \/ PreviewStep(p) \/ SearchVault(p) \/ FetchDocument(p)
                               \/ RefuseRetrieval(p) \/ Crash(p)
                               \/ \E s \in Sources : StartPreview(p, s) \/ PrepareSourcePurge(p, s)
      PROVE  UNCHANGED <<db, handed>>
  BY <1>8
  DEF PreviewStep, SearchVault, FetchDocument, BeginRetrieval, RefuseRetrieval, Crash,
      StartPreview, PrepareSourcePurge
<1>9. ASSUME NEW s \in Sources, ReplaceFolder(s) \/ \E f \in Files : ChangeFile(s, f)
      PROVE  UNCHANGED <<db, handed>>
  BY <1>9 DEF ReplaceFolder, ChangeFile
<1>10. CASE UNCHANGED vars
  BY <1>10 DEF vars
<1>. QED
  BY <1>2, <1>3, <1>4, <1>5, <1>6, <1>7, <1>8, <1>9, <1>10 DEF Next, ImportStep, EndRetrieval

(* The vault implements its ledger: with any number of processes, however  *)
(* their imports, purges, retrievals, aborts and crashes interleave, the   *)
(* committed database moves by whole imports, purges, audited retrievals   *)
(* and clears, and each request is handed out once, with its audit entry.  *)
THEOREM VaultImplementsLedger == Spec => ImplementsLedger
<1>1. Init => HandedOnce
  BY DEF Init, HandedOnce
<1>2. Init => Ledger!Init
  BY DEF Init, Ledger!Init, EmptyVault, Docs, Files,
         Ledger!EmptyVault, Ledger!Docs, Ledger!Files
<1>3. Spec => []HandedOnce
  BY <1>1, HandedStep, TypeCorrect, PTL DEF Spec
<1>. QED
  BY <1>2, <1>3, LedgerStep, TypeCorrect, AuditInvariantHolds, WorkInvariantHolds, PTL
  DEF Spec, ImplementsLedger, Ledger!Spec

-----------------------------------------------------------------------------
(* Aborts and prepared imports *)

(* An import settles by a commit or by a rollback only. *)
LEMMA SettleStep ==
  ASSUME TypeOK, [Next]_vars, NEW p \in Procs,
         imp[p].phase # "settled", imp'[p].phase = "settled"
  PROVE  CommitImport(p) \/ RollbackImport(p)
<1> USE DEF fsVars, dbVars, histVars
<1>1. imp \in [Procs -> Imports]
  BY DEF TypeOK
<1>2. imp' # imp
  OBVIOUS
<1>3. ASSUME NEW q \in Procs, \/ AbortImport(q) \/ ScanFile(q) \/ BeginApply(q) \/ ApplyFile(q)
                               \/ FinishApply(q) \/ Finalize(q) \/ ReleaseImport(q) \/ Crash(q)
      PROVE  FALSE
  <2>1. \A o \in Procs : o # q => imp'[o] = imp[o]
    BY <1>1, <1>3
    DEF AbortImport, ScanFile, BeginApply, ApplyFile, FinishApply, Finalize, ReleaseImport, Crash
  <2>2. imp'[q].phase # "settled"
    BY <1>1, <1>3
    DEF AbortImport, ScanFile, BeginApply, ApplyFile, FinishApply, Finalize, ReleaseImport, Crash,
        Running, InTransaction, NoImport, Imports
  <2>. QED BY <2>1, <2>2
<1>4. ASSUME NEW q \in Procs,
             CommitPreparedDirectoryImport(q) \/ \E s \in Sources : ImportDirectory(q, s)
      PROVE  FALSE
  BY <1>1, <1>4 DEF CommitPreparedDirectoryImport, ImportDirectory, BeginImport
<1>5. ASSUME NEW q \in Procs, CommitImport(q) \/ RollbackImport(q)
      PROVE  CommitImport(p) \/ RollbackImport(p)
  BY <1>1, <1>5 DEF CommitImport, RollbackImport
<1>. QED
  BY <1>2, <1>3, <1>4, <1>5
  DEF Next, ImportStep, EndRetrieval, vars, ChangeFile, ReplaceFolder, StartPreview,
      PreviewStep, SearchVault, FetchDocument, BeginRetrieval, RefuseRetrieval,
      PrepareSourcePurge, AuditAndReturn, PurgeSource, PurgeDocument, ClearRetrievalActivity

(* What a prepared import installs is what it compared. *)
LEMMA ScopeStep == TypeOK /\ ScopeInvariant /\ [Next]_vars => ScopeInvariant'
<1> SUFFICES ASSUME TypeOK, ScopeInvariant, [Next]_vars, NEW p \in Procs
             PROVE  (/\ imp[p].phase \in Applying => SameScope(p)
                     /\ imp[p].phase = "settled" => ~imp[p].aborted)'
  BY DEF ScopeInvariant
<1> USE DEF fsVars, dbVars, histVars
<1>1. imp \in [Procs -> Imports]
  BY DEF TypeOK
<1>2. CASE imp'[p] = imp[p]
  BY <1>2 DEF ScopeInvariant, SameScope
<1>3. ASSUME NEW q \in Procs,
             CommitPreparedDirectoryImport(q) \/ \E s \in Sources : ImportDirectory(q, s)
      PROVE  imp'[p] # imp[p] => imp'[p].phase = "scan"
  BY <1>1, <1>3 DEF CommitPreparedDirectoryImport, ImportDirectory, BeginImport
<1>4. ASSUME NEW q \in Procs, AbortImport(q) \/ ScanFile(q)
      PROVE  imp'[p] # imp[p] =>
               \/ imp'[p].phase = "scan"
               \/ /\ imp'[p].phase = imp[p].phase /\ imp[p].phase # "settled"
                  /\ imp'[p].want = imp[p].want /\ imp'[p].scan = imp[p].scan
  BY <1>1, <1>4 DEF AbortImport, ScanFile, Running, InTransaction, Imports
<1>5. ASSUME NEW q \in Procs, BeginApply(q) \/ ApplyFile(q) \/ FinishApply(q) \/ Finalize(q)
      PROVE  imp'[p] # imp[p] =>
               /\ imp'[p].phase # "settled" /\ SameScope(p)
               /\ imp'[p].want = imp[p].want /\ imp'[p].scan.seen = imp[p].scan.seen
  BY <1>1, <1>5
  DEF BeginApply, ApplyFile, FinishApply, Finalize, Running, Applying, ScopeInvariant,
      Imports, Scan
<1>6. ASSUME NEW q \in Procs,
             CommitImport(q) \/ RollbackImport(q) \/ ReleaseImport(q) \/ Crash(q)
      PROVE  imp'[p] # imp[p] => imp'[p].phase \in {"idle", "settled"} /\ ~imp'[p].aborted
  BY <1>1, <1>6 DEF CommitImport, RollbackImport, ReleaseImport, Crash, NoImport
<1>7. imp'[p] # imp[p] =>
        (/\ imp[p].phase \in Applying => SameScope(p)
         /\ imp[p].phase = "settled" => ~imp[p].aborted)'
  BY <1>3, <1>4, <1>5, <1>6, ZenonT(40)
  DEF Next, ImportStep, EndRetrieval, vars, ChangeFile, ReplaceFolder, StartPreview,
      PreviewStep, SearchVault, FetchDocument, BeginRetrieval, RefuseRetrieval,
      PrepareSourcePurge, AuditAndReturn, PurgeSource, PurgeDocument, ClearRetrievalActivity,
      ScopeInvariant, Applying, SameScope
<1>. QED BY <1>2, <1>7

(* Prepared imports that write have compared the scopes. *)
THEOREM ScopeInvariantHolds == Spec => []ScopeInvariant
<1>1. Init => ScopeInvariant
  BY DEF Init, ScopeInvariant, NoImport, Applying
<1>. QED BY <1>1, ScopeStep, TypeCorrect, PTL DEF Spec

(* Once the abort signal has fired before COMMIT, the import leaves the    *)
(* committed database as it was, at whichever turn the abort lands.        *)
THEOREM AbortsAreRespected == Spec => AbortedImportNeverCommits
<1>1. ASSUME TypeOK, ScopeInvariant, [Next]_vars
      PROVE  [\A p \in Procs :
                imp[p].aborted /\ imp'[p].phase = "settled" => db' = db]_vars
  <2> SUFFICES ASSUME NEW p \in Procs, imp[p].aborted, imp'[p].phase = "settled"
               PROVE  db' = db
    OBVIOUS
  <2>1. imp[p].phase # "settled"
    BY <1>1 DEF ScopeInvariant
  <2>2. CommitImport(p) \/ RollbackImport(p)
    BY <1>1, <2>1, SettleStep
  <2>. QED BY <2>2 DEF CommitImport, RollbackImport, Running
<1>. QED
  BY <1>1, TypeCorrect, ScopeInvariantHolds, PTL DEF Spec, AbortedImportNeverCommits

(* The content and the lineage an outcome leaves for one document.         *)
LEMMA OutcomeContent ==
  ASSUME NEW d \in Database, NEW s \in Sources, NEW inv \in Inventory,
         NEW early, NEW late, NEW t, t \in Nat, NEW f \in Files, inv[f] # NoFile,
         NEW x, x = <<s, f>>, x \notin late
  PROVE  \E r \in CurrentOf(Outcome(d, s, inv, early, late, t), x) : r.content = inv[f]
<1> DEFINE m == DeleteDocs(d, early)
           i == Install(m, s, inv)
           k == DeleteDocs(i, late)
           n == FinishSource(k, s, t)
<1>1. m \in Database /\ i \in Database /\ k \in Database /\ n \in Database
  BY OutcomeTypes, SourceType
<1>2. Outcome(d, s, inv, early, late, t) = n
  BY OutcomeInstall
<1>3. x \in Docs /\ x \in DocsOf(s) /\ x[2] = f
  BY DEF Docs, DocsOf
<1>4. n.cur = k.cur /\ n.revs = k.revs
  <2> HIDE DEF k
  <2>. QED BY <1>1, FinishTables, ZenonT(40)
<1>5. k.cur = [y \in Docs |-> IF y \in late THEN 0 ELSE i.cur[y]]
      /\ k.revs = {r \in i.revs : r.doc \notin late}
  <2> HIDE DEF i
  <2>. QED BY <1>1, DeleteTables
<1>6. /\ i.cur = [y \in Docs |-> IF y \in Pending(m, s, inv) THEN m.cur[y] + 1 ELSE m.cur[y]]
      /\ i.revs = m.revs \cup {NextRevision(m, y, inv[y[2]]) : y \in Pending(m, s, inv)}
  <2> HIDE DEF m
  <2>. QED BY <1>1, InstallTables
<1> HIDE DEF m, i, k, n
<1>7. CASE x \in Pending(m, s, inv)
  <2> DEFINE r == NextRevision(m, x, inv[f])
  <2>1. r \in i.revs /\ i.cur[x] = m.cur[x] + 1
    BY <1>3, <1>6, <1>7
  <2>2. r.doc = x /\ r.ord = m.cur[x] + 1 /\ r.content = inv[f]
    BY DEF NextRevision
  <2>3. r \in CurrentOf(n, x)
    BY <1>3, <1>4, <1>5, <2>1, <2>2 DEF CurrentOf, CurrentRevs
  <2>. QED BY <1>2, <2>2, <2>3
<1>8. CASE x \notin Pending(m, s, inv)
  <2>1. PICK r \in CurrentOf(m, x) : r.content = inv[f]
    BY <1>3, <1>8 DEF Pending
  <2>2. r \in m.revs /\ r.doc = x /\ r.ord = m.cur[x]
    BY <2>1 DEF CurrentOf, CurrentRevs
  <2>3. r \in i.revs /\ i.cur[x] = m.cur[x]
    BY <1>3, <1>6, <1>8, <2>2
  <2>4. r \in CurrentOf(n, x)
    BY <1>3, <1>4, <1>5, <2>2, <2>3 DEF CurrentOf, CurrentRevs
  <2>. QED BY <1>2, <2>1, <2>4
<1>. QED BY <1>7, <1>8

(* The documents an outcome does not move. *)
LEMMA OutcomeSpares ==
  ASSUME NEW d \in Database, NEW s \in Sources, NEW inv \in Inventory,
         NEW early, NEW late, NEW t, t \in Nat, NEW x \in Docs,
         x \notin Arrived(s, inv), x \notin early, x \notin late
  PROVE  Outcome(d, s, inv, early, late, t).cur[x] = d.cur[x]
<1> DEFINE m == DeleteDocs(d, early)
           i == Install(m, s, inv)
           k == DeleteDocs(i, late)
           n == FinishSource(k, s, t)
<1>1. m \in Database /\ i \in Database /\ k \in Database /\ n \in Database
  BY OutcomeTypes, SourceType
<1>2. Outcome(d, s, inv, early, late, t) = n
  BY OutcomeInstall
<1>3. x \notin Pending(m, s, inv)
  BY DEF Pending, Arrived
<1>4. n.cur = k.cur
  <2> HIDE DEF k
  <2>. QED BY <1>1, FinishTables
<1>5. k.cur = [y \in Docs |-> IF y \in late THEN 0 ELSE i.cur[y]]
  <2> HIDE DEF i
  <2>. QED BY <1>1, DeleteTables
<1>6. i.cur = [y \in Docs |-> IF y \in Pending(m, s, inv) THEN m.cur[y] + 1 ELSE m.cur[y]]
  <2> HIDE DEF m
  <2>. QED BY <1>1, InstallTables
<1>7. m.cur = [y \in Docs |-> IF y \in early THEN 0 ELSE d.cur[y]]
  BY DeleteTables
<1> HIDE DEF m, i, k, n
<1>. QED BY <1>2, <1>3, <1>4, <1>5, <1>6, <1>7

(* A prepared import installs exactly the inventory its preview showed,    *)
(* but for what was purged meanwhile, and moves no other document.         *)
THEOREM PreviewsAreCommitted == Spec => PreviewedScopeIsCommitted
<1> DEFINE Kept(p) ==
      imp[p].phase = "ending" /\ db' # db /\ imp[p].want # None /\ imp'[p].phase = "settled" =>
        /\ \A f \in Files, c \in Contents :
             LET x == <<imp[p].scan.src, f>> IN
             imp[p].want[f] = c /\ x \notin gone =>
               \E r \in CurrentOf(db', x) : r.content = c
        /\ \A x \in Docs \ gone :
             (x[1] # imp[p].scan.src \/ imp[p].want[x[2]] = NoFile) =>
               db'.cur[x] = db.cur[x]
<1>1. ASSUME TypeOK, AuditInvariant, ScopeInvariant, WorkInvariant, [Next]_vars
      PROVE  [\A p \in Procs : Kept(p)]_vars
  <2> SUFFICES ASSUME NEW p \in Procs, imp[p].phase = "ending", db' # db,
                      imp[p].want # None, imp'[p].phase = "settled"
               PROVE  Kept(p)
    OBVIOUS
  <2> DEFINE s == imp[p].scan.src
             inv == imp[p].scan.seen
             t == db'.scanned[s]
  <2>1. CommitImport(p)
    BY <1>1, SettleStep DEF RollbackImport, dbVars
  <2>2. s \in Sources /\ inv \in Inventory /\ db \in Database /\ work \in Database
    BY <1>1 DEF TypeOK, Imports, Scan
  <2>3. writer = p /\ db' = work
    BY <1>1, <2>1 DEF CommitImport, AuditInvariant, WriterIsImporting, InTransaction
  <2>4. imp[p].want = inv
    BY <1>1 DEF ScopeInvariant, Applying, SameScope
  <2>5. PICK early \in SUBSET Docs, late \in SUBSET Docs :
          /\ late \subseteq gone
          /\ early \subseteq Arrived(s, inv) \cup gone
          /\ db' = Outcome(db, s, inv, early, late, t)
    BY <1>1, <2>1, <2>3, CommitIsImport DEF WorkInvariant
  <2>6. t \in Nat
    BY <2>2, <2>3 DEF Database
  <2> HIDE DEF s, inv, t
  <2>7. ASSUME NEW f \in Files, NEW c \in Contents, inv[f] = c, NEW x, x = <<s, f>>, x \notin gone
        PROVE  \E r \in CurrentOf(db', x) : r.content = c
    <3>1. inv[f] # NoFile
      BY <2>7, VaultDbAssumption
    <3>. QED BY <2>2, <2>5, <2>6, <2>7, <3>1, OutcomeContent
  <2>8. ASSUME NEW x \in Docs, x \notin gone, x[1] # s \/ inv[x[2]] = NoFile
        PROVE  db'.cur[x] = db.cur[x]
    <3>1. x \notin Arrived(s, inv)
      BY <2>8 DEF Arrived, DocsOf
    <3>2. x \notin early /\ x \notin late
      BY <2>5, <2>8, <3>1
    <3>. QED BY <2>2, <2>5, <2>6, <3>1, <3>2, OutcomeSpares
  <2>. QED BY <2>4, <2>7, <2>8 DEF s
<1>. QED
  BY <1>1, TypeCorrect, AuditInvariantHolds, ScopeInvariantHolds, WorkInvariantHolds, PTL
  DEF Spec, PreviewedScopeIsCommitted
=============================================================================
