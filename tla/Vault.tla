-------------------------------- MODULE Vault --------------------------------
(***************************************************************************)
(* Several processes with a connection each to one vault database          *)
(* (packages/core/src/vault.ts): the desktop application, and MCP servers  *)
(* that open the same file.                                                *)
(*                                                                         *)
(* A process runs one JavaScript turn at a time.  An import is one SQLite  *)
(* transaction that spans many turns: everything between BEGIN IMMEDIATE   *)
(* and COMMIT lives in `work`, seen by the importing connection only, and  *)
(* `writer` is the holder of the single write slot of the WAL database.    *)
(* Search and fetch read and audit in one turn, but as two transactions,   *)
(* so that other processes may write between the two.                      *)
(*                                                                         *)
(* Calls that are refused (an import is running, SQLITE_BUSY, not found,   *)
(* stale confirmation) change no state and are the guards of the actions.  *)
(***************************************************************************)
EXTENDS VaultDb

CONSTANTS
  Procs,        \* processes with an open vault
  Desktops,     \* those that import, purge and clear; the others only retrieve
  Previewers,   \* desktops that preview a folder before importing it
  None,
  MaxStamp,     \* bound: distinct values of the wall clock
  MaxOrd,       \* bound: revisions of one document
  MaxRequests,  \* bound: audited requests
  MaxReceipts,  \* bound: purges of one source
  MaxRoots,     \* bound: times the folder itself is replaced
  Limit         \* most results of a search

ASSUME VaultAssumption ==
  /\ Sources # {}
  /\ Desktops \subseteq Procs /\ Previewers \subseteq Desktops
  /\ None \notin Procs
  /\ {MaxStamp, MaxOrd, MaxRequests, MaxReceipts, MaxRoots, Limit} \subseteq Nat
  /\ Limit <= MaxRows

VARIABLES
  disk,      \* the folders: what each path holds
  root,      \* identity of each folder (device, inode, birth time)
  db,        \* the committed database
  work,      \* the writer's uncommitted version
  writer,    \* process inside BEGIN IMMEDIATE across turns, or None
  preview,   \* directory-import preview of each process
  imp,       \* its running import; phase "idle": importingSources is empty
  call,      \* its search or fetch between the SELECT and the audit
  ticket,    \* its purge preview, as shown in a confirmation dialog
  requests,  \* retrieval requests audited so far
  handed,    \* history: requests whose results were returned
  erased,    \* history: requests whose audit rows were deleted on purpose
  gone       \* history: documents purgeDocument reported deleted

fsVars == <<disk, root>>
dbVars == <<db, work, writer>>
histVars == <<requests, handed, erased, gone>>
vars == <<fsVars, dbVars, preview, imp, call, ticket, histVars>>

InTransaction == {"scan", "apply", "final", "ending"}
Scan == [src : Sources, root : Nat, seen : Inventory, pos : Nat \ {0}]
Blank == [src |-> CHOOSE s \in Sources : TRUE, root |-> 0,
          seen |-> [f \in Files |-> NoFile], pos |-> 1]
NoPreview == [phase |-> "none", scan |-> Blank]
NoImport == [phase |-> "idle", scan |-> Blank, want |-> None, aborted |-> FALSE]
NoCall == [kind |-> "none", rows |-> {}]

Previews == [phase : {"none", "scan", "ready"}, scan : Scan]
Imports == [phase : InTransaction \cup {"idle", "settled"}, scan : Scan,
            want : Inventory \cup {None}, aborted : BOOLEAN]
Rows == {R \in SUBSET Revisions : IsFiniteSet(R)}
Calls == [kind : {"none", "search", "fetch"}, rows : Rows]
Tokens == [source : Sources, scanned : Nat, lineage : SUBSET (Docs \X SUBSET Revisions)]
Tickets == [token : Tokens, shown : SUBSET (Docs \X Contents)]

Init ==
  /\ disk \in [Sources -> Inventory]
  /\ root = [s \in Sources |-> 0]
  /\ db = EmptyVault /\ work = EmptyVault /\ writer = None
  /\ preview = [p \in Procs |-> NoPreview]
  /\ imp = [p \in Procs |-> NoImport]
  /\ call = [p \in Procs |-> NoCall]
  /\ ticket = [p \in Procs |-> None]
  /\ requests = 0 /\ handed = {} /\ erased = {} /\ gone = {}

-----------------------------------------------------------------------------
(* The file system, outside the program's control. *)

ChangeFile(s, f) ==
  /\ \E c \in Contents \cup {NoFile} :
       c # disk[s][f] /\ disk' = [disk EXCEPT ![s][f] = c]
  /\ UNCHANGED <<root, dbVars, preview, imp, call, ticket, histVars>>

ReplaceFolder(s) ==
  /\ root[s] < MaxRoots
  /\ root' = [root EXCEPT ![s] = @ + 1]
  /\ UNCHANGED <<disk, dbVars, preview, imp, call, ticket, histVars>>

-----------------------------------------------------------------------------
(* Scanning a folder.  Every file is read in a turn of its own; the root's *)
(* identity is checked when the walk starts and when it ends.              *)

StartOf(s) == [Blank EXCEPT !.src = s, !.root = root[s]]
RootUnchanged(scan) == root[scan.src] = scan.root
Scanned(scan) == scan.pos > NFiles
ReadNext(scan) ==
  [scan EXCEPT !.seen[scan.pos] = disk[scan.src][scan.pos], !.pos = @ + 1]
HasCandidate(inv) == \E f \in Files : inv[f] # NoFile

(* The event loop of p is free: no synchronous search or fetch is running. *)
Turn(p) == call[p].kind = "none"

StartPreview(p, s) ==
  /\ Turn(p) /\ p \in Previewers
  /\ preview' = [preview EXCEPT ![p] = [phase |-> "scan", scan |-> StartOf(s)]]
  /\ UNCHANGED <<fsVars, dbVars, imp, call, ticket, histVars>>

PreviewStep(p) ==
  /\ Turn(p) /\ preview[p].phase = "scan"
  /\ LET scan == preview[p].scan IN
       preview' = [preview EXCEPT ![p] =
         IF (scan.pos = 1 \/ Scanned(scan)) /\ ~RootUnchanged(scan) THEN NoPreview
         ELSE IF Scanned(scan) THEN [phase |-> "ready", scan |-> scan]
         ELSE [phase |-> "scan", scan |-> ReadNext(scan)]]
  /\ UNCHANGED <<fsVars, dbVars, imp, call, ticket, histVars>>

-----------------------------------------------------------------------------
(* Imports *)

Importing(p) == imp[p].phase # "idle"

(* importingSources.add, then BEGIN IMMEDIATE: one turn.  `want` is the    *)
(* inventory of the preview that is being committed, None for a direct     *)
(* importDirectory.                                                        *)
BeginImport(p, scan, want) ==
  /\ Turn(p) /\ ~Importing(p) /\ writer = None
  /\ imp' = [imp EXCEPT ![p] =
       [phase |-> "scan", scan |-> scan, want |-> want, aborted |-> FALSE]]
  /\ writer' = p /\ work' = db
  /\ UNCHANGED <<fsVars, db, preview, call, ticket, histVars>>

ImportDirectory(p, s) == p \in Desktops /\ BeginImport(p, StartOf(s), None)

CommitPreparedDirectoryImport(p) ==
  LET scan == preview[p].scan IN
  /\ preview[p].phase = "ready" /\ HasCandidate(scan.seen)
  /\ BeginImport(p, [StartOf(scan.src) EXCEPT !.root = scan.root], scan.seen)

AbortImport(p) ==
  /\ imp[p].phase \in InTransaction /\ ~imp[p].aborted
  /\ imp' = [imp EXCEPT ![p].aborted = TRUE]
  /\ UNCHANGED <<fsVars, dbVars, preview, call, ticket, histVars>>

(* An abort that lands during the last await of a step is noticed right    *)
(* after its write; the rollback makes that the same as noticing it before.*)
RunningUnchecked(p, phase) ==   \* mutant: throwIfAborted dropped
  Turn(p) /\ imp[p].phase = phase
Running(p, phase) == Turn(p) /\ imp[p].phase = phase /\ ~imp[p].aborted

ScanFile(p) ==
  LET scan == imp[p].scan IN
  /\ Running(p, "scan") /\ ~Scanned(scan)
  /\ scan.pos = 1 => RootUnchanged(scan)
  /\ imp' = [imp EXCEPT ![p].scan = ReadNext(scan)]
  /\ UNCHANGED <<fsVars, dbVars, preview, call, ticket, histVars>>

AnyScope(p) == TRUE   \* mutant: the fingerprints are not compared
SameScope(p) == imp[p].want = None \/ imp[p].want = imp[p].scan.seen

(* The inventory is complete and, for a prepared import, still the one the *)
(* preview fingerprinted.                                                  *)
BeginApply(p) ==
  LET scan == imp[p].scan IN
  /\ Running(p, "scan") /\ Scanned(scan) /\ RootUnchanged(scan) /\ SameScope(p)
  /\ work' = BeginSource(work, scan.src)
  /\ imp' = [imp EXCEPT ![p].phase = "apply", ![p].scan.pos = 1]
  /\ UNCHANGED <<fsVars, db, writer, preview, call, ticket, histVars>>

(* prepareFile reads the file again and insists on the scanned bytes. *)
ApplyFile(p) ==
  LET scan == imp[p].scan
      x == <<scan.src, scan.pos>>
      c == scan.seen[scan.pos]
  IN
  /\ Running(p, "apply") /\ ~Scanned(scan)
  /\ imp' = [imp EXCEPT ![p].scan.pos = @ + 1]
  /\ IF c = NoFile THEN UNCHANGED <<work, gone>>
     ELSE /\ disk[scan.src][scan.pos] = c
          /\ work' = ImportPreparedFile(work, x, c)
          /\ work'.cur[x] <= MaxOrd
          /\ gone' = gone \ {x}
  /\ UNCHANGED <<fsVars, db, writer, preview, call, ticket, requests, handed, erased>>

FinishApply(p) ==
  /\ Running(p, "apply") /\ Scanned(imp[p].scan)
  /\ imp' = [imp EXCEPT ![p].phase = "final"]
  /\ UNCHANGED <<fsVars, dbVars, preview, call, ticket, histVars>>

Finalize(p) ==
  /\ Running(p, "final") /\ RootUnchanged(imp[p].scan)
  /\ \E stamp \in 1 .. MaxStamp : work' = FinishSource(work, imp[p].scan.src, stamp)
  /\ imp' = [imp EXCEPT ![p].phase = "ending"]
  /\ UNCHANGED <<fsVars, db, writer, preview, call, ticket, histVars>>

CommitImport(p) ==
  /\ Running(p, "ending")
  /\ db' = work /\ writer' = None /\ work' = EmptyVault
  /\ imp' = [imp EXCEPT ![p] = [NoImport EXCEPT !.phase = "settled"]]
  /\ UNCHANGED <<fsVars, preview, call, ticket, histVars>>

RollbackLost(p) ==   \* mutant: the error path leaves the transaction open
  /\ Turn(p) /\ imp[p].phase \in InTransaction
  /\ imp' = [imp EXCEPT ![p] = [NoImport EXCEPT !.phase = "settled"]]
  /\ UNCHANGED <<fsVars, dbVars, preview, call, ticket, histVars>>
RollbackCommits(p) ==   \* mutant: the error path commits what there is
  /\ Turn(p) /\ imp[p].phase \in InTransaction
  /\ db' = work /\ writer' = None /\ work' = EmptyVault
  /\ imp' = [imp EXCEPT ![p] = [NoImport EXCEPT !.phase = "settled"]]
  /\ UNCHANGED <<fsVars, preview, call, ticket, histVars>>

(* An abort, a changed scope, an I/O or SQL error: ROLLBACK. *)
RollbackImport(p) ==
  /\ Turn(p) /\ imp[p].phase \in InTransaction
  /\ writer' = None /\ work' = EmptyVault
  /\ imp' = [imp EXCEPT ![p] = [NoImport EXCEPT !.phase = "settled"]]
  /\ UNCHANGED <<fsVars, db, preview, call, ticket, histVars>>

NeverReleased(p) == FALSE   \* mutant: importingSources.delete is lost

(* The finally block runs a microtask after the transaction has settled. *)
ReleaseImport(p) ==
  /\ Turn(p) /\ imp[p].phase = "settled"
  /\ imp' = [imp EXCEPT ![p] = NoImport]
  /\ UNCHANGED <<fsVars, dbVars, preview, call, ticket, histVars>>

ImportStep(p) ==
  \/ ScanFile(p) \/ BeginApply(p) \/ ApplyFile(p) \/ FinishApply(p)
  \/ Finalize(p) \/ CommitImport(p) \/ RollbackImport(p) \/ ReleaseImport(p)

-----------------------------------------------------------------------------
(* Retrieval.  The SELECT and the audit of one call, in one turn. *)

AlwaysAvailable(p) == TRUE   \* mutant: retrieval does not look at importingSources
RetrievalAuditAvailable(p) == ~Importing(p)
View(p) == IF writer = p THEN work ELSE db

BeginRetrieval(p, kind, rows) ==
  /\ Turn(p) /\ RetrievalAuditAvailable(p)
  /\ requests < MaxRequests
  /\ call' = [call EXCEPT ![p] = [kind |-> kind, rows |-> rows]]
  /\ UNCHANGED <<fsVars, dbVars, preview, imp, ticket, histVars>>

(* Which chunks match the query, collection and dates is left open. *)
SearchVault(p) ==
  \E rows \in SUBSET Visible(View(p)) :
    /\ IsFiniteSet(rows) /\ Cardinality(rows) <= Limit
    /\ BeginRetrieval(p, "search", rows)

(* A document that is not there returns null and leaves no audit row. *)
FetchDocument(p) ==
  \E r \in Visible(View(p)) : BeginRetrieval(p, "fetch", {r})

ReferencesUnchecked(p, rows) == TRUE   \* mutant: foreign keys off

(* The INSERT's foreign keys refer to rows that may be gone by now. *)
ReferencesExist(p, rows) == rows \subseteq View(p).revs

(* The savepoint runs in the process's own transaction when it has one. *)
WriteHere(p, new) ==
  IF writer = p THEN work' = new /\ UNCHANGED <<db, writer>>
  ELSE writer = None /\ db' = new /\ UNCHANGED <<work, writer>>

(* Requests that lose their last audit row between two versions. *)
Dropped(old, new) == Requests(old.events) \ Requests(new.events)

AuditAndReturn(p) ==
  /\ call[p].kind # "none"
  /\ ReferencesExist(p, call[p].rows)
  /\ \E rank \in Rankings(call[p].rows) :
       LET new == Audited(View(p), requests + 1, rank) IN
         /\ WriteHere(p, new)
         /\ erased' = erased \cup Dropped(View(p), new)
  /\ requests' = requests + 1
  /\ handed' = handed \cup {requests + 1}
  /\ call' = [call EXCEPT ![p] = NoCall]
  /\ UNCHANGED <<fsVars, preview, imp, ticket, gone>>

(* SQLITE_BUSY, a foreign key that no longer resolves, a full disk: the    *)
(* call throws and returns nothing.                                        *)
RefuseRetrieval(p) ==
  /\ call[p].kind # "none"
  /\ call' = [call EXCEPT ![p] = NoCall]
  /\ UNCHANGED <<fsVars, dbVars, preview, imp, ticket, histVars>>

EndRetrieval(p) == AuditAndReturn(p) \/ RefuseRetrieval(p)

-----------------------------------------------------------------------------
(* Removal *)

CurrentContent(d, s) == {<<r.doc, r.content>> : r \in {q \in CurrentRevs(d) : q.doc[1] = s}}

(* A preview of what a purge would remove; `shown` is what the user was    *)
(* shown, kept for the properties.                                         *)
PrepareSourcePurge(p, s) ==
  /\ Turn(p) /\ p \in Desktops /\ ~Importing(p)
  /\ s \in db.present
  /\ ticket' = [ticket EXCEPT ![p] =
       [token |-> SnapshotToken(db, s), shown |-> CurrentContent(db, s)]]
  /\ UNCHANGED <<fsVars, dbVars, preview, imp, call, histVars>>

Confirmed(d, t) ==
  t.token.source \in d.present /\ SnapshotToken(d, t.token.source) = t.token

PurgeSource(p) ==
  /\ Turn(p) /\ ticket[p] # None /\ ~Importing(p) /\ writer = None
  /\ Confirmed(db, ticket[p])
  /\ db.receipts[ticket[p].token.source] < MaxReceipts
  /\ db' = PurgeRows(db, ticket[p].token.source)
  /\ erased' = erased \cup Dropped(db, PurgeRows(db, ticket[p].token.source))
  /\ ticket' = [ticket EXCEPT ![p] = None]
  /\ UNCHANGED <<fsVars, work, writer, preview, imp, call, requests, handed, gone>>

(* A SAVEPOINT without the import guard: during an import of the same      *)
(* process it nests inside the import's transaction.                       *)
PurgeDocument(p, x) ==
  /\ Turn(p) /\ p \in Desktops
  /\ View(p).cur[x] # 0
  /\ WriteHere(p, DeleteDocs(View(p), {x}))
  /\ gone' = gone \cup {x}
  /\ UNCHANGED <<fsVars, preview, imp, call, ticket, requests, handed, erased>>

(* BEGIN IMMEDIATE throws inside the process's own import. *)
ClearRetrievalActivity(p) ==
  /\ Turn(p) /\ p \in Desktops /\ writer = None
  /\ db.events # {}
  /\ db' = ClearEvents(db)
  /\ erased' = erased \cup Requests(db.events)
  /\ UNCHANGED <<fsVars, work, writer, preview, imp, call, ticket, requests, handed, gone>>

(* The process exits, is killed, or closes its vault: SQLite rolls its     *)
(* open transaction back.                                                  *)
Crash(p) ==
  /\ writer' = IF writer = p THEN None ELSE writer
  /\ work' = IF writer = p THEN EmptyVault ELSE work
  /\ preview' = [preview EXCEPT ![p] = NoPreview]
  /\ imp' = [imp EXCEPT ![p] = NoImport]
  /\ call' = [call EXCEPT ![p] = NoCall]
  /\ ticket' = [ticket EXCEPT ![p] = None]
  /\ UNCHANGED <<fsVars, db, histVars>>

-----------------------------------------------------------------------------

Next ==
  \/ \E s \in Sources : ReplaceFolder(s) \/ \E f \in Files : ChangeFile(s, f)
  \/ \E p \in Procs :
       \/ PreviewStep(p) \/ CommitPreparedDirectoryImport(p)
       \/ AbortImport(p) \/ ImportStep(p)
       \/ SearchVault(p) \/ FetchDocument(p) \/ EndRetrieval(p)
       \/ PurgeSource(p) \/ ClearRetrievalActivity(p) \/ Crash(p)
       \/ \E s \in Sources :
            StartPreview(p, s) \/ ImportDirectory(p, s) \/ PrepareSourcePurge(p, s)
       \/ \E x \in Docs : PurgeDocument(p, x)

Spec == Init /\ [][Next]_vars

(* Awaited file reads settle and the event loop keeps turning; users,      *)
(* clients and the file system owe nothing.                                *)
Fairness == \A p \in Procs : WF_vars(ImportStep(p)) /\ WF_vars(EndRetrieval(p))
FairSpec == Spec /\ Fairness

-----------------------------------------------------------------------------
(* Properties *)

TypeOK ==
  /\ disk \in [Sources -> Inventory]
  /\ root \in [Sources -> Nat]
  /\ db \in Database /\ work \in Database
  /\ writer \in Procs \cup {None}
  /\ preview \in [Procs -> Previews]
  /\ imp \in [Procs -> Imports]
  /\ call \in [Procs -> Calls]
  /\ ticket \in [Procs -> Tickets \cup {None}]
  /\ requests \in Nat
  /\ handed \subseteq Nat /\ erased \subseteq Nat
  /\ gone \subseteq Docs

(* Retrieval "fails closed": every request whose results were returned is  *)
(* in the committed activity log until a clear, a purge or the row cap     *)
(* removes it.  No rollback, crash or concurrent writer may lose it.       *)
HandedIsAudited == handed \subseteq Requests(db.events) \cup erased

(* Why: an import in flight holds the write slot and cannot audit, so the  *)
(* requests logged in its private version are those of the committed one,  *)
(* and request numbers only grow.                                          *)
WriterIsImporting == \A p \in Procs : writer = p <=> imp[p].phase \in InTransaction
WriterKeepsActivity == writer # None => Requests(work.events) = Requests(db.events)
RetrievalExcludesImport == \A p \in Procs : call[p].kind # "none" => ~Importing(p)
RequestsLogged == Requests(db.events) \subseteq 1 .. requests

AuditInvariant ==
  /\ WriterIsImporting /\ WriterKeepsActivity /\ RetrievalExcludesImport
  /\ RequestsLogged /\ HandedIsAudited

(* The physical cap on audit rows holds in every committed state. *)
ActivityBounded == Cardinality(db.events) <= MaxRows

(* The foreign keys and the uncascaded references hold in every committed  *)
(* state, whatever imports, purges and retrievals interleave.              *)
NoOrphanRows == NoOrphans(db)

(* Every document's current revision is its newest, and there is one.      *)
LineageIntact == CurrentIsNewest(db)

(* A source another process can see is never half imported: its scan time  *)
(* is NULL only inside the import's own transaction.                       *)
NoHalfImportedSource == \A s \in db.present : db.scanned[s] # 0

(* What purgeDocument reported deleted stays deleted until a later import  *)
(* brings the file back.                                                   *)
PurgedDocumentStaysGone ==
  writer = None => \A x \in gone : db.cur[x] = 0

(* Everything returned is in the vault, and audited chunk by chunk, at the *)
(* moment of the return, even if another process purged since the SELECT.  *)
ReturnsOnlyAuditedContext ==
  [][\A p \in Procs :
       handed' # handed /\ call[p] # call'[p] =>
         \A r \in call[p].rows :
           /\ r \in db'.revs
           /\ \E e \in db'.events : e.req = requests' /\ e.ref = {r}]_vars

(* A prepared import installs exactly the previewed inventory, file by     *)
(* file, from the previewed folder, and no other source changes.           *)
PreviewedScopeIsCommitted ==
  [][\A p \in Procs :
       imp[p].phase = "ending" /\ db' # db /\ imp[p].want # None
         /\ imp'[p].phase = "settled" =>
           /\ \A f \in Files, c \in Contents :
                LET x == <<imp[p].scan.src, f>> IN
                imp[p].want[f] = c /\ x \notin gone =>
                  \E r \in CurrentOf(db', x) : r.content = c
           /\ \A x \in Docs \ gone :
                (x[1] # imp[p].scan.src \/ imp[p].want[x[2]] = NoFile) =>
                  db'.cur[x] = db.cur[x]]_vars

(* Once the abort signal has fired before COMMIT, nothing is committed. *)
AbortedImportNeverCommits ==
  [][\A p \in Procs :
       imp[p].aborted /\ imp'[p].phase = "settled" => db' = db]_vars

(* A purge removes what its confirmation showed and nothing else: same     *)
(* documents, same current contents, other sources untouched.              *)
PurgeMatchesConfirmation ==
  [][\A p \in Procs, s \in Sources :
       db'.receipts[s] # db.receipts[s] /\ ticket'[p] # ticket[p] =>
         /\ ticket[p].shown = CurrentContent(db, s)
         /\ s \notin db'.present
         /\ \A r \in db'.revs : r.doc[1] # s
         /\ \A e \in db'.events, r \in UNION {q.ref : q \in db.events} :
              r \in e.ref => r.doc[1] # s
         /\ {r \in db'.revs : r.doc[1] # s} = {r \in db.revs : r.doc[1] # s}]_vars

(* Seen from the committed database, every import, purge, retrieval and    *)
(* clear is one atomic step, whatever awaits, aborts and crashes there are *)
(* inside: the vault implements its abstract specification.                *)
Ledger == INSTANCE VaultLedger WITH db <- db, handed <- handed
ImplementsLedger == Ledger!Spec

(* An import always ends and frees the process for search, purge and the   *)
(* next import.                                                            *)
ImportEnds == \A p \in Procs : Importing(p) ~> ~Importing(p)

(* The write slot is never held forever. *)
WriterReleases == \A p \in Procs : writer = p ~> writer # p
=============================================================================
