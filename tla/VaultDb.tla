------------------------------- MODULE VaultDb -------------------------------
(***************************************************************************)
(* The contents of one OhMyContext vault database and the statements that  *)
(* packages/core/src/vault.ts runs against it, as pure operators on a      *)
(* record `d`.  Who runs them, in which transaction and in which order is  *)
(* module Vault.                                                           *)
(*                                                                         *)
(* A document is a file of a folder source.  Its text is a member of       *)
(* Contents; every revision owns exactly one chunk, so a revision row      *)
(* stands for its revisions, chunks and chunks_fts rows (cascades and the  *)
(* three FTS triggers of schema.ts keep those together).  Identifiers are  *)
(* injective hashes of what they name (ids.ts), so a row is its own        *)
(* identifier: a revision's is <<document, ordinal, content>>.             *)
(***************************************************************************)
EXTENDS Integers, FiniteSets

CONSTANTS
  Sources,      \* folder sources, one per (root, collection)
  NFiles,       \* files of a folder are 1 .. NFiles, in inventory order
  Contents,     \* the texts a file can hold
  NoFile,       \* nothing importable at this path
  MaxRows       \* MAX_RETRIEVAL_ACTIVITY_ROWS

ASSUME VaultDbAssumption ==
  /\ NFiles \in Nat \ {0}
  /\ MaxRows \in Nat \ {0}
  /\ NoFile \notin Contents

Files == 1 .. NFiles
Docs == Sources \X Files
Inventory == [Files -> Contents \cup {NoFile}]
Revisions == [doc : Docs, ord : Nat, content : Contents]
Events == [req : Nat, rank : Nat, ref : SUBSET Revisions]

(* present: rows of sources.  scanned: last_scanned_at, 0 for NULL.        *)
(* cur: ordinal of current_revision_id, 0 when there is no document row.   *)
(* ref of an event: {} once ON DELETE SET NULL has cleared it.             *)
(* receipts: how many deletion receipts name the source; their ids are     *)
(* random and their counts are not modelled.                               *)
Database ==
  [present : SUBSET Sources, scanned : [Sources -> Nat], cur : [Docs -> Nat],
   revs : SUBSET Revisions, events : SUBSET Events, receipts : [Sources -> Nat]]

EmptyVault ==
  [present |-> {}, scanned |-> [s \in Sources |-> 0],
   cur |-> [d \in Docs |-> 0], revs |-> {}, events |-> {}, receipts |-> [s \in Sources |-> 0]]

-----------------------------------------------------------------------------
(* Reading *)

DocsOf(s) == {s} \X Files
CurrentRevs(d) == {r \in d.revs : r.ord = d.cur[r.doc]}
CurrentOf(d, x) == {r \in CurrentRevs(d) : r.doc = x}

(* What the search and fetch SELECTs can see: current revisions of sources *)
(* whose scan is complete.                                                 *)
Visible(d) ==
  {r \in CurrentRevs(d) : r.doc[1] \in d.present /\ d.scanned[r.doc[1]] # 0}

(* The purge confirmation: its hash covers the source, the scan time, the  *)
(* number of documents and the current revision of each of them.           *)
ScanTimeToken(d, s) ==   \* mutant: the confirmation covers the scan time only
  [source |-> s, scanned |-> d.scanned[s], lineage |-> {}]

SnapshotToken(d, s) ==
  [source |-> s, scanned |-> d.scanned[s],
   lineage |-> {<<x, CurrentOf(d, x)>> : x \in {y \in DocsOf(s) : d.cur[y] # 0}}]

Requests(ev) == {e.req : e \in ev}

-----------------------------------------------------------------------------
(* Writing *)

(* The upsert that opens the second half of an import. *)
BeginSource(d, s) ==
  [d EXCEPT !.present = @ \cup {s}, !.scanned[s] = 0]

FinishNothing(d, s, stamp) == d   \* mutant: the last statement is lost
FinishSource(d, s, stamp) == [d EXCEPT !.scanned[s] = stamp]

(* Unchanged content leaves the lineage alone; anything else becomes the   *)
(* next ordinal and the current revision, and older revisions stay.        *)
ReuseOrdinal(d, x, c) ==   \* mutant: MAX(ordinal) without the + 1
  LET n == IF d.cur[x] = 0 THEN 1 ELSE d.cur[x] IN
  [d EXCEPT !.cur[x] = n, !.revs = @ \cup {[doc |-> x, ord |-> n, content |-> c]}]

ImportPreparedFile(d, x, c) ==
  IF \E r \in CurrentOf(d, x) : r.content = c
  THEN d
  ELSE [d EXCEPT !.cur[x] = @ + 1,
                 !.revs = @ \cup {[doc |-> x, ord |-> d.cur[x] + 1, content |-> c]}]

(* DELETE FROM documents: revisions and chunks cascade, audit rows stay    *)
(* with their references nulled.                                           *)
KeepReferences(d, X) ==   \* mutant: no ON DELETE SET NULL
  [d EXCEPT !.cur = [x \in Docs |-> IF x \in X THEN 0 ELSE @[x]],
            !.revs = {r \in @ : r.doc \notin X}]
CascadeToActivity(d, X) ==   \* mutant: ON DELETE CASCADE instead
  [d EXCEPT !.cur = [x \in Docs |-> IF x \in X THEN 0 ELSE @[x]],
            !.revs = {r \in @ : r.doc \notin X},
            !.events = {e \in @ : \A r \in e.ref : r.doc \notin X}]

DeleteDocs(d, X) ==
  [d EXCEPT !.cur = [x \in Docs |-> IF x \in X THEN 0 ELSE @[x]],
            !.revs = {r \in @ : r.doc \notin X},
            !.events = {[e EXCEPT !.ref = {r \in @ : r.doc \notin X}] : e \in @}]

EventsOf(d, s) == {e \in d.events : \E r \in e.ref : r.doc \in DocsOf(s)}

(* The body of a source purge, receipt included. *)
PurgeEverything(d, s) ==   \* mutant: the DELETE without its WHERE
  [d EXCEPT !.present = @ \ {s}, !.scanned[s] = 0, !.cur = [x \in Docs |-> 0],
            !.revs = {}, !.events = {}, !.receipts[s] = @ + 1]

PurgeRows(d, s) ==
  [d EXCEPT !.present = @ \ {s},
            !.scanned[s] = 0,
            !.cur = [x \in Docs |-> IF x \in DocsOf(s) THEN 0 ELSE @[x]],
            !.revs = {r \in @ : r.doc \notin DocsOf(s)},
            !.events = @ \ EventsOf(d, s),
            !.receipts[s] = @ + 1]

Newer(e, f) == e.req > f.req \/ (e.req = f.req /\ e.rank > f.rank)

(* pruneRetrievalActivityRows: only the MaxRows newest rows stay. *)
KeepAll(ev) == ev   \* mutant: no pruning
PruneLate(ev) ==    \* mutant: off by one
  {e \in ev : Cardinality({f \in ev : Newer(f, e)}) <= MaxRows}

PruneNewest(ev) ==  \* mutant: ORDER BY ascending
  {e \in ev : Cardinality({f \in ev : Newer(e, f)}) < MaxRows}

Prune(ev) == {e \in ev : Cardinality({f \in ev : Newer(f, e)}) < MaxRows}

(* One row per returned chunk, numbered in result order, or a single row   *)
(* without a reference.                                                    *)
Rankings(rows) ==
  {f \in [rows -> 1 .. Cardinality(rows)] :
     \A r, q \in rows : r # q => f[r] # f[q]}

UnrankedAuditRows(req, rank) ==   \* mutant: rank -1 for a search without results
  IF DOMAIN rank = {} THEN {[req |-> req, rank |-> -1, ref |-> {}]}
  ELSE {[req |-> req, rank |-> rank[r], ref |-> {r}] : r \in DOMAIN rank}

AuditRows(req, rank) ==
  IF DOMAIN rank = {} THEN {[req |-> req, rank |-> 0, ref |-> {}]}
  ELSE {[req |-> req, rank |-> rank[r], ref |-> {r}] : r \in DOMAIN rank}

Audited(d, req, rank) == [d EXCEPT !.events = Prune(@ \cup AuditRows(req, rank))]

ClearEvents(d) == [d EXCEPT !.events = {}]

-----------------------------------------------------------------------------
(* What PRAGMA foreign_key_check and the UNIQUE constraints guard, and the *)
(* lineage rule that no constraint of the schema states: the current       *)
(* revision of a document is its newest one.                               *)

NoOrphans(d) ==
  /\ \A x \in Docs : d.cur[x] # 0 => x[1] \in d.present
  /\ \A r \in d.revs : d.cur[r.doc] # 0
  /\ \A e \in d.events : e.ref \subseteq d.revs

CurrentIsNewest(d) ==
  /\ \A r \in d.revs : 1 <= r.ord /\ r.ord <= d.cur[r.doc]
  /\ \A r, q \in d.revs : r.doc = q.doc /\ r.ord = q.ord => r = q
  /\ \A x \in Docs : d.cur[x] # 0 => CurrentOf(d, x) # {}
=============================================================================
