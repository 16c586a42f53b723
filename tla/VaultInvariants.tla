---------------------------- MODULE VaultInvariants ----------------------------
(***************************************************************************)
(* Why the properties of Vault hold: the inductive invariants, checked by  *)
(* TLC on small instances and proved in VaultProofs and the modules that   *)
(* extend it.                                                              *)
(***************************************************************************)
EXTENDS Vault

(* In the writer's private version only the source it is importing may     *)
(* lack a scan time, and only until the import is finalized.               *)
HalfImportInvariant ==
  /\ NoHalfImportedSource
  /\ \A p \in Procs : writer = p =>
       \A s \in work.present :
         \/ work.scanned[s] # 0
         \/ s = imp[p].scan.src /\ imp[p].phase \in {"apply", "final"}

(* Both versions keep their lineage: what an import commits is as sound as *)
(* what it started from.                                                   *)
LineageInvariant == CurrentIsNewest(db) /\ CurrentIsNewest(work)

Applying == {"apply", "final", "ending"}

(* Both versions keep their references, because the source row is written  *)
(* before the first file of the import and stays until the commit.         *)
RowsInvariant ==
  /\ NoOrphans(db) /\ NoOrphans(work)
  /\ \A p \in Procs : imp[p].phase \in Applying => imp[p].scan.src \in work.present

(* No two audit rows share a request and a rank, so that "the MaxRows      *)
(* newest rows" means at most MaxRows of them.                             *)
Bounded(d) ==
  /\ IsFiniteSet(d.events) /\ Cardinality(d.events) <= MaxRows
  /\ \A e, f \in d.events : e.req = f.req /\ e.rank = f.rank => e = f

LogInvariant == Bounded(db) /\ Bounded(work)

(* The hash of a purge confirmation covers what its dialog showed. *)
TicketInvariant ==
  \A p \in Procs : ticket[p] # None =>
    ticket[p].shown =
      {<<r.doc, r.content>> : r \in UNION {l[2] : l \in ticket[p].token.lineage}}

(* A prepared import that has started to write has compared the scopes, and *)
(* a settled one has forgotten its abort signal.                           *)
ScopeInvariant ==
  \A p \in Procs :
    /\ imp[p].phase \in Applying => SameScope(p)
    /\ imp[p].phase = "settled" => ~imp[p].aborted

-----------------------------------------------------------------------------
(* What an import has done so far.  The inventory it has applied, with     *)
(* NoFile where it has not arrived yet:                                    *)
Applied(p) ==
  LET scan == imp[p].scan IN
  [f \in Files |->
     IF imp[p].phase = "apply" /\ f >= scan.pos THEN NoFile ELSE scan.seen[f]]

Arrived(s, inv) == {x \in DocsOf(s) : inv[x[2]] # NoFile}

(* One import seen from outside, `stamp` being the scan time it leaves:    *)
(* documents purged before it reached them (early), its files, documents   *)
(* purged after (late).                                                    *)
Outcome(d, s, inv, early, late, stamp) ==
  FinishSource(DeleteDocs(Ledger!Install(DeleteDocs(d, early), s, inv), late), s, stamp)

(* At every turn of an import its private version is the committed one     *)
(* with the files applied so far installed at once, and everything purged  *)
(* meanwhile is gone unless a file has brought it back.                    *)
Progress(p) ==
  LET s == imp[p].scan.src  inv == Applied(p) IN
  /\ imp[p].phase = "scan" =>
       \E early \in SUBSET Docs : early \subseteq gone /\ work = DeleteDocs(db, early)
  /\ imp[p].phase \in Applying =>
       \E early, late \in SUBSET Docs :
         /\ late \subseteq Arrived(s, inv) /\ late \subseteq gone
         /\ early \subseteq Arrived(s, inv) \cup gone
         /\ work = Outcome(db, s, inv, early, late, work.scanned[s])
  /\ imp[p].phase = "ending" => work.scanned[s] > 0

WorkInvariant == \A p \in Procs : writer = p => Progress(p)

(* A request number is handed out once. *)
HandedOnce == handed \subseteq 1 .. requests
=============================================================================
