----------------------------- MODULE VaultLedger -----------------------------
(***************************************************************************)
(* What the vault promises to everybody who looks at the committed         *)
(* database: an import, a purge, a retrieval with its audit entry, a clear *)
(* each happen in one step or not at all.  No transactions, connections,   *)
(* scans, aborts or crashes.  Module Vault implements this one.            *)
(***************************************************************************)
EXTENDS VaultDb

VARIABLES
  db,      \* the committed database
  handed   \* requests whose results were returned

vars == <<db, handed>>

Init == db = EmptyVault /\ handed = {}

Unimported(d, s, inv) ==
  {x \in DocsOf(s) :
     inv[x[2]] # NoFile /\ ~\E r \in CurrentOf(d, x) : r.content = inv[x[2]]}

(* A whole inventory at once: every new or changed file gains a revision,  *)
(* files the inventory does not have keep what they had.                   *)
Install(d, s, inv) ==
  LET new == Unimported(d, s, inv) IN
  [d EXCEPT !.present = @ \cup {s},
            !.cur = [x \in Docs |-> IF x \in new THEN @[x] + 1 ELSE @[x]],
            !.revs = @ \cup
              {[doc |-> x, ord |-> d.cur[x] + 1, content |-> inv[x[2]]] : x \in new}]

(* Documents purged one by one while the import ran: `early` ones before   *)
(* the import reached them, `late` ones after.                             *)
Import(s, inv, early, late) ==
  LET stamp == db'.scanned[s] IN
  /\ stamp > 0
  /\ db' = FinishSource(DeleteDocs(Install(DeleteDocs(db, early), s, inv), late), s, stamp)
  /\ UNCHANGED handed

PurgeSource(s) ==
  /\ s \in db.present
  /\ db' = PurgeRows(db, s)
  /\ UNCHANGED handed

PurgeDocument(x) == db' = DeleteDocs(db, {x}) /\ UNCHANGED handed

Retrieve(req, rows) ==
  /\ rows \subseteq db.revs
  /\ \E rank \in Rankings(rows) : db' = Audited(db, req, rank)
  /\ handed' = handed \cup {req}

Clear == db' = ClearEvents(db) /\ UNCHANGED handed

Next ==
  \/ \E s \in Sources :
       \/ PurgeSource(s)
       \/ \E inv \in Inventory, early, late \in SUBSET Docs : Import(s, inv, early, late)
  \/ \E x \in Docs : PurgeDocument(x)
  \/ \E req \in Requests(db'.events) \ handed, rows \in SUBSET db.revs : Retrieve(req, rows)
  \/ Clear

Spec == Init /\ [][Next]_vars
=============================================================================
