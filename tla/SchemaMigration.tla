--------------------------- MODULE SchemaMigration ---------------------------
(***************************************************************************)
(* Opening a vault (packages/core/src/schema.ts, initializeSchema): several *)
(* processes may open, and upgrade, one database at the same time, next to *)
(* an older release that still has it open.  A version 1 or 2 database has  *)
(* an unbounded activity log, which is trimmed in batches, each followed by *)
(* a truncating WAL checkpoint, before one final transaction installs the   *)
(* version 3 table.                                                         *)
(*                                                                          *)
(* A process is stopped between any two statements outside a transaction;   *)
(* a transaction is one step, because it holds the write slot and a crash   *)
(* undoes it.  A row of the activity log is its id and who it is attributed *)
(* to; the ids grow, as INTEGER PRIMARY KEY does.                           *)
(***************************************************************************)
EXTENDS Integers, FiniteSets

CONSTANTS
  Procs,     \* processes of this release
  None,      \* nobody holds the write slot
  Legacy,    \* the older release with the file open
  MaxRows,   \* MAX_RETRIEVAL_ACTIVITY_ROWS
  Batch,     \* LEGACY_RETRIEVAL_PRUNE_BATCH_ROWS
  MaxId      \* bound: activity rows ever inserted

ASSUME SchemaAssumption ==
  /\ {MaxRows, Batch, MaxId} \subseteq Nat \ {0}
  /\ None \notin Procs /\ Legacy \notin Procs /\ None # Legacy

VARIABLES
  version,   \* PRAGMA user_version; 0 is an empty file
  secure,    \* the FTS index's secure-delete option
  rows,      \* retrieval_events
  batches,   \* trimming transactions in the WAL since it was last truncated
  noise,     \* the WAL holds other transactions
  pinned,    \* a reader of another connection pins a WAL snapshot
  writer,    \* who holds the write slot across steps
  pc,        \* where each process is in initializeSchema
  seen,      \* the schema version it read last
  logged     \* history: ids of all activity rows ever inserted

dbVars == <<version, secure, rows>>
walVars == <<batches, noise>>
vars == <<dbVars, walVars, pinned, writer, pc, seen, logged>>

Opening == {"check", "bound", "checkpoint", "verify", "batch", "recheck", "migrate"}
Failed == {"paused", "busy"}
Row(id, client) == [id |-> id, client |-> client]
Ids(R) == {r.id : r \in R}
Newest(R) == {r \in R : Cardinality({q \in R : q.id > r.id}) < MaxRows}
LegacyVersion(v) == v \in {1, 2}

Init ==
  /\ version \in 0 .. 3
  /\ secure \in (IF version = 0 THEN {FALSE} ELSE BOOLEAN)
  /\ \E n \in 0 .. MaxId :
       /\ version = 0 => n = 0
       /\ version = 3 => n <= MaxRows
       /\ rows = {Row(i, "legacy") : i \in 1 .. n}
       /\ logged = 1 .. n
  /\ batches = 0 /\ noise \in BOOLEAN
  /\ pinned = FALSE /\ writer = None
  /\ pc = [p \in Procs |-> "closed"] /\ seen = [p \in Procs |-> 0]

-----------------------------------------------------------------------------
(* The steps of initializeSchema. *)

Goto(p, l) == pc' = [pc EXCEPT ![p] = l]
Current == version = 3 /\ secure /\ Cardinality(rows) <= MaxRows
SlotFree == writer = None

(* inspectSchemaVersion happens before the connection exists. *)
Open(p) ==
  /\ pc[p] \in {"closed"} \cup Failed
  /\ seen' = [seen EXCEPT ![p] = version] /\ Goto(p, "check")
  /\ UNCHANGED <<dbVars, walVars, pinned, writer, logged>>

(* currentSchemaNeedsNoMaintenance: lock free. *)
CheckCurrent(p) ==
  /\ pc[p] \in {"check", "recheck"}
  /\ Goto(p, IF Current THEN "open" ELSE IF pc[p] = "check" THEN "bound" ELSE "migrate")
  /\ UNCHANGED <<dbVars, walVars, pinned, writer, seen, logged>>

(* The head of the loop of boundLegacyRetrievalRowsBeforeMigration. *)
ObserveVersion(p) ==
  /\ pc[p] = "bound"
  /\ seen' = [seen EXCEPT ![p] = version]
  /\ Goto(p, IF LegacyVersion(version) THEN "checkpoint" ELSE "recheck")
  /\ UNCHANGED <<dbVars, walVars, pinned, writer, logged>>

(* PRAGMA wal_checkpoint(TRUNCATE) needs the write slot, and no reader that *)
(* still uses the WAL.                                                      *)
Truncates == SlotFree /\ (pinned => batches = 0 /\ ~noise)

CheckpointIgnored(p) ==   \* mutant: the result of the checkpoint is not looked at
  /\ pc[p] = "checkpoint" /\ Goto(p, "batch")
  /\ IF Truncates THEN batches' = 0 /\ noise' = FALSE ELSE UNCHANGED walVars
  /\ UNCHANGED <<dbVars, pinned, writer, seen, logged>>

Checkpoint(p) ==
  /\ pc[p] = "checkpoint"
  /\ IF Truncates
     THEN batches' = 0 /\ noise' = FALSE /\ Goto(p, "batch")
     ELSE UNCHANGED walVars /\ Goto(p, "verify")
  /\ UNCHANGED <<dbVars, pinned, writer, seen, logged>>

(* schemaStillNeedsMigrationUnderLock. *)
VerifyUnderLock(p) ==
  /\ pc[p] = "verify"
  /\ Goto(p, IF SlotFree /\ version >= 3 THEN "recheck" ELSE "paused")
  /\ UNCHANGED <<dbVars, walVars, pinned, writer, seen, logged>>

(* The oldest Batch rows below the cutoff, the MaxRows-th newest id. *)
Excess == rows \ Newest(rows)
NewestExcess ==   \* mutant: ORDER BY id without the cutoff
  {r \in rows : Cardinality({q \in rows : q.id < r.id}) < Batch}
OldestExcess == {r \in Excess : Cardinality({q \in Excess : q.id < r.id}) < Batch}

(* BEGIN IMMEDIATE waits for the slot until it times out. *)
WaitForever(p) == FALSE   \* mutant: no busy_timeout
GiveUpUnclassified(p) ==   \* mutant: SQLITE_BUSY leaves a half-open connection
  /\ pc[p] \in {"batch", "migrate"} /\ ~SlotFree /\ Goto(p, "half-open")
  /\ UNCHANGED <<dbVars, walVars, pinned, writer, seen, logged>>
GiveUp(p) ==
  /\ pc[p] \in {"batch", "migrate"} /\ ~SlotFree
  /\ Goto(p, "busy")
  /\ UNCHANGED <<dbVars, walVars, pinned, writer, seen, logged>>

DeleteBatch(p) ==
  /\ pc[p] = "batch" /\ SlotFree
  /\ IF LegacyVersion(version) /\ OldestExcess # {}
     THEN rows' = rows \ OldestExcess /\ batches' = batches + 1 /\ Goto(p, "bound")
     ELSE UNCHANGED <<rows, batches>> /\ Goto(p, "recheck")
  /\ UNCHANGED <<version, secure, noise, pinned, writer, seen, logged>>

(* The version a migration starts from is read again under the lock. *)
InspectedVersion(p) == seen[p]   \* mutant: the version the caller inspected
VersionToMigrate(p) == version

MigrateWithoutScrub(p) ==   \* mutant: ensureFtsSecureDelete is left out
  /\ pc[p] = "migrate" /\ SlotFree
  /\ rows' = IF VersionToMigrate(p) < 3
             THEN {Row(r.id, "legacy") : r \in Newest(rows)} ELSE Newest(rows)
  /\ version' = 3 /\ noise' = TRUE
  /\ Goto(p, "open")
  /\ UNCHANGED <<secure, batches, pinned, writer, seen, logged>>

Migrate(p) ==
  /\ pc[p] = "migrate" /\ SlotFree
  /\ rows' = IF VersionToMigrate(p) < 3
             THEN {Row(r.id, "legacy") : r \in Newest(rows)} ELSE Newest(rows)
  /\ version' = 3 /\ secure' = TRUE /\ noise' = TRUE
  /\ Goto(p, "open")
  /\ UNCHANGED <<batches, pinned, writer, seen, logged>>

Step(p) ==
  \/ CheckCurrent(p) \/ ObserveVersion(p) \/ Checkpoint(p) \/ VerifyUnderLock(p)
  \/ GiveUp(p) \/ DeleteBatch(p) \/ Migrate(p)

-----------------------------------------------------------------------------
(* What opened vaults, and the older release, do meanwhile. *)

NextId == Cardinality(logged) + 1

(* An audited search or fetch of an opened vault. *)
Record(p) ==
  /\ pc[p] = "open" /\ SlotFree /\ NextId <= MaxId
  /\ rows' = Newest(rows \cup {Row(NextId, "attributed")})
  /\ logged' = logged \cup {NextId} /\ noise' = TRUE
  /\ UNCHANGED <<version, secure, batches, pinned, writer, pc, seen>>

(* An import of an opened vault holds the write slot for a long time. *)
HoldSlot(p) ==
  /\ pc[p] = "open" /\ SlotFree /\ writer' = p
  /\ UNCHANGED <<dbVars, walVars, pinned, pc, seen, logged>>

ReleaseSlot(p) ==
  /\ writer = p /\ writer' = None /\ noise' \in {noise, TRUE}
  /\ UNCHANGED <<dbVars, batches, pinned, pc, seen, logged>>

(* The older release logs without bound, until its statements no longer fit *)
(* the version 3 table; its imports hold the slot too.                      *)
LegacyRecord ==
  /\ LegacyVersion(version) /\ SlotFree /\ NextId <= MaxId
  /\ rows' = rows \cup {Row(NextId, "legacy")}
  /\ logged' = logged \cup {NextId} /\ noise' = TRUE
  /\ UNCHANGED <<version, secure, batches, pinned, writer, pc, seen>>

LegacyHold ==
  /\ LegacyVersion(version)
  /\ \/ SlotFree /\ writer' = Legacy
     \/ writer = Legacy /\ writer' = None
  /\ UNCHANGED <<dbVars, walVars, pinned, pc, seen, logged>>

PinReader ==
  /\ version # 0 /\ pinned' = ~pinned
  /\ UNCHANGED <<dbVars, walVars, writer, pc, seen, logged>>

(* Closing, a crash or a kill at any point: an open transaction is rolled   *)
(* back, what was committed stays in the WAL.                               *)
Crash(p) ==
  /\ pc[p] # "closed" /\ Goto(p, "closed")
  /\ writer' = IF writer = p THEN None ELSE writer
  /\ UNCHANGED <<dbVars, walVars, pinned, seen, logged>>

Next ==
  \/ \E p \in Procs :
       Open(p) \/ Step(p) \/ Record(p) \/ HoldSlot(p) \/ ReleaseSlot(p) \/ Crash(p)
  \/ LegacyRecord \/ LegacyHold \/ PinReader

Spec == Init /\ [][Next]_vars

(* initializeSchema is synchronous: once called it runs on.  Its waits for  *)
(* the write slot end after busy_timeout, hence in GiveUp.                  *)
FairSpec == Spec /\ \A p \in Procs : WF_vars(Step(p))

-----------------------------------------------------------------------------
(* Properties *)

TypeOK ==
  /\ version \in 0 .. 3 /\ secure \in BOOLEAN
  /\ rows \subseteq [id : 1 .. MaxId, client : {"legacy", "attributed"}]
  /\ batches \in Nat /\ noise \in BOOLEAN /\ pinned \in BOOLEAN
  /\ writer \in Procs \cup {None, Legacy}
  /\ pc \in [Procs -> Opening \cup Failed \cup {"closed", "open"}]
  /\ seen \in [Procs -> 0 .. 3]
  /\ logged \subseteq 1 .. MaxId

(* However many openers trim, crash, retry and migrate: the newest MaxRows  *)
(* rows ever logged are all still there, each once.                         *)
NewestHistoryKept ==
  /\ \A i \in logged : Cardinality({j \in logged : j > i}) < MaxRows => i \in Ids(rows)
  /\ \A r, q \in rows : r.id = q.id => r = q

(* An opened vault is of version 3, scrubs its index, and bounds its log.   *)
OpenedIsCurrent == \A p \in Procs : pc[p] = "open" => Current

(* A late opener with a stale view of the version never migrates a vault    *)
(* twice: what a version 3 client logged stays attributed to it.            *)
AttributionKept ==
  [][\A r \in rows, q \in rows' :
       r.id = q.id /\ r.client = "attributed" => q.client = "attributed"]_vars

(* "Never append another batch, or enter the final table replacement, until *)
(* that WAL has actually been truncated."  Holds for a single opener.       *)
TruncatesBetweenBatches ==
  [][batches' > batches \/ (LegacyVersion(version) /\ version' = 3) => batches = 0]_vars

(* A losing opener adopts the winner's upgrade and never reports a pause.   *)
NoPauseAfterUpgrade ==
  [][\A p \in Procs : pc[p] # "paused" /\ pc'[p] = "paused" => version < 3]_vars

(* Opening ends, in an open vault or in an error.                           *)
OpeningEnds == \A p \in Procs : pc[p] \in Opening ~> pc[p] \notin Opening

-----------------------------------------------------------------------------
(* Why they hold: the inductive invariant, for SchemaMigrationProofs.       *)

(* The ids are given without gaps, so that the newest MaxRows rows can be   *)
(* told by counting; no row is attributed before version 3, and none is too *)
(* many afterwards.                                                         *)
HistoryInvariant ==
  /\ \E n \in 0 .. MaxId : logged = 1 .. n
  /\ Ids(rows) \subseteq logged
  /\ NewestHistoryKept
  /\ version < 3 => \A r \in rows : r.client = "legacy"
  /\ version = 3 => Cardinality(rows) <= MaxRows

(* Neither the version nor the scrubbing is ever taken back.                *)
UpgradeInvariant == \A p \in Procs : pc[p] = "open" => version = 3 /\ secure
=============================================================================
