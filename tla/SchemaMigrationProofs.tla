------------------------ MODULE SchemaMigrationProofs ------------------------
(***************************************************************************)
(* Theorems about opening and upgrading a vault: for any number of openers, *)
(* any cap on the activity log, any size of a trimming batch and a history  *)
(* of any length, wherever an opener is stopped.                            *)
(***************************************************************************)
EXTENDS SchemaMigration, TLAPS, FiniteSetTheorems, NaturalsInduction, WellFoundedInduction

-----------------------------------------------------------------------------
(* Trimming a log *)

(* The rows R of a log of the ids L: each at most once, and the newest all  *)
(* there.                                                                   *)
Kept(R, L) ==
  /\ IsFiniteSet(L) /\ L \subseteq Nat /\ Ids(R) \subseteq L
  /\ \A r, q \in R : r.id = q.id => r = q
  /\ \A i \in L : Cardinality({j \in L : j > i}) < MaxRows => i \in Ids(R)

(* Rows with ids of their own are at most as many as the ids.               *)
LEMMA RowsAndIds ==
  ASSUME NEW R, NEW L, IsFiniteSet(L), Ids(R) \subseteq L,
         \A r, q \in R : r.id = q.id => r = q
  PROVE  IsFiniteSet(R) /\ Cardinality(R) <= Cardinality(L) /\ Cardinality(R) \in Nat
<1> DEFINE f == [r \in R |-> r.id]
<1>1. f \in Injection(R, L)
  BY DEF Injection, IsInjective, Ids
<1> HIDE DEF f
<1>. QED BY <1>1, FS_Injection, FS_CardinalityType

(* A set of naturals with an element has a least one.                       *)
LEMMA LeastNatural ==
  ASSUME NEW S \in SUBSET Nat, S # {}
  PROVE  \E n \in S : \A m \in S : n <= m
<1>1. PICK n \in S : \A m \in S : ~ (<<m, n>> \in OpToRel(<, Nat))
  BY NatLessThanWellFounded, WFMin
<1>2. \A m \in S : ~(m < n)
  BY <1>1 DEF OpToRel
<1>. QED BY <1>2

(* The newest rows are at most MaxRows.                                     *)
LEMMA NewestBounded ==
  ASSUME NEW R, NEW L, Kept(R, L)
  PROVE  IsFiniteSet(Newest(R)) /\ Cardinality(Newest(R)) <= MaxRows
<1>0. IsFiniteSet(R) /\ \A r \in R : r.id \in Nat
  BY RowsAndIds DEF Kept, Ids
<1>1. CASE Newest(R) = {}
  BY <1>1, FS_EmptySet, SchemaAssumption
<1>2. CASE Newest(R) # {}
  <2> DEFINE S == Ids(Newest(R))
  <2>1. S \in SUBSET Nat /\ S # {}
    BY <1>0, <1>2 DEF Newest, Ids
  <2> HIDE DEF S
  <2>2. PICK n \in S : \A m \in S : n <= m
    BY <2>1, LeastNatural
  <2>3. PICK o \in Newest(R) : o.id = n
    BY <2>2 DEF S, Ids
  <2> DEFINE newer == {q \in R : q.id > o.id}
  <2>4. o \in R /\ Cardinality(newer) < MaxRows
    BY <2>3 DEF Newest
  <2>5. Newest(R) \subseteq newer \cup {o}
    <3> SUFFICES ASSUME NEW r \in Newest(R), r # o PROVE r.id > o.id
      BY DEF Newest
    <3>1. r.id \in S /\ r \in R
      BY DEF S, Ids, Newest
    <3>2. r.id # o.id
      BY <2>4, <3>1 DEF Kept
    <3>. QED BY <1>0, <2>2, <2>3, <2>4, <3>1, <3>2
  <2>6. IsFiniteSet(newer)
    BY <1>0, FS_Subset
  <2> HIDE DEF newer
  <2>7. /\ IsFiniteSet(newer \cup {o}) /\ Cardinality(newer) \in Nat
        /\ Cardinality(newer \cup {o}) <= Cardinality(newer) + 1
        /\ Cardinality(newer \cup {o}) \in Nat
    <3>1. /\ IsFiniteSet(newer \cup {o})
          /\ Cardinality(newer \cup {o}) \in {Cardinality(newer), Cardinality(newer) + 1}
      BY <2>6, FS_AddElement
    <3>2. Cardinality(newer) \in Nat
      BY <2>6, FS_CardinalityType
    <3>. QED BY <3>1, <3>2
  <2> DEFINE W == newer \cup {o}
  <2> HIDE DEF W
  <2>8. /\ IsFiniteSet(Newest(R)) /\ Cardinality(Newest(R)) <= Cardinality(W)
        /\ Cardinality(Newest(R)) \in Nat
    <3>1. IsFiniteSet(W) /\ Newest(R) \in SUBSET W
      BY <2>5, <2>7 DEF W
    <3>. QED BY <3>1, FS_Subset, FS_CardinalityType
  <2>. QED BY <2>4, <2>7, <2>8, SchemaAssumption DEF W
<1>. QED BY <1>1, <1>2

(* Dropping rows that are not among the newest loses none of the newest ids. *)
LEMMA TrimmingKeeps ==
  ASSUME NEW R, NEW L, Kept(R, L), NEW T, Newest(R) \subseteq T, T \subseteq R
  PROVE  Kept(T, L)
<1>1. ASSUME NEW i \in L, Cardinality({j \in L : j > i}) < MaxRows PROVE i \in Ids(T)
  <2>1. PICK r \in R : r.id = i
    BY <1>1 DEF Kept, Ids
  <2> DEFINE newer == {q \in R : q.id > r.id}
             later == {j \in L : j > i}
  <2>2. Ids(newer) \subseteq later /\ \A p, q \in newer : p.id = q.id => p = q
    BY <2>1 DEF Ids, Kept
  <2>3. IsFiniteSet(later)
    BY FS_Subset DEF Kept
  <2> HIDE DEF newer, later
  <2>4. Cardinality(newer) <= Cardinality(later) /\ Cardinality(newer) \in Nat
        /\ Cardinality(later) \in Nat
    BY <2>2, <2>3, RowsAndIds, FS_CardinalityType
  <2>5. Cardinality(newer) < MaxRows
    BY <1>1, <2>4, SchemaAssumption DEF later
  <2>6. r \in Newest(R)
    BY <2>5 DEF newer, Newest
  <2>. QED BY <2>1, <2>6 DEF Ids
<1>. QED BY <1>1 DEF Kept, Ids

(* A row with the next id keeps a log complete.                             *)
LEMMA RecordingKeeps ==
  ASSUME NEW R, NEW n, n \in Nat, NEW L, L = 1 .. n, Kept(R, L), NEW client,
         NEW m, m = n + 1
  PROVE  Kept(R \cup {Row(m, client)}, L \cup {m})
<1> DEFINE T == R \cup {Row(m, client)}
           M == L \cup {m}
<1>1. m \in Nat /\ m \notin L
  OBVIOUS
<1>2. IsFiniteSet(M) /\ M \subseteq Nat
  BY <1>1, FS_AddElement DEF Kept
<1>3. Ids(T) \subseteq M /\ Ids(R) \subseteq Ids(T) /\ m \in Ids(T)
  <2>1. \A r \in T : r \in R \/ r.id = m
    BY DEF Row
  <2>2. Row(m, client) \in T /\ Row(m, client).id = m
    BY DEF Row
  <2>. QED BY <2>1, <2>2 DEF Ids, Kept
<1>4. \A r, q \in T : r.id = q.id => r = q
  BY <1>1 DEF Kept, Ids, Row
<1>5. ASSUME NEW i \in M, Cardinality({j \in M : j > i}) < MaxRows PROVE i \in Ids(T)
  <2>1. CASE i = m
    BY <1>3, <2>1
  <2>2. CASE i \in L
    <3> DEFINE few == {j \in L : j > i}
               many == {j \in M : j > i}
    <3>1. IsFiniteSet(many) /\ few \in SUBSET many
      BY <1>2, FS_Subset
    <3> HIDE DEF few, many
    <3>2. Cardinality(few) <= Cardinality(many) /\ Cardinality(few) \in Nat
          /\ Cardinality(many) \in Nat
      BY <3>1, FS_Subset, FS_CardinalityType
    <3>3. Cardinality(few) < MaxRows
      BY <1>5, <3>2, SchemaAssumption DEF many
    <3>. QED BY <1>3, <2>2, <3>3 DEF few, Kept
  <2>. QED BY <2>1, <2>2
<1>. QED BY <1>2, <1>3, <1>4, <1>5 DEF Kept

(* Attributing the rows to the older release keeps their number and their ids. *)
LEMMA RelabellingKeeps ==
  ASSUME NEW R, NEW L, Kept(R, L), NEW T, T = {Row(r.id, "legacy") : r \in R}
  PROVE  Kept(T, L) /\ IsFiniteSet(T) /\ Cardinality(T) <= Cardinality(R)
<1>1. Ids(T) = Ids(R)
  <2>1. \A r : Row(r.id, "legacy").id = r.id
    BY DEF Row
  <2>2. \A r \in R : r.id \in Ids(T)
    BY <2>1 DEF Ids
  <2>3. \A t \in T : t.id \in Ids(R)
    BY <2>1 DEF Ids
  <2>. QED BY <2>2, <2>3 DEF Ids
<1>2. \A r, q \in T : r.id = q.id => r = q
  BY DEF Row
<1> DEFINE f == [r \in R |-> Row(r.id, "legacy")]
<1>3. f \in Surjection(R, T) /\ IsFiniteSet(R)
  BY RowsAndIds DEF Surjection, Kept
<1> HIDE DEF f
<1>4. IsFiniteSet(T) /\ Cardinality(T) <= Cardinality(R)
  BY <1>3, FS_Surjection
<1>. QED BY <1>1, <1>2, <1>4 DEF Kept

-----------------------------------------------------------------------------
(* The steps of openers and of opened vaults *)

(* The invariant says that the log is kept, and what the next id is.        *)
LEMMA HistoryIsKept ==
  ASSUME HistoryInvariant
  PROVE  /\ Kept(rows, logged)
         /\ \E n \in 0 .. MaxId : logged = 1 .. n /\ NextId = n + 1
<1>1. PICK n \in 0 .. MaxId : logged = 1 .. n
  BY DEF HistoryInvariant
<1>2. IsFiniteSet(1 .. n) /\ Cardinality(1 .. n) = n
  BY SchemaAssumption, FS_Interval
<1>3. NextId = n + 1
  BY <1>1, <1>2 DEF NextId
<1>4. Kept(rows, logged)
  BY <1>1, <1>2 DEF HistoryInvariant, NewestHistoryKept, Kept
<1>. QED BY <1>1, <1>3, <1>4

(* The types are kept: no id goes beyond the bound.                         *)
LEMMA TypeStep == TypeOK /\ HistoryInvariant /\ [Next]_vars => TypeOK'
<1> SUFFICES ASSUME TypeOK, HistoryInvariant, [Next]_vars PROVE TypeOK'
  OBVIOUS
<1> USE DEF dbVars, walVars
<1>1. CASE UNCHANGED vars
  BY <1>1 DEF vars, TypeOK
<1>2. ASSUME NEW p \in Procs, NEW l \in Opening \cup Failed \cup {"closed", "open"}, Goto(p, l)
      PROVE  pc' \in [Procs -> Opening \cup Failed \cup {"closed", "open"}]
  BY <1>2 DEF Goto, TypeOK
<1>3. Newest(rows) \subseteq rows
  BY DEF Newest
<1>4. ASSUME NEW p \in Procs,
             \/ Open(p) \/ CheckCurrent(p) \/ ObserveVersion(p) \/ Checkpoint(p)
             \/ VerifyUnderLock(p) \/ GiveUp(p) \/ DeleteBatch(p) \/ Migrate(p) \/ Crash(p)
      PROVE  pc' \in [Procs -> Opening \cup Failed \cup {"closed", "open"}]
  BY <1>2, <1>4
  DEF Open, CheckCurrent, ObserveVersion, Checkpoint, VerifyUnderLock, GiveUp, DeleteBatch,
      Migrate, Crash, Opening, Failed
<1>5. ASSUME NEW p \in Procs,
             \/ Open(p) \/ CheckCurrent(p) \/ ObserveVersion(p) \/ Checkpoint(p)
             \/ VerifyUnderLock(p) \/ GiveUp(p)
      PROVE  TypeOK'
  <2>1. pc' \in [Procs -> Opening \cup Failed \cup {"closed", "open"}]
    BY <1>4, <1>5
  <2>2. seen' \in [Procs -> 0 .. 3]
    BY <1>5
    DEF Open, CheckCurrent, ObserveVersion, Checkpoint, VerifyUnderLock, GiveUp, TypeOK
  <2>3. batches' \in Nat /\ noise' \in BOOLEAN
    <3>1. UNCHANGED <<batches, noise>> \/ (batches' = 0 /\ noise' = FALSE)
      BY <1>5
      DEF Open, CheckCurrent, ObserveVersion, Checkpoint, VerifyUnderLock, GiveUp
    <3>2. batches' \in Nat
      BY <3>1 DEF TypeOK
    <3>3. noise' \in BOOLEAN
      BY <3>1, Zenon DEF TypeOK
    <3>. QED BY <3>2, <3>3
  <2>4. UNCHANGED <<version, secure, rows, pinned, writer, logged>>
    BY <1>5
    DEF Open, CheckCurrent, ObserveVersion, Checkpoint, VerifyUnderLock, GiveUp
  <2>. QED BY <2>1, <2>2, <2>3, <2>4 DEF TypeOK
<1>6. ASSUME NEW p \in Procs, DeleteBatch(p) PROVE TypeOK'
  BY <1>4, <1>6 DEF DeleteBatch, TypeOK
<1>7. ASSUME NEW p \in Procs, Migrate(p) PROVE TypeOK'
  <2>1. rows' \subseteq [id : 1 .. MaxId, client : {"legacy", "attributed"}]
    <3>1. {Row(r.id, "legacy") : r \in Newest(rows)}
            \subseteq [id : 1 .. MaxId, client : {"legacy", "attributed"}]
      BY <1>3 DEF TypeOK, Row
    <3>2. rows' \in {{Row(r.id, "legacy") : r \in Newest(rows)}, Newest(rows)}
      BY <1>7 DEF Migrate
    <3>. QED BY <1>3, <3>1, <3>2 DEF TypeOK
  <2>2. pc' \in [Procs -> Opening \cup Failed \cup {"closed", "open"}]
    BY <1>4, <1>7
  <2>3. version' \in 0 .. 3 /\ secure' \in BOOLEAN /\ noise' \in BOOLEAN
    BY <1>7 DEF Migrate
  <2>4. UNCHANGED <<batches, pinned, writer, seen, logged>>
    BY <1>7 DEF Migrate
  <2>. QED BY <2>1, <2>2, <2>3, <2>4 DEF TypeOK
<1>8. ASSUME NEW p \in Procs, HoldSlot(p) \/ ReleaseSlot(p) \/ Crash(p) PROVE TypeOK'
  BY <1>4, <1>8 DEF HoldSlot, ReleaseSlot, Crash, TypeOK
<1>9. ASSUME NEW m, m = NextId, m <= MaxId, NEW client \in {"legacy", "attributed"},
             rows' \subseteq rows \cup {Row(m, client)}, logged' = logged \cup {m}
      PROVE  /\ rows' \subseteq [id : 1 .. MaxId, client : {"legacy", "attributed"}]
             /\ logged' \subseteq 1 .. MaxId
  <2>1. m \in 1 .. MaxId
    BY <1>9, HistoryIsKept, SchemaAssumption
  <2>. QED BY <1>9, <2>1 DEF TypeOK, Row
<1>10. ASSUME NEW p \in Procs, Record(p) PROVE TypeOK'
  <2>1. /\ rows' \subseteq [id : 1 .. MaxId, client : {"legacy", "attributed"}]
        /\ logged' \subseteq 1 .. MaxId
    BY <1>9, <1>10 DEF Record, Newest
  <2>. QED BY <1>10, <2>1 DEF Record, TypeOK
<1>11. CASE LegacyRecord
  <2>1. /\ rows' \subseteq [id : 1 .. MaxId, client : {"legacy", "attributed"}]
        /\ logged' \subseteq 1 .. MaxId
    BY <1>9, <1>11 DEF LegacyRecord
  <2>. QED BY <1>11, <2>1 DEF LegacyRecord, TypeOK
<1>12. CASE LegacyHold \/ PinReader
  BY <1>12 DEF LegacyHold, PinReader, TypeOK
<1>. QED
  BY <1>1, <1>5, <1>6, <1>7, <1>8, <1>10, <1>11, <1>12 DEF Next, Step

(* A log that is kept, of the right version, satisfies the invariant.       *)
LEMMA KeptIsHistory ==
  ASSUME NEW n \in 0 .. MaxId, logged' = 1 .. n, Kept(rows', logged'),
         version' < 3 => \A r \in rows' : r.client = "legacy",
         version' = 3 => Cardinality(rows') <= MaxRows
  PROVE  HistoryInvariant'
BY DEF Kept, HistoryInvariant, NewestHistoryKept, Ids

(* Every step keeps the newest rows.                                        *)
LEMMA HistoryStep == TypeOK /\ HistoryInvariant /\ UpgradeInvariant /\ [Next]_vars => HistoryInvariant'
<1> SUFFICES ASSUME TypeOK, HistoryInvariant, UpgradeInvariant, [Next]_vars
             PROVE  HistoryInvariant'
  OBVIOUS
<1> USE DEF dbVars, walVars
<1>1. PICK n \in 0 .. MaxId : logged = 1 .. n /\ NextId = n + 1
  BY HistoryIsKept
<1>2. Kept(rows, logged) /\ IsFiniteSet(rows) /\ Cardinality(rows) \in Nat
  BY HistoryIsKept, RowsAndIds DEF Kept
<1>3. Newest(rows) \subseteq rows
  BY DEF Newest
<1>4. ASSUME UNCHANGED <<rows, logged, version>> PROVE HistoryInvariant'
  BY <1>4 DEF HistoryInvariant, NewestHistoryKept, Ids
<1>5. ASSUME NEW p \in Procs, DeleteBatch(p) PROVE HistoryInvariant'
  <2>1. CASE UNCHANGED rows
    BY <1>4, <1>5, <2>1 DEF DeleteBatch
  <2>2. CASE LegacyVersion(version) /\ rows' = rows \ OldestExcess
    <3>1. Newest(rows) \subseteq rows' /\ rows' \subseteq rows
      BY <1>3, <2>2 DEF OldestExcess, Excess
    <3>2. Kept(rows', logged)
      BY <1>2, <3>1, TrimmingKeeps
    <3>3. logged' = logged /\ version' \in {1, 2} /\ version < 3
      BY <1>5, <2>2 DEF DeleteBatch, LegacyVersion
    <3>4. \A r \in rows' : r.client = "legacy"
      BY <3>1, <3>3 DEF HistoryInvariant
    <3>5. Kept(rows', logged') /\ logged' = 1 .. n
      BY <1>1, <3>2, <3>3
    <3>. QED BY <3>3, <3>4, <3>5, KeptIsHistory
  <2>. QED BY <1>5, <2>1, <2>2 DEF DeleteBatch
<1>6. ASSUME NEW p \in Procs, Migrate(p) PROVE HistoryInvariant'
  <2> DEFINE kept == Newest(rows)
  <2>1. /\ Kept(kept, logged) /\ IsFiniteSet(kept) /\ Cardinality(kept) <= MaxRows
        /\ Cardinality(kept) \in Nat
    BY <1>2, <1>3, TrimmingKeeps, NewestBounded, FS_CardinalityType
  <2> DEFINE relabelled == {Row(r.id, "legacy") : r \in kept}
  <2>2. /\ Kept(relabelled, logged) /\ IsFiniteSet(relabelled)
        /\ Cardinality(relabelled) <= Cardinality(kept)
    <3> HIDE DEF kept
    <3>. QED BY <2>1, RelabellingKeeps
  <2>3. rows' \in {relabelled, kept}
    BY <1>6 DEF Migrate
  <2> HIDE DEF relabelled, kept
  <2>4. Cardinality(relabelled) <= MaxRows
    BY <2>1, <2>2, FS_CardinalityType, SchemaAssumption
  <2>5. logged' = 1 .. n /\ version' = 3 /\ logged' = logged
    BY <1>1, <1>6 DEF Migrate
  <2>6. Kept(rows', logged') /\ Cardinality(rows') <= MaxRows
    BY <2>1, <2>2, <2>3, <2>4, <2>5
  <2>. QED BY <2>5, <2>6, KeptIsHistory
<1>7. ASSUME NEW p \in Procs, Record(p) PROVE HistoryInvariant'
  <2> DEFINE m == n + 1
             all == rows \cup {Row(m, "attributed")}
  <2>0. n \in Nat /\ logged = 1 .. n /\ NextId = m /\ m = n + 1
    BY <1>1, SchemaAssumption
  <2>1. m \in 0 .. MaxId /\ logged' = 1 .. m /\ logged' = logged \cup {m}
    BY <1>1, <1>7, SchemaAssumption DEF Record
  <2>2. rows' = Newest(all)
    BY <1>7, <2>0 DEF Record
  <2> HIDE DEF m
  <2>3. Kept(all, logged')
    <3>1. Kept(all, logged \cup {m})
      BY <1>2, <2>0, RecordingKeeps
    <3>. QED BY <2>1, <3>1
  <2> HIDE DEF all
  <2>4. Kept(rows', logged') /\ Cardinality(rows') <= MaxRows
    <3>1. Newest(all) \subseteq all
      BY DEF Newest
    <3>. QED BY <2>2, <2>3, <3>1, TrimmingKeeps, NewestBounded
  <2>5. version' = 3
    BY <1>7 DEF Record, UpgradeInvariant
  <2>. QED BY <2>1, <2>4, <2>5, KeptIsHistory
<1>8. CASE LegacyRecord
  <2> DEFINE m == n + 1
             all == rows \cup {Row(m, "legacy")}
  <2>0. n \in Nat /\ logged = 1 .. n /\ NextId = m /\ m = n + 1
    BY <1>1, SchemaAssumption
  <2>1. m \in 0 .. MaxId /\ logged' = 1 .. m /\ logged' = logged \cup {m}
    BY <1>1, <1>8, SchemaAssumption DEF LegacyRecord
  <2>2. rows' = all
    BY <1>8, <2>0 DEF LegacyRecord
  <2> HIDE DEF m
  <2>3. Kept(all, logged')
    <3>1. Kept(all, logged \cup {m})
      BY <1>2, <2>0, RecordingKeeps
    <3>. QED BY <2>1, <3>1
  <2>4. version' \in {1, 2} /\ \A r \in all : r.client = "legacy"
    BY <1>8 DEF LegacyRecord, LegacyVersion, HistoryInvariant, Row
  <2> HIDE DEF all
  <2>. QED BY <2>1, <2>2, <2>3, <2>4, KeptIsHistory
<1>9. ASSUME NEW p \in Procs,
             \/ Open(p) \/ CheckCurrent(p) \/ ObserveVersion(p) \/ Checkpoint(p)
             \/ VerifyUnderLock(p) \/ GiveUp(p) \/ HoldSlot(p) \/ ReleaseSlot(p) \/ Crash(p)
      PROVE  UNCHANGED <<rows, logged, version>>
  BY <1>9
  DEF Open, CheckCurrent, ObserveVersion, Checkpoint, VerifyUnderLock, GiveUp, HoldSlot,
      ReleaseSlot, Crash
<1>10. CASE LegacyHold \/ PinReader \/ UNCHANGED vars
  BY <1>4, <1>10 DEF LegacyHold, PinReader, vars
<1>. QED
  BY <1>4, <1>5, <1>6, <1>7, <1>8, <1>9, <1>10 DEF Next, Step


(* A vault once upgraded stays so, and only an upgraded one is opened.      *)
LEMMA UpgradeStep == TypeOK /\ UpgradeInvariant /\ [Next]_vars => UpgradeInvariant'
<1> SUFFICES ASSUME TypeOK, UpgradeInvariant, [Next]_vars PROVE UpgradeInvariant'
  OBVIOUS
<1> USE DEF dbVars, walVars
<1>1. ASSUME version = 3 => version' = 3, secure => secure', NEW p \in Procs,
             NEW l, Goto(p, l), l = "open" => version' = 3 /\ secure'
      PROVE  UpgradeInvariant'
  BY <1>1 DEF UpgradeInvariant, Goto, TypeOK
<1>2. ASSUME UNCHANGED <<version, secure, pc>> PROVE UpgradeInvariant'
  BY <1>2 DEF UpgradeInvariant
<1>3. ASSUME NEW p \in Procs,
             \/ Open(p) \/ CheckCurrent(p) \/ ObserveVersion(p) \/ Checkpoint(p)
             \/ VerifyUnderLock(p) \/ GiveUp(p) \/ Crash(p)
      PROVE  UpgradeInvariant'
  <2>1. UNCHANGED <<version, secure>>
    BY <1>3
    DEF Open, CheckCurrent, ObserveVersion, Checkpoint, VerifyUnderLock, GiveUp, Crash
  <2>2. CASE \E l : Goto(p, l) /\ l # "open"
    BY <1>1, <2>1, <2>2
  <2>3. CASE Goto(p, "open") /\ Current
    BY <1>1, <2>1, <2>3 DEF Current
  <2>. QED
    BY <1>3, <2>2, <2>3
    DEF Open, CheckCurrent, ObserveVersion, Checkpoint, VerifyUnderLock, GiveUp, Crash
<1>4. ASSUME NEW p \in Procs, DeleteBatch(p) PROVE UpgradeInvariant'
  BY <1>1, <1>4 DEF DeleteBatch
<1>5. ASSUME NEW p \in Procs, Migrate(p) PROVE UpgradeInvariant'
  BY <1>1, <1>5 DEF Migrate
<1>6. ASSUME NEW p \in Procs, Record(p) \/ HoldSlot(p) \/ ReleaseSlot(p)
      PROVE  UpgradeInvariant'
  BY <1>2, <1>6 DEF Record, HoldSlot, ReleaseSlot
<1>7. CASE LegacyRecord \/ LegacyHold \/ PinReader \/ UNCHANGED vars
  BY <1>2, <1>7 DEF LegacyRecord, LegacyHold, PinReader, vars
<1>. QED BY <1>3, <1>4, <1>5, <1>6, <1>7 DEF Next, Step

-----------------------------------------------------------------------------
(* The theorems *)

(* A version 3 database starts within the cap.                              *)
LEMMA InitialHistory == Init => HistoryInvariant
<1> SUFFICES ASSUME Init PROVE HistoryInvariant
  OBVIOUS
<1>1. PICK n \in 0 .. MaxId :
        /\ version = 0 => n = 0
        /\ version = 3 => n <= MaxRows
        /\ rows = {Row(i, "legacy") : i \in 1 .. n}
        /\ logged = 1 .. n
  BY DEF Init
<1>2. IsFiniteSet(1 .. n) /\ Cardinality(1 .. n) = n
  BY SchemaAssumption, FS_Interval
<1>3. Ids(rows) = logged /\ \A r, q \in rows : r.id = q.id => r = q
  <2>1. \A i : Row(i, "legacy").id = i
    BY DEF Row
  <2>2. \A r \in rows : r.id \in 1 .. n /\ r = Row(r.id, "legacy")
    BY <1>1, <2>1
  <2>3. \A i \in 1 .. n : i \in Ids(rows)
    <3> SUFFICES ASSUME NEW i \in 1 .. n PROVE \E r \in rows : r.id = i
      BY DEF Ids
    <3>1. Row(i, "legacy") \in rows
      BY <1>1
    <3>. QED BY <2>1, <3>1
  <2>. QED BY <1>1, <2>2, <2>3 DEF Ids
<1>4. Cardinality(rows) <= n /\ Cardinality(rows) \in Nat
  BY <1>1, <1>2, <1>3, RowsAndIds
<1>5. version = 3 => Cardinality(rows) <= MaxRows
  BY <1>1, <1>4, SchemaAssumption
<1>6. \A r \in rows : r.client = "legacy"
  BY <1>1 DEF Row
<1>. QED BY <1>1, <1>3, <1>5, <1>6 DEF HistoryInvariant, NewestHistoryKept

(* The inductive invariant in every reachable state.                        *)
THEOREM SchemaInvariantHolds == Spec => [](TypeOK /\ HistoryInvariant /\ UpgradeInvariant)
<1>1. Init => TypeOK /\ UpgradeInvariant
  <2> SUFFICES ASSUME Init PROVE TypeOK /\ UpgradeInvariant
    OBVIOUS
  <2>1. /\ rows \subseteq [id : 1 .. MaxId, client : {"legacy", "attributed"}]
        /\ logged \subseteq 1 .. MaxId
    <3>1. PICK n \in 0 .. MaxId : /\ rows = {Row(i, "legacy") : i \in 1 .. n}
                                  /\ logged = 1 .. n
      BY DEF Init
    <3>2. 1 .. n \subseteq 1 .. MaxId
      BY SchemaAssumption
    <3>. QED BY <3>1, <3>2 DEF Row
  <2>2. /\ pc \in [Procs -> Opening \cup Failed \cup {"closed", "open"}]
        /\ seen \in [Procs -> 0 .. 3]
    BY DEF Init
  <2>3. /\ version \in 0 .. 3 /\ secure \in BOOLEAN
        /\ batches \in Nat /\ noise \in BOOLEAN /\ pinned \in BOOLEAN
        /\ writer \in Procs \cup {None, Legacy}
    BY DEF Init
  <2>4. UpgradeInvariant
    BY DEF Init, UpgradeInvariant
  <2>. QED BY <2>1, <2>2, <2>3, <2>4 DEF TypeOK
<1>2. (TypeOK /\ HistoryInvariant /\ UpgradeInvariant) /\ [Next]_vars
        => (TypeOK /\ HistoryInvariant /\ UpgradeInvariant)'
  BY TypeStep, HistoryStep, UpgradeStep
<1>. QED BY <1>1, <1>2, InitialHistory, PTL DEF Spec

(* However many openers trim, crash, retry and migrate, the newest rows are *)
(* kept, each once.                                                         *)
THEOREM NewestHistoryAlwaysKept == Spec => []NewestHistoryKept
<1>1. HistoryInvariant => NewestHistoryKept
  BY DEF HistoryInvariant
<1>. QED BY <1>1, SchemaInvariantHolds, PTL

(* An opened vault is current.                                              *)
THEOREM OpenedAlwaysCurrent == Spec => []OpenedIsCurrent
<1>1. HistoryInvariant /\ UpgradeInvariant => OpenedIsCurrent
  BY DEF HistoryInvariant, UpgradeInvariant, OpenedIsCurrent, Current
<1>. QED BY <1>1, SchemaInvariantHolds, PTL

(* What a version 3 client logged is attributed to it for ever.             *)
THEOREM AttributionAlwaysKept == Spec => AttributionKept
<1>1. (TypeOK /\ HistoryInvariant /\ UpgradeInvariant) /\ [Next]_vars =>
        [\A r \in rows, q \in rows' :
           r.id = q.id /\ r.client = "attributed" => q.client = "attributed"]_vars
  <2> SUFFICES ASSUME TypeOK, HistoryInvariant, UpgradeInvariant, Next,
                      NEW r \in rows, NEW q \in rows', r.id = q.id, r.client = "attributed"
               PROVE  q.client = "attributed"
    OBVIOUS
  <2> USE DEF dbVars, walVars
  <2>1. version = 3
    BY DEF HistoryInvariant, TypeOK
  <2>2. ASSUME q \in rows PROVE q.client = "attributed"
    BY <2>2 DEF HistoryInvariant, NewestHistoryKept
  <2>3. ASSUME NEW m, m = NextId, NEW c, q = Row(m, c) PROVE FALSE
    <3>1. m \notin logged
      BY <2>3, HistoryIsKept, SchemaAssumption
    <3>. QED BY <2>3, <3>1 DEF Row, HistoryInvariant, Ids
  <2>4. CASE rows' \subseteq rows
    BY <2>2, <2>4
  <2>5. CASE \E c : rows' \subseteq rows \cup {Row(NextId, c)}
    BY <2>2, <2>3, <2>5
  <2>6. ASSUME NEW p \in Procs, Migrate(p) PROVE rows' \subseteq rows
    BY <2>1, <2>6 DEF Migrate, VersionToMigrate, Newest
  <2>7. ASSUME NEW p \in Procs, DeleteBatch(p) PROVE rows' \subseteq rows
    BY <2>7 DEF DeleteBatch
  <2>8. ASSUME NEW p \in Procs, Record(p) PROVE \E c : rows' \subseteq rows \cup {Row(NextId, c)}
    BY <2>8 DEF Record, Newest
  <2>9. LegacyRecord => \E c : rows' \subseteq rows \cup {Row(NextId, c)}
    BY DEF LegacyRecord
  <2>10. ASSUME NEW p \in Procs,
                \/ Open(p) \/ CheckCurrent(p) \/ ObserveVersion(p) \/ Checkpoint(p)
                \/ VerifyUnderLock(p) \/ GiveUp(p) \/ HoldSlot(p) \/ ReleaseSlot(p) \/ Crash(p)
         PROVE  rows' \subseteq rows
    BY <2>10
    DEF Open, CheckCurrent, ObserveVersion, Checkpoint, VerifyUnderLock, GiveUp, HoldSlot,
        ReleaseSlot, Crash
  <2>11. LegacyHold \/ PinReader => rows' \subseteq rows
    BY DEF LegacyHold, PinReader
  <2>. QED
    BY <2>4, <2>5, <2>6, <2>7, <2>8, <2>9, <2>10, <2>11 DEF Next, Step
<1>. QED BY <1>1, SchemaInvariantHolds, PTL DEF Spec, AttributionKept

=============================================================================
