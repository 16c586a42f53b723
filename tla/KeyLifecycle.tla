--------------------------- MODULE KeyLifecycle ---------------------------
(***************************************************************************)
(* Creating, resuming and opening the encrypted vault:                     *)
(* vault-key-manager.ts, vault-key-envelope.ts,                            *)
(* encrypted-sqlite-provider.ts and openEncryptedVaultCandidate of         *)
(* vault.ts.  A step is one durable change to the vault's directory with   *)
(* the checks the code makes on the way to it, so the process may stop     *)
(* between any two; protector calls are awaits.  At most one process uses  *)
(* a directory (the single-instance lock of main.ts), with any number of   *)
(* calls in it.                                                            *)
(***************************************************************************)
EXTENDS Naturals, FiniteSets

CONSTANTS
  Callers,     \* calls of openWindowsEncryptedVaultCandidate
  MaxKeys,     \* bound: keys generated
  MaxFiles,    \* bound: database files ever created under the vault's name
  MaxFaults    \* bound: failing operations, crashes, meddling and relocations

ASSUME KeyLifecycleAssumption == MaxKeys \in Nat /\ MaxFiles \in Nat /\ MaxFaults \in Nat

VARIABLES
  root,       \* identity of the directory: path, device and inode
  legacy,     \* an unencrypted vault lies in the directory
  stateFile,  \* vault-state.v1.json
  envelope,   \* vault-key-envelope.v1.json
  database,   \* owncontext.encrypted.sqlite
  stray,      \* temporary files present
  active,     \* the directory is in activeRoots
  call,       \* where each call stands
  keys,       \* keys generated so far
  files,      \* database files created so far
  meddled,    \* files another program removed or replaced
  faults      \* faults so far

durable == <<root, legacy, stateFile, envelope, database, stray>>
vars == <<root, legacy, stateFile, envelope, database, stray, active, call, keys, files,
          meddled, faults>>

----------------------------------------------------------------------------
NoKey == 0
Keys == 1 .. MaxKeys
Roots == 1 .. 2
Absent == [status |-> "absent"]
Creating(r) == [status |-> "creating", vaultId |-> r]
Ready(r, k) == [status |-> "ready", vaultId |-> r, keyId |-> k]
Envelope(r, k) == [status |-> "sealed", vaultId |-> r, keyId |-> k]
Identity(r, k) == [status |-> "identity", vaultId |-> r, keyId |-> k]

\* A database file: the key of its pages, NoKey while it is empty, and the
\* identity row in it.  A foreign one can be read with no key of this vault.
Database(id) ==
  [status |-> "file", id |-> id, key |-> NoKey, identity |-> Absent, foreign |-> FALSE]
Foreign(id) == [Database(id) EXCEPT !.foreign = TRUE]

Exists(f) == f.status # "absent"
Moved(f) == Exists(f) /\ f.vaultId # root

Modes == {"create", "resume-new", "resume-existing", "ready"}
AtRest == {"idle", "refused", "failed", "open"}
Steps == {"journal", "link-state", "unlink-state",
          "protect", "seal", "link-envelope", "unlink-envelope", "unprotect",
          "reserve", "native", "attest", "schema", "identity", "final", "rename"}

\* A call: its step, the mode it chose, the key the state file names, the key it
\* holds, and the database file it keeps open as a guard.
NoCall == [pc |-> "idle", mode |-> "create", stated |-> NoKey, key |-> NoKey, guard |-> 0]

Init ==
  /\ root = 1
  /\ legacy \in BOOLEAN
  /\ stateFile = Absent /\ envelope = Absent /\ database = Absent
  /\ stray = {}
  /\ active = FALSE
  /\ call = [c \in Callers |-> NoCall]
  /\ keys = 0 /\ files = 0 /\ faults = 0
  /\ meddled = {}

At(c, step) == call[c].pc = step

\* A call moves to a step, keeping what it has read.
Go(c, step) == call' = [call EXCEPT ![c].pc = step] /\ UNCHANGED active

\* The end of a call: `finally` releases the directory, and the envelope
\* functions overwrite the key.
Finish(c, outcome) ==
  /\ call' = [call EXCEPT ![c] = [NoCall EXCEPT !.pc = outcome]]
  /\ active' = FALSE

\* The vault goes to the caller, who keeps it open.
HandOver(c) ==
  /\ call' = [call EXCEPT ![c].pc = "open"]
  /\ active' = FALSE

\* inspectInventory throws: a legacy vault, or a file of no known name.
InventoryConflict == legacy \/ stray # {}

\* create-exclusive, against open-existing
CreatesFile(c) == call[c].mode \in {"create", "resume-new"}
FirstTime(c) == call[c].mode # "ready"

----------------------------------------------------------------------------
(* The journal: openWindowsEncryptedVaultCandidate up to its first await.  *)

\* mutant: a database is opened, or created over, whatever lies next to it.
ModeOfTrusting ==
  IF stateFile.status = "ready" THEN "ready"
  ELSE IF ~Exists(envelope) THEN "create"
  ELSE IF Exists(database) THEN "resume-existing" ELSE "resume-new"

\* mutant: a crash between the envelope and the database is not resumed.
ModeOfNoResume ==
  IF stateFile.status = "ready"
  THEN IF Exists(envelope) /\ Exists(database) THEN "ready" ELSE "conflict"
  ELSE IF Exists(envelope) = Exists(database)
       THEN IF Exists(database) THEN "resume-existing" ELSE "create"
       ELSE "conflict"

\* What the files found ask for, "conflict" when they do not fit together.
ModeOf ==
  LET found == <<Exists(envelope), Exists(database)>>
  IN CASE ~Exists(stateFile) /\ found = <<FALSE, FALSE>>             -> "create"
       [] stateFile.status = "creating" /\ found = <<FALSE, FALSE>>  -> "create"
       [] stateFile.status = "creating" /\ found = <<TRUE, FALSE>>   -> "resume-new"
       [] stateFile.status = "creating" /\ found = <<TRUE, TRUE>>    -> "resume-existing"
       [] stateFile.status = "ready" /\ found = <<TRUE, TRUE>>       -> "ready"
       [] OTHER -> "conflict"

\* The directory is taken, or its files do not fit: the call ends at once.
\* withVaultKeyFromEnvelope compares the envelope's vault before its first await.
Unfit ==
  \/ InventoryConflict
  \/ ModeOf = "conflict"
  \/ Moved(stateFile)
  \/ ModeOf # "create" /\ Moved(envelope)

OpenCandidate(c) ==
  /\ call[c].pc \in AtRest \ {"open"}
  /\ \/ /\ active
        /\ call' = [call EXCEPT ![c] = [NoCall EXCEPT !.pc = "failed"]]
        /\ UNCHANGED active
     \/ /\ ~active /\ Unfit
        /\ Finish(c, "refused")
     \/ /\ ~active /\ ~Unfit
        /\ active' = TRUE
        /\ \E mode \in Modes, step \in {"journal", "protect", "unprotect"} :
             /\ mode = ModeOf
             /\ step = CASE mode # "create" -> "unprotect"
                         [] mode = "create" /\ Exists(stateFile) -> "protect"
                         [] mode = "create" /\ ~Exists(stateFile) -> "journal"
             /\ call' = [call EXCEPT ![c] =
                  [NoCall EXCEPT !.pc = step, !.mode = mode,
                     !.stated = IF mode = "ready" THEN stateFile.keyId ELSE NoKey,
                     !.key = IF mode = "create" THEN NoKey ELSE envelope.keyId]]
  /\ UNCHANGED <<durable, keys, files, meddled, faults>>

\* persistInitialState: a temporary file is written and linked under the name of
\* the state file, which fails if that exists, and its own name is removed.
WriteInitialState(c) ==
  /\ At(c, "journal")
  /\ stray' = stray \cup {"state"}
  /\ Go(c, "link-state")
  /\ UNCHANGED <<root, legacy, stateFile, envelope, database, keys, files, meddled, faults>>

LinkInitialState(c) ==
  /\ At(c, "link-state")
  /\ ~Exists(stateFile)
  /\ stateFile' = Creating(root)
  /\ Go(c, "unlink-state")
  /\ UNCHANGED <<root, legacy, envelope, database, stray, keys, files, meddled, faults>>

\* The inventory is read again before the vault is created.
UnlinkInitialState(c) ==
  /\ At(c, "unlink-state")
  /\ stray' = stray \ {"state"}
  /\ IF legacy \/ stray' # {} \/ ~Exists(stateFile) \/ Exists(envelope) \/ Exists(database)
     THEN Finish(c, "refused") ELSE Go(c, "protect")
  /\ UNCHANGED <<root, legacy, stateFile, envelope, database, keys, files, meddled, faults>>

----------------------------------------------------------------------------
(* The key: createVaultKeyEnvelope and withVaultKeyFromEnvelope.           *)

\* mutant: the key is not handed on to the envelope.
ProtectKeyLost(c) ==
  /\ At(c, "protect")
  /\ keys < MaxKeys
  /\ keys' = keys + 1
  /\ Go(c, "seal")
  /\ UNCHANGED <<durable, files, meddled, faults>>

\* mutant: the key is used before its envelope is on disk.
ProtectKeyUsedFirst(c) ==
  /\ At(c, "protect")
  /\ keys < MaxKeys
  /\ keys' = keys + 1
  /\ call' = [call EXCEPT ![c].pc = "reserve", ![c].key = keys + 1]
  /\ UNCHANGED <<durable, active, files, meddled, faults>>

\* The protector answers: there is a fresh key, not yet on disk.
ProtectKey(c) ==
  /\ At(c, "protect")
  /\ keys < MaxKeys
  /\ keys' = keys + 1
  /\ call' = [call EXCEPT ![c].pc = "seal", ![c].key = keys + 1]
  /\ UNCHANGED <<durable, active, files, meddled, faults>>

WriteEnvelope(c) ==
  /\ At(c, "seal")
  /\ stray' = stray \cup {"envelope"}
  /\ Go(c, "link-envelope")
  /\ UNCHANGED <<root, legacy, stateFile, envelope, database, keys, files, meddled, faults>>

LinkEnvelope(c) ==
  /\ At(c, "link-envelope")
  /\ \/ /\ ~Exists(envelope)
        /\ envelope' = Envelope(root, call[c].key)
        /\ Go(c, "unlink-envelope")
        /\ UNCHANGED stray
     \/ /\ Exists(envelope)
        /\ stray' = stray \ {"envelope"}
        /\ Finish(c, "refused")
        /\ UNCHANGED envelope
  /\ UNCHANGED <<root, legacy, stateFile, database, keys, files, meddled, faults>>

UnlinkEnvelope(c) ==
  /\ At(c, "unlink-envelope")
  /\ stray' = stray \ {"envelope"}
  /\ Go(c, "reserve")
  /\ UNCHANGED <<root, legacy, stateFile, envelope, database, keys, files, meddled, faults>>

\* The protector answers.  A ready vault must have the key its state names.
UnprotectKey(c) ==
  /\ At(c, "unprotect")
  /\ IF call[c].mode = "ready" /\ call[c].key # call[c].stated
     THEN Finish(c, "refused")
     ELSE Go(c, "reserve")
  /\ UNCHANGED <<durable, keys, files, meddled, faults>>

----------------------------------------------------------------------------
(* The database: openKeyed, openEncryptedVaultCandidate, ensureIdentity.   *)

\* SQLite's handle, which denies other programs to remove or replace the file.
Holding(c) == call[c].pc \in {"attest", "schema", "identity", "final", "rename", "open"}

GuardStable(c) == Exists(database) /\ database.id = call[c].guard

\* mutant: the cleanup removes whatever has the name.
WithoutOwnFileByName(c) == IF CreatesFile(c) THEN Absent ELSE database

\* The cleanup of openKeyed: a file this call created and nobody replaced.
WithoutOwnFile(c) == IF CreatesFile(c) /\ GuardStable(c) THEN Absent ELSE database

\* The file is created, exclusively, or found, and kept open as the guard.
ReserveFile(c) ==
  /\ At(c, "reserve")
  /\ \/ /\ CreatesFile(c) /\ ~Exists(database)
        /\ files < MaxFiles
        /\ files' = files + 1
        /\ database' = Database(files + 1)
        /\ call' = [call EXCEPT ![c].pc = "native", ![c].guard = files + 1]
        /\ UNCHANGED active
     \/ /\ ~CreatesFile(c) /\ Exists(database)
        /\ call' = [call EXCEPT ![c].pc = "native", ![c].guard = database.id]
        /\ UNCHANGED <<database, files, active>>
     \/ /\ CreatesFile(c) = Exists(database)
        /\ Finish(c, "refused")
        /\ UNCHANGED <<database, files>>
  /\ UNCHANGED <<root, legacy, stateFile, envelope, stray, keys, meddled, faults>>

\* The engine opens what has the name now, which must be the guarded file, and is
\* given the key.
OpenNative(c) ==
  /\ At(c, "native")
  /\ IF GuardStable(c)
     THEN Go(c, "attest") /\ UNCHANGED database
     ELSE Finish(c, "refused") /\ database' = WithoutOwnFile(c)
  /\ UNCHANGED <<root, legacy, stateFile, envelope, stray, keys, files, meddled, faults>>

\* Pages can be read: there are none yet, or they have the key of this call.
Readable(c) == ~database.foreign /\ database.key \in {NoKey, call[c].key}

\* The cipher is attested, then the schema version is read from the first page.
AttestCipher(c) ==
  /\ At(c, "attest")
  /\ IF Readable(c) THEN Go(c, "schema") ELSE Finish(c, "refused")
  /\ UNCHANGED <<durable, keys, files, meddled, faults>>

\* The first pages are written, with the key.
InitializeSchema(c) ==
  /\ At(c, "schema")
  /\ database' = [database EXCEPT !.key = call[c].key]
  /\ Go(c, "identity")
  /\ UNCHANGED <<root, legacy, stateFile, envelope, stray, keys, files, meddled, faults>>

\* mutant: an open of a ready vault creates the identity it misses.
IdentityAfterAlways(c) ==
  IF ~Exists(database.identity) THEN Identity(root, call[c].key) ELSE database.identity

\* The identity row after ensureIdentity: created only before the vault is ready.
IdentityAfter(c) ==
  IF ~Exists(database.identity) /\ FirstTime(c)
  THEN Identity(root, call[c].key) ELSE database.identity

\* mutant: a ready vault is handed over without its identity verified.
EnsureIdentityUnchecked(c) ==
  /\ At(c, "identity")
  /\ database' = [database EXCEPT !.identity = IdentityAfter(c)]
  /\ IF FirstTime(c) THEN Go(c, "final") ELSE HandOver(c)
  /\ UNCHANGED <<root, legacy, stateFile, envelope, stray, keys, files, meddled, faults>>

EnsureIdentity(c) ==
  /\ At(c, "identity")
  /\ database' = [database EXCEPT !.identity = IdentityAfter(c)]
  /\ CASE IdentityAfter(c) # Identity(root, call[c].key) -> Finish(c, "refused")
       [] IdentityAfter(c) = Identity(root, call[c].key) /\ FirstTime(c)  -> Go(c, "final")
       [] IdentityAfter(c) = Identity(root, call[c].key) /\ ~FirstTime(c) -> HandOver(c)
  /\ UNCHANGED <<root, legacy, stateFile, envelope, stray, keys, files, meddled, faults>>

----------------------------------------------------------------------------
(* Ready: the end of openWindowsEncryptedVaultCandidate.                   *)

\* The final inventory, and the state file as replaceCreatingState expects it.
Complete ==
  /\ ~InventoryConflict
  /\ Exists(envelope) /\ Exists(database)
  /\ stateFile = Creating(root)

WriteReadyState(c) ==
  /\ At(c, "final")
  /\ IF Complete
     THEN stray' = stray \cup {"state"} /\ Go(c, "rename")
     ELSE UNCHANGED stray /\ Finish(c, "refused")
  /\ UNCHANGED <<root, legacy, stateFile, envelope, database, keys, files, meddled, faults>>

RenameReadyState(c) ==
  /\ At(c, "rename")
  /\ stateFile' = Ready(root, call[c].key)
  /\ stray' = stray \ {"state"}
  /\ HandOver(c)
  /\ UNCHANGED <<root, legacy, envelope, database, keys, files, meddled, faults>>

CloseVault(c) ==
  /\ At(c, "open")
  /\ call' = [call EXCEPT ![c] = NoCall]
  /\ UNCHANGED <<durable, active, keys, files, meddled, faults>>

----------------------------------------------------------------------------
(* What may go wrong.                                                      *)

Wrong == faults < MaxFaults /\ faults' = faults + 1

TemporaryOf(c) ==
  CASE call[c].pc \in {"link-state", "unlink-state", "rename"} -> {"state"}
    [] call[c].pc \in {"link-envelope", "unlink-envelope"} -> {"envelope"}
    [] OTHER -> {}

\* An operation of the step throws: a full disk, no keychain, a lock.  The
\* temporary file is removed unless that fails too.
StepFails(c) ==
  /\ call[c].pc \notin AtRest
  /\ Wrong
  /\ stray' \in {stray, stray \ TemporaryOf(c)}
  /\ database' = IF At(c, "native") THEN WithoutOwnFile(c) ELSE database
  /\ Finish(c, "failed")
  /\ UNCHANGED <<root, legacy, stateFile, envelope, keys, files, meddled>>

\* The state was replaced, but reading it back fails.
ReadBackFails(c) ==
  /\ At(c, "rename")
  /\ Wrong
  /\ stateFile' = Ready(root, call[c].key)
  /\ stray' = stray \ {"state"}
  /\ Finish(c, "failed")
  /\ UNCHANGED <<root, legacy, envelope, database, keys, files, meddled>>

\* The process ends between two steps and is started again.
Crash ==
  /\ \E c \in Callers : call[c].pc \notin {"idle", "refused", "failed"}
  /\ Wrong
  /\ call' = [c \in Callers |-> NoCall]
  /\ active' = FALSE
  /\ UNCHANGED <<durable, keys, files, meddled>>

\* Another program removes a file, puts a database of its own or an empty file
\* under the name, or brings back an envelope: of another vault, or an earlier one of this directory.
Meddle ==
  /\ Wrong
  /\ \/ /\ Exists(stateFile)
        /\ stateFile' = Absent
        /\ meddled' = meddled \cup {"state"}
        /\ UNCHANGED <<envelope, database, files>>
     \/ \E e \in {Absent} \cup {Envelope(r, k) : r \in Roots, k \in 1 .. keys} :
          /\ e # envelope
          /\ envelope' = e
          /\ meddled' = meddled \cup {"envelope"}
          /\ UNCHANGED <<stateFile, database, files>>
     \/ /\ \A c \in Callers : ~Holding(c)
        /\ \/ /\ Exists(database)
              /\ database' = Absent
              /\ UNCHANGED files
           \/ /\ files < MaxFiles
              /\ files' = files + 1
              /\ database' \in {Foreign(files + 1), Database(files + 1)}
        /\ meddled' = meddled \cup {"database"}
        /\ UNCHANGED <<stateFile, envelope>>
  /\ UNCHANGED <<root, legacy, stray, active, call, keys>>

\* The directory is moved or copied while nothing in it is open.
Relocate ==
  /\ \A c \in Callers : call[c].pc \in AtRest \ {"open"}
  /\ Wrong
  /\ root' = 3 - root
  /\ UNCHANGED <<legacy, stateFile, envelope, database, stray, active, call, keys, files,
                 meddled>>

CallerStep(c) ==
  \/ OpenCandidate(c)
  \/ WriteInitialState(c) \/ LinkInitialState(c) \/ UnlinkInitialState(c)
  \/ ProtectKey(c) \/ WriteEnvelope(c) \/ LinkEnvelope(c) \/ UnlinkEnvelope(c)
  \/ UnprotectKey(c)
  \/ ReserveFile(c) \/ OpenNative(c) \/ AttestCipher(c)
  \/ InitializeSchema(c) \/ EnsureIdentity(c)
  \/ WriteReadyState(c) \/ RenameReadyState(c) \/ CloseVault(c)
  \/ StepFails(c) \/ ReadBackFails(c)

Next == (\E c \in Callers : CallerStep(c)) \/ Crash \/ Meddle \/ Relocate

Spec == Init /\ [][Next]_vars

----------------------------------------------------------------------------
(* Properties.                                                             *)

Calls == [pc : AtRest \cup Steps, mode : Modes, stated : Keys \cup {NoKey},
          key : Keys \cup {NoKey}, guard : 0 .. MaxFiles]
Identities == {Absent} \cup {Identity(r, k) : r \in Roots, k \in Keys}
StateFiles ==
  {Absent} \cup {Creating(r) : r \in Roots} \cup {Ready(r, k) : r \in Roots, k \in Keys}
Envelopes == {Absent} \cup {Envelope(r, k) : r \in Roots, k \in Keys}
Databases ==
  [status : {"file"}, id : 1 .. MaxFiles, key : Keys \cup {NoKey},
   identity : Identities, foreign : BOOLEAN]

\* The type invariant.
TypeOK ==
  /\ root \in Roots /\ legacy \in BOOLEAN
  /\ stateFile \in StateFiles /\ envelope \in Envelopes
  /\ database \in {Absent} \cup Databases
  /\ stray \subseteq {"state", "envelope"}
  /\ active \in BOOLEAN
  /\ call \in [Callers -> Calls]
  /\ meddled \subseteq {"state", "envelope", "database"}
  /\ keys \in 0 .. MaxKeys /\ files \in 0 .. MaxFiles /\ faults \in 0 .. MaxFaults

\* Whatever step the process stopped at, a database written by this code can be
\* read with the key of the envelope next to it, and a database file never comes
\* before its envelope: no crash strands data without its key
\* (vault-key-envelope.ts: persistExclusiveAtomic before useKey).
DataHasItsKey ==
  meddled = {} /\ Exists(database) =>
    /\ Exists(envelope)
    /\ database.key \in {NoKey, envelope.keyId}

\* A directory whose state says ready is whole: the state, the envelope, the
\* pages and the identity row name one key (replaceCreatingState comes last).
ReadyIsWhole ==
  meddled = {} /\ stateFile.status = "ready" =>
    /\ Exists(envelope) /\ Exists(database)
    /\ envelope.keyId = stateFile.keyId
    /\ database.key = stateFile.keyId
    /\ database.identity = Identity(stateFile.vaultId, stateFile.keyId)

\* An open vault is the file whose identity, in this directory, has the key it
\* was opened with: no interleaving of open, crash and meddling hands out another.
OpenedIsIdentified ==
  \A c \in Callers : At(c, "open") =>
    /\ Exists(database) /\ ~database.foreign
    /\ database.key = call[c].key
    /\ database.identity = Identity(root, call[c].key)

\* Key custody on disk: the three facts above, whatever steps the process stopped
\* between (the order of the durable steps in vault-key-manager.ts).
KeyCustody == DataHasItsKey /\ ReadyIsWhole /\ OpenedIsIdentified

\* Recovery is complete: a call without a failing operation of its own is refused
\* only over a legacy vault, a temporary file a stopped process left, a moved
\* directory or a file another program touched, never over what a crash left
\* half created.
RefusalIsExplained ==
  [][\A c \in Callers :
       call'[c].pc = "refused" /\ call[c].pc # "refused" =>
         legacy \/ stray # {} \/ meddled # {} \/ Moved(stateFile)]_vars

\* Data are refused rather than replaced, whatever else was lost: no fresh key is
\* made where encrypted data lie (the inventory conflicts of
\* vault-key-manager.ts), and an empty file under the name of a ready vault's
\* database is not adopted as that vault (IDENTITY_INVALID of ensureIdentity).
NeverReplaced ==
  [][/\ keys' # keys /\ Exists(database) => database.key = NoKey
     /\ stateFile.status = "ready" /\ Exists(database) /\ Exists(database') =>
          database'.identity = (IF database'.id = database.id THEN database.identity ELSE Absent)
    ]_vars

\* The cleanup of a failed open removes only the empty file that open created:
\* never data, never a file that replaced its own.
OnlyOwnEmptyFileRemoved ==
  [][Exists(database) /\ ~Exists(database') /\ call' # call =>
       /\ ~database.foreign /\ database.key = NoKey
       /\ \E c \in Callers : CreatesFile(c) /\ call[c].guard = database.id]_vars

\* What callers are promised: VaultCustody.
Custody == INSTANCE VaultCustody WITH
  vault <- IF Exists(database) THEN
             IF Exists(database.identity) THEN database.identity.keyId ELSE NoKey
           ELSE NoKey,
  holds <- [c \in Callers |-> IF At(c, "open") THEN call[c].key ELSE NoKey]

\* Opening implements the promise of VaultCustody: one key per vault, established
\* before anybody holds it, and lost only with the file and while nobody does.
ImplementsCustody == Custody!Spec
----------------------------------------------------------------------------
(* Why they hold: the inductive invariants, for KeyLifecycleProofs.         *)

\* One call at a time works in the directory (activeRoots), and it has a key of
\* its own from the protector's first answer on.
Exclusive ==
  /\ \A c \in Callers : call[c].pc \in Steps => active
  /\ \A c, d \in Callers : call[c].pc \in Steps /\ call[d].pc \in Steps => c = d

NewVault == {"journal", "link-state", "unlink-state", "protect"}
Sealing == {"seal", "link-envelope", "unlink-envelope"}
Filled == {"attest", "schema", "identity", "final", "rename", "open"}

WellFormed(c) ==
  /\ call[c].pc \in NewVault \cup Sealing => call[c].mode = "create"
  /\ call[c].pc = "unprotect" => call[c].mode # "create"
  /\ call[c].pc \in {"final", "rename"} => FirstTime(c)
  /\ call[c].pc \in (Steps \ NewVault) \cup {"open"} => call[c].key \in Keys

\* What a call may rely on whatever other programs do to the files: a vault being
\* created or resumed is not ready, a fresh key meets no data, a file that would be
\* cleaned up is empty, and the file held open is the one of the call's key.
ReliesOn(c) ==
  /\ call[c].pc \in Steps /\ FirstTime(c) => stateFile.status # "ready"
  /\ call[c].pc \in NewVault /\ Exists(database) => database.key = NoKey
  /\ At(c, "native") /\ CreatesFile(c) /\ GuardStable(c) => database = Database(call[c].guard)
  /\ call[c].pc \in Filled => Exists(database)
  /\ call[c].pc \in Filled \ {"attest"} => Readable(c)
  /\ call[c].pc \in Filled \ {"attest", "schema"} => database.key = call[c].key
  /\ call[c].pc \in {"final", "rename", "open"} =>
       database.identity = Identity(root, call[c].key)

\* A database file has a name of its own, which no later one is given.
FileIds ==
  /\ Exists(database) => database.id \in 1 .. files
  /\ \A c \in Callers : call[c].guard \in 0 .. files

CallInvariant ==
  /\ Exclusive
  /\ \A c \in Callers : WellFormed(c) /\ ReliesOn(c)
  /\ FileIds

\* What the files look like as long as no other program touched them: each of
\* them only with those created before it, all of one vault and one key.
OwnFiles ==
  /\ Exists(envelope) => Exists(stateFile) /\ envelope.vaultId = stateFile.vaultId
  /\ Exists(database) =>
       /\ Exists(envelope) /\ ~database.foreign
       /\ database.key \in {NoKey, envelope.keyId}
       /\ Exists(database.identity) =>
            database.identity = Identity(stateFile.vaultId, envelope.keyId)
  /\ stateFile.status = "ready" =>
       /\ Exists(envelope) /\ Exists(database)
       /\ envelope.keyId = stateFile.keyId
       /\ database.key = stateFile.keyId
       /\ database.identity = Identity(stateFile.vaultId, stateFile.keyId)

\* How they fit what the call under way has read.
OwnCall(c) ==
  /\ call[c].pc \in {"journal", "link-state"} => ~Exists(stateFile)
  /\ call[c].pc \in {"unlink-state", "protect", "seal", "link-envelope"} =>
       stateFile = Creating(root) /\ ~Exists(envelope)
  /\ call[c].pc \in Steps \ (NewVault \cup {"seal", "link-envelope"}) =>
       /\ Exists(envelope) /\ envelope.keyId = call[c].key
       /\ stateFile.vaultId = root
       /\ IF FirstTime(c) THEN stateFile = Creating(root)
          ELSE stateFile.status = "ready" /\ call[c].stated = stateFile.keyId
  /\ call[c].pc \in {"unlink-envelope", "unprotect", "reserve"} =>
       (CreatesFile(c) <=> ~Exists(database))
  /\ At(c, "native") => GuardStable(c)

FilesInvariant ==
  meddled = {} => OwnFiles /\ \A c \in Callers : call[c].pc \in Steps => OwnCall(c)
============================================================================
