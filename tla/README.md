# OhMyContext in TLA+

OhMyContext is a local-first desktop application that imports folders into an
encrypted SQLite vault and hands parts of it, audited, to AI clients over MCP.
This directory models the parts of it that are hard to test: several processes
over one database file, imports that span many turns of the event loop, purges
confirmed in dialogs, upgrades and key files interrupted between two durable
steps, configuration files shared with other programs, frames cut anywhere on a
pipe, a page whose answers come back side by side, files read while they are
changed, and a release built from files nothing holds still. TLC checks the
models on small instances; TLAPS proves the safety of the vault, of its key, of
its upgrades, of the desktop's imports, of the clients' configuration files, of the
connection an AI client reads it through, of the page, of file reads and of the release
for every instance.

All paths are relative to the repository. A module's comments name its source
files; `vault.ts` is `packages/core/src/vault.ts`, `schema.ts` is
`packages/core/src/schema.ts`, `main.ts` is `apps/desktop/src/electron/main.ts`.

    tlc -workers 2 -config VaultRetrieval.cfg MCVault.tla
    tlc -workers 2 -config KeyLifecycle.cfg KeyLifecycle.tla
    tlapm VaultProofs.tla

## The system

| Component | State it keeps | Operations | Hard part | Correct when |
|---|---|---|---|---|
| vault core (`vault.ts`) | database rows; per connection: `importingSources`, the open transaction | preview, import, search, fetch, purge source or document, clear activity | an import is one transaction over many awaits; search reads and audits in two transactions; other processes write in between; files change while they are read | imports are all or nothing and what was previewed; what is returned is audited; a purge removes what was confirmed; lineage and references stay whole |
| schema (`schema.ts`) | `user_version`, the activity log, the WAL | open and upgrade v1/v2 to v3 | batches committed one by one, concurrent openers, an older release still writing | no row within the cap is lost, no upgrade happens twice, opening ends |
| directory import tokens (`directory-import-preflight.ts`) | pending, confirming and terminal tokens | issue, take, cancel, expire, finish | confirm, cancel, expiry and replacement race | a preview is committed at most once, only for its window |
| desktop application (`main.ts`) | `activeImport`, `folderSelectionActive`, `quitAfterImport`, the open vault | import, purge, clear, quit, activate | dialogs and imports are awaited between check and use; quit during an import | one import at a time, the vault is closed after it, quit happens |
| key manager and envelope (`vault-key-manager.ts`, `vault-key-envelope.ts`) | state file, envelope file, database file, active roots | create, resume, open | a crash between two durable steps; other calls; files lost or put back | a vault reopens with its key or is refused, never re-keyed over data |
| encrypted provider (`encrypted-sqlite-provider.ts`) | connection, guard file | reserve, open, attest, close | each step may fail | nothing is read before the cipher is attested; only own files are removed |
| MCP server (`apps/mcp-server/src/server.ts`) | cache of issued documents | search, fetch | eviction at the limit; documents that change after they were issued | fetch serves only what a search of this session issued |
| MCP broker (`broker.ts`) | handshake state, line buffer, transport | hello, ready, start, close | bytes and closes in any order | every request is parsed once and in order, nothing leaks into the next connection |
| client configuration writers (`claude-code-config.ts`, `codex-config.ts`) | a file shared with the client | apply, refresh, remove | the client and the user edit the same file, the `claude` command is killed half way | foreign content is never lost, answers are true |
| Squirrel lifecycle (`squirrel-lifecycle.ts`) | – | install, update, uninstall stages | one stage of several fails, the application is still running | the others run and the hook quits |
| renderer (`renderer/App.tsx`, `onboarding.ts`) | a lock, three busy states, the preview, overlays, what is shown | gestures, answers | answers overlap and overwrite one state | shows the vault as it is, removes only what it showed, never stays busy |
| build, packaging, release (`make-windows.mjs`, `release-*.mjs`, …) | build directory, evidence files, the bundle | make, attest, smoke-test, generate and verify a bundle | files are hashed one after another | a verified bundle describes one moment and lists what ships |
| sample library (`sample-library.ts`) | staging and published directories | publish, verify | rename races a crash | what is imported is the verified sample |
| chunking and retrieval windows (`chunking.ts`, `vault.ts`) | none | split text, bound fetched text | boundaries | chunks cover the text, windows keep their limit |
| storage descriptor, SQLite compatibility; MCP configuration, diagnostics | none | validate, parse, fixed messages | – | – |
| smoke drivers | none | drive the packaged application once | – | – |

How they interact. The desktop's main process owns one vault connection and
calls `vault.ts` directly; the renderer reaches it over IPC, whose calls arrive in
order. Import tokens hold a prepared preview between two IPC calls. MCP servers
are processes of their own with a connection each to the same file; in the packaged application
they reach the open vault through the broker's pipe, inside the desktop process.
SQLite's WAL with one writer is the only lock between processes; inside a process
`importingSources`, tested synchronously, is. The configuration writers share
files with Codex and Claude Code, and a Squirrel hook writes them while the
application runs. `PROJECT.json` lists under `hazards` what can go wrong at which
line, and the properties that watch it.

## Modules

| Module | Models |
|---|---|
| `VaultDb` | the rows of a vault and the statements run on them, as pure operators |
| `Vault` | processes, transactions, turns, previews, imports, retrieval, purges, crashes |
| `VaultLedger` | abstract specification: each operation atomic on the committed database |
| `VaultInvariants` | the inductive invariants of `Vault` |
| `VaultProofs` | theorems about `Vault`: types, retrieval, whole sources, lineage, references, the cap, purges, aborts, previews; `Vault` implements `VaultLedger` |
| `SchemaMigration` | `initializeSchema` by several openers next to an older release |
| `SchemaMigrationProofs` | theorems about `SchemaMigration` |
| `ImportTokens` | the token table of prepared imports, as pure operators |
| `DesktopImport` | the main process around its imports: picker, confirmation, windows, quit |
| `DesktopImportProofs` | theorems about `DesktopImport` and its token table |
| `KeyLifecycle` | creating, resuming and opening the encrypted vault, one durable step at a time |
| `VaultCustody` | abstract specification: a vault has one key, kept until its file is lost |
| `KeyLifecycleProofs` | theorems about `KeyLifecycle`, which implements `VaultCustody` |
| `ClientConfig` | both configuration services, the connection handlers, the Squirrel hook, the `claude` command |
| `McpBroker` | bridge, pipe, handshake, transport, the tools and their cache |
| `IssuedContext` | abstract specification: a fetch discloses only what this connection was issued |
| `ClientProofs` | theorems about `ClientConfig` and about `McpBroker`, which implements `IssuedContext` |
| `Renderer` | the page and the handlers it calls, over `ImportTokens` |
| `RendererProofs` | theorems about `Renderer` |
| `FileReads` | five functions that read a file, system call by system call, while it changes |
| `FileReadsProofs` | theorems about `FileReads` |
| `ReleaseBuild` | `make-windows.mjs` and the bundle commands, file by file |
| `ReleaseBuildProofs` | theorems about `ReleaseBuild` |
| `MCVault`, `MCSchemaMigration`, `MCMcpBroker` | symmetry and the values of constants, for TLC |

Definitions marked `\* mutant:` are plausible bugs in the definition that follows
them. No specification uses them: substituted for it, each breaks a property,
which shows that the property depends on the code. An inductive invariant stands at the end
of its component's module, after the properties that follow from it.

### The vault

`VaultDb`: a document is a file of a source, a revision carries its chunk and its
index rows (cascades and FTS triggers keep the three together), and an event row
refers to at most one chunk (`ON DELETE SET NULL`). Ids are injective hashes, so a
row is its own id. `cur[x] = 0` means that document `x` has no row.

`Vault`: `db` is what is committed, `work` what the process in `writer` sees inside
its open transaction. One JavaScript turn is one step, except that search and fetch
are two, since their SELECT and their audit savepoint are two transactions between
which other processes commit.

| Code | Model |
|---|---|
| `importingSources`, `retrievalAuditAvailable` | `imp[p].phase`, `Importing`, `RetrievalAuditAvailable` |
| `prepareDirectoryImport` | `StartPreview`, `PreviewStep` |
| `commitPreparedDirectoryImport`, `importDirectory` | `BeginImport` … `ReleaseImport` |
| one awaited file scan, one `prepareFile` and upsert | `ScanFile`, `ApplyFile` |
| comparison of fingerprints, `root` identity | `SameScope`, `RootUnchanged` |
| `throwIfAborted` | `Running`, against `AbortImport` |
| ROLLBACK; the `finally` blocks | `RollbackImport`; `ReleaseImport` |
| search, fetch; the retrieval audit | `SearchVault`, `FetchDocument`; `AuditAndReturn`, `RefuseRetrieval` |
| `prepareSourcePurge`, `purgeSource` | `PrepareSourcePurge` (a snapshot token), `PurgeSource` |
| `purgeDocument`, `clearRetrievalActivity` | `PurgeDocument`, `ClearRetrievalActivity` |
| process exit, kill, `closeVault` | `Crash` |

Abstractions, and why they do not hide anything the properties look at:

- Which chunks match a query is arbitrary, up to `Limit`; a document has one chunk.
  Documents without chunks, which no search returns, are left out.
- The root's identity is compared for every directory in the code and at the start
  and end of a scan here; an identity never comes back, so the outcome is the same.
  A direct import reads the identity in an await before it starts, which can only
  add rollbacks.
- `prepareSourcePurge` reads the source and its lineage in two SELECTs, here in
  one: a pair torn by another process equals no later snapshot.
- An abort during the last await of a step is noticed after that step's write; the
  rollback undoes the write, so it is modelled as noticed before.
- `SQLITE_BUSY`, `SQLITE_BUSY_SNAPSHOT`, a broken foreign key and a full disk are
  all `RefuseRetrieval` or `RollbackImport`, enabled at any time.
- The wall clock (`last_scanned_at`) is any number, even the same twice.
- `NoFile` stands for every path that yields no importable document.
- A file is read in one step here; `FileReads` is what happens inside it.

`VaultLedger` has no transactions, processes or files. `Vault` implements it with
the identity mapping on `db` and `handed`. Its `Import` carries two sets of documents
purged while the import was running, since `purgeDocument` nests in the import.

### Opening and upgrading

`SchemaMigration`: a process stops between any two statements of `initializeSchema`
that do not share a transaction; a transaction is one step. A row of the log is an
id and whom it is attributed to. The checkpoint truncates when the write slot is
free and no reader pins a non-empty WAL, as `packages/core/test/vault.test.ts:1393`
shows. The older release (external; `vault.test.ts:1761`) appends without bound until
version 3 is installed. `GiveUp` is the end of `busy_timeout`. `batches` counts the
trimming transactions since the WAL was last truncated.

### The desktop's imports

`ImportTokens` is `DirectoryImportTokenManager`, method by method. Tokens are numbered
in the order of issue, and as they all live five minutes those that are past their
time are an initial segment `1 .. due`; time is `TokenDue`, and `ExpiryTimer` may fire
late or not at all. A clock set back, which would make a due token usable again, is
left out.

`DesktopImport` models `main.ts`: a step is an IPC handler up to its first await, or a
continuation with its `finally` block.

| Code | Model |
|---|---|
| `activeImport`, with its abort signal | `active`, naming a slot of `run` |
| `folderSelectionActive` | `picker`, the window whose handler awaits the dialog |
| asynchronous functions between start and `finally` | `run`, two slots so that an overlap would show |
| `prepareFolderImport` | `AnswerPicker`, `SettleScan` |
| `commitPreparedFolderImport` | `ConfirmDirectoryImport`, `SettleCommit` |
| `runSampleVaultImport` | `ImportSampleLibrary`, `SampleReady`, `SettleSample` |
| `finishDeferredQuitOrClose` | `Finally` |
| `before-quit`, `window-all-closed`, `activate` | `BeforeQuit`, `CloseWindow`, `Activate` |

What `vault.ts` does in an import is module `Vault`; here it ends in one of its
outcomes, and never in a commit once its signal has fired, which is
`AbortedImportNeverCommits` of `Vault`. The continuation of a commit is a microtask
after COMMIT, so no event falls between the two. Electron's `app.quit` is external:
the windows are closed some time after `before-quit` lets it pass, and calls of the
window are served until then. A killed process is the end of a behaviour here; for
the vault it is `Crash` of `Vault`, for the key files `Crash` of `KeyLifecycle`.

### The keys of the vault

`KeyLifecycle` follows `openWindowsEncryptedVaultCandidate` through the journal (the
state file `creating`), the envelope, the database and the state file `ready`. Each
temporary file, link, unlink and rename is a step, with the checks that lead to it.

| Code | Model |
|---|---|
| `inspectInventory` and the choice of a mode | `InventoryConflict`, `ModeOf`, `OpenCandidate` |
| `activeRoots` | `active` |
| `persistInitialState`, `persistExclusiveAtomic` | `WriteInitialState` … `UnlinkInitialState`, `WriteEnvelope` … `UnlinkEnvelope` |
| `protectString`, `unprotectString` (awaits) | `ProtectKey`, `UnprotectKey` |
| `openKeyed`, its guard and its cleanup | `ReserveFile`, `OpenNative`, `GuardStable`, `WithoutOwnFile` |
| attestation of the cipher, the schema | `AttestCipher`, `InitializeSchema` |
| `ensureIdentity` | `EnsureIdentity` |
| `replaceCreatingState` | `WriteReadyState`, `RenameReadyState`, `ReadBackFails` |

A key is a number, and an envelope, a page or an identity row names it; encryption is
the fact that what names one key cannot be read with another. `Meddle` is another
program (or a restored backup) that removes a file, or puts another database or
envelope in its place; while SQLite holds the database open Windows denies that.
`Relocate` moves the directory, which changes the identity the files are bound to. One
process uses a directory, by the single-instance lock of `main.ts`, with any number of
calls. `VaultCustody` knows neither files nor steps; the mapping takes its `vault` from
the identity row in the database and its `holds` from the calls that have it open.

### Clients and their configuration

`ClientConfig`: a file is its `owncontext` entry, a version of everything else, and
the bootstrap keys the `claude` command may add. Parsing, TOML splicing and JSON layout
are `WithEntry`; entries of others, unreadable files and unsafe ones are one
`"conflict"`. Each look at the file and each replacement is a step, and nothing locks
it between `Write`'s comparison and `Rename`; `call.late` remembers that somebody wrote
it there, which `apps/desktop/README.md:252` leaves open.

| Code | Model |
|---|---|
| `apply`, `refreshManaged`, `remove` up to the first await | `Load`, `Plan`, `Status` |
| `backupConfig`; `snapshotStillMatches` | `BackUp`; `Matches`, `Check`, `Write` |
| rename and read-back | `Rename`, `Verify` |
| `claude mcp add`, its limits, the verification and the restoration | `RunCommand`, `VerifyCommand`, `Settle` |
| `mutationActive` | `busy`, `Flagged`, `Release` |
| `beginSquirrelLifecycle` and its `attempt`s | `HookStarts`, `HookCalls`, `HookReturns`, `HookSkips`, `HookEnds` |

A run serves the handlers of one client (`served`) and the hook both: the two services
share nothing but their caller. `claude-code-config.ts:651` returns a promise without
awaiting it, so the flag is down while a replacement without the command still runs;
`Flagged` says so, and the model lets such a replacement overlap a later call.

### The connection of an AI client

`McpBroker`: requests are numbered, a frame is two halves, and a chunk is any number of
the halves under way. `Greet` is a chunk before the hello is complete, `Adopt` the ready
line and the start of the server, `Receive` a chunk for the transport. The bridge holds
back what the client sends before it is ready (`HeldBack`). `cache` is
`issuedDocuments`, a sequence since JavaScript's maps keep the order of insertion.
Which passages a search finds is arbitrary; the vault may change, be busy or be closed
between a search and a fetch. A search with a scope finds nothing outside it (`Outside`
is another collection). What the client is told of an error is left out. `Pipelining`
is a bridge that does not wait for ready, which the program's own bridge never does; see
the supplementary configurations. A connection whose handshake runs when
`stopMcpBroker` is called is adopted afterwards, as in the code. The refinement
of `IssuedContext` maps `live`, `issued` and `disclosed`.

### The page

`Renderer`: a gesture sets the page's state and sends a call; an answer continues the
asynchronous function of `App.tsx` that awaits it. Answers to a page that was reloaded
are dropped (`since`). Its main process is coarser than `DesktopImport`, whose windows
and quits it leaves out, but uses the same `ImportTokens`. A version stands for a
source's content, since a confirmation token of `vault.ts` is a digest of it. Left out:
notices, receipts, counts and the connection view, whose handlers are `ClientConfig`;
the confirmation of a preview without anything to import, which `DesktopImport` has. The
reads of one `Promise.all` are one call, of which any may fail. `OpenSample` is the
sample's `importingSources.add` and `BEGIN`, which follow its awaited checks; a
confirmed import begins at once. While a transaction is open (`Importing`) the main
process refuses searches, fetches, purges and the clearing of the activity, which use
the same connection, and a list of sources is read within the transaction: it may show
the source being written in a version (`draft`) that a rollback takes away. A search
that finds nothing is logged as well. Retrievals by MCP clients write the log without
telling the page and are outside this module. `missed` records what the
page could not learn, because a read failed, an answer came after a reload or the
sources were read within an open transaction, so that `ScreenIsCurrent` asks no more
than the code can know: nothing about what MCP clients retrieved since the last
refresh, nor about a source that was listed during an import, until the sources
are read again.

### Reading files, building a release

`FileReads`: five functions as the sequence of their system calls (`Script`), with the
comparisons each makes. Between any two calls the disk changes: a block is written in
place, the file is saved by renaming another over it, linked, removed, led elsewhere,
or the root is replaced. `held` is everything the name has led to during the
read, against which the answer is judged. Assumed: every write changes the stamps, and
a name or root led elsewhere is not put back; the size limit is two blocks.
`readStableBoundedFile` of `smoke-packaged.mjs` is left out.

`ReleaseBuild`: `Pipeline` is `make-windows.mjs` in order, `Steps` the two bundle
commands; a file is its content and a digest is the content too. "project" stands
for manifests, lockfile and licences, "package" for the `.nupkg` with RELEASES, each a
single file. Reads and own writes of the compliance step are merged into two
steps, the reads of the provenance check into two. An edit never restores an
earlier content, and two packages made of the same entries differ. `Remake` is
`electron-forge make` by hand, `ClearOutputs` a person or the workflow removing the
bundle before it is made again. The evidence's "existing differs" check cannot fail in
a fresh build directory, the version check of a public profile fails before anything is
built, and the lockfile copy, created exclusively and first, keeps two generations
apart; none of these is modelled further. The formats of PE, ZIP, NuGet and SPDX files
are abstract.

## What is checked

Each run is one question; `PROJECT.json` says which properties it checks and gives each a
mutant that breaks it.

| Run | Instance | Question |
|---|---|---|
| `vault_lineage` | 1 file, 2 contents, 3 revisions, folder replaced once | lineage, whole sources and the previewed scope under import, re-import, purge, abort and crash |
| `vault_retrieval` | desktop and MCP server, 2 audit rows, 3 requests, fair | retrieval against purges, imports and clears of another process; imports end; refinement of `VaultLedger` |
| `schema_openers` | 2 openers, cap 2, batch 1, 5 rows, fair | the newest history survives, nobody relabels it, opened means current, opening ends |
| `desktop_imports` | both platforms, 3 tokens, 1 tombstone, 2 windows, 1 sample, fair | one import at a time, tokens used once and reported truthfully, a quit is awaited and happens |
| `key_lifecycle` | 2 calls, 2 keys, 3 database files, 3 faults | nothing is replaced, a refusal has its cause, only own empty files are removed; refinement of `VaultCustody` |
| `client_config` | 2 handler calls, the hook, 1 edit, either client, fair hook | settings survive, grants are asked for, answers are true, the hook quits |
| `mcp_broker` | 2 connections, 3 requests, 6 passages, cache of 2 documents and 2 chunks, 1 change, fair | frames in order, the latest search is fetchable, requests are handled; refinement of `IssuedContext` |
| `renderer` | 4 gestures, 1 reload, 2 previews, 1 failure, fair | the screen is current, dialogs are usable, purges as shown, busy ends |
| `file_reads` | 2 files, 2 values, 2 changes | what is listed, imported or hashed was the file; an untouched file is not refused |
| `release_build` | both profiles, 2 edits, 2 runs, 1 failure | one moment, what is listed ships, the manifest is last |
| `config_broker_entry` | 1 call, no edits | finding 1, a violation |
| `renderer_cancel` | 2 gestures, 1 token | finding 2, a violation |

The bounds are the constants `Max…`, each a guard of the actions that count, and the
sizes of the sets. Why they are enough:

- Vault: two contents for a change and a change back, which makes a third ordinal
  (`MaxOrd` 3); one request more than the cap, so that a prune drops a whole request;
  two processes for every race, since SQLite admits one writer (one of them a desktop,
  because `main.ts:992` lets it run once). `MaxStamp` is 1: two imports within one
  millisecond, the worst case for a token made of a time. One file in
  `vault_lineage`; an import stopped half way through a folder is `VaultScope` below, and for
  any number of files the theorem `SourcesWholeOrAbsent`.
- `schema_openers` starts with up to three rows above the cap, so a loser can trim
  between two batches of a winner.
- Desktop: three tokens with one tombstone make the table forget one and still hold a
  tombstone next to a usable token; two windows are an old and a new one; a
  sample waits for its files while another import starts.
- Keys: a second key is what must not be made; three database files are the created, a
  foreign one and one created again; three faults are a crash, a crash of the retry
  and a meddling, or a relocation there and back with a crash.
- Configuration: two calls overlap, the hook is a third writer, and one edit falls into
  each gap.
- Broker: one document has a chunk more than the cache keeps of one, and there is a document more
  than it keeps; the second connection is the one that must not inherit.
- Page: the shortest ways to every known danger (a gesture during another's await, a
  native question about what changed) take three gestures.
- Files and release: two changes make a mixture and hide it (write, write back into
  the same size; replace the root between two looks).

Deadlock is checked where the system cannot stop: the vault, the schema and the files
are never out of moves. An application that exits, a bounded number of gestures, calls,
keys or builds do stop, so the other configurations do not check it. Symmetry is used
only without liveness properties.

The type invariant of `Vault` is in a run, because the theorems rest on it; the others are in
the supplementary configurations, which ask more of the same models:

| Configuration | Module | Checks | Outcome |
|---|---|---|---|
| `VaultScope` | `MCVault` | half-imported folder of 2 files: refinement, `PreviewedScopeIsCommitted`, `AbortedImportNeverCommits` | holds |
| `VaultCap` | `MCVault` | 3 searches with up to 2 results over 2 audit rows, `ReturnsOnlyAuditedContext` | holds |
| `VaultTwoSources` | `MCVault` | `NoOrphanRows`; a purge of one source leaves the other alone | holds |
| `VaultLiveness` | `MCVault` | `WriterReleases` | holds |
| `SchemaSingleOpener` | `MCSchemaMigration` | `TypeOK`, a lone opener truncates between batches | holds |
| `VaultInvariants` | `VaultInvariants` | the inductive invariants of `Vault`, with a folder of 2 files | holds |
| `SchemaInvariants` | `MCSchemaMigration` | `TypeOK`, `HistoryInvariant`, `UpgradeInvariant` | holds |
| `DesktopTokens` | `DesktopImport` | `TypeOK`, seven more properties of tokens and the open vault, `RunInvariant`, `TokenInvariant` | holds |
| `KeyCustody` | `KeyLifecycle` | `TypeOK`, `KeyCustody`, `CallInvariant`, `FilesInvariant` | holds |
| `ClientUninstall` | `ClientConfig` | `TypeOK`, `CallInvariant`, `HookInvariant`, `UninstallIsTold` | holds |
| `McpCache` | `MCMcpBroker` | `BrokerTypeOK`, `SessionInvariant`, `FramesInvariant` | holds |
| `RendererTypes` | `Renderer` | `TypeOK`, `CallInvariant`, `LockInvariant`, `DialogInvariant`, `ResultInvariant`, `SourcesInv`, `ActivityInv`, `PastInvariant`, `BoundInvariant` | holds |
| `FileTypes` | `FileReads` | `TypeOK`, `StateType`, `ReadInvariant`, `QuietInvariant` | holds |
| `ReleaseOutputs` | `ReleaseBuild` | `OnlyOwnOutputsRemoved` and the six parts of `BuildInvariant` | holds |
| `VaultDocPurge` | `MCVault` | `PurgedDocumentStaysGone` | violated |
| `SchemaBatchRace` | `MCSchemaMigration` | `TruncatesBetweenBatches` | violated |
| `SchemaFalsePause` | `MCSchemaMigration` | `NoPauseAfterUpgrade` | violated |
| `McpPipelined` | `MCMcpBroker` | `FramesInOrder` with a bridge that does not wait | violated |
| `ReleasePublic` | `ReleaseBuild` | `PublicBuildIsVerified` | violated |

Fairness. `FairSpec` of `Vault` is weak fairness of each process's import steps and
of the end of a retrieval: awaited reads settle and an event loop that is free takes
its next turn. Users, clients and the file system owe nothing, and neither does
another process. `FairSpec` of `SchemaMigration` is weak fairness of each opener's
own steps: the function is synchronous, and a wait for the write slot ends with
`busy_timeout`. The older release is not fair, and `OpeningEnds` still holds because
`MaxId` bounds it; with an older release that appends forever, faster than the
trimming, the loop of `schema.ts:90` would not end. `FairSpec` of `DesktopImport` is weak
fairness of the end of each import, which `ImportEnds` of `Vault` justifies, and of
Electron's exit once nothing prevents it. No dialog has to be answered. `FairSpec` of
`ClientConfig` is weak fairness of the hook alone: file operations settle and
Update.exe is killed at its time limit. `BrokerFairSpec` of `McpBroker` is weak fairness of
each stage of the pipe, whose bytes the event loops deliver; the client owes neither a
request nor a disconnection. `FairSpec` of `Renderer` is weak fairness of serving,
delivering and the end of what was started, together, since one of them is always what the page
waits for unless a native dialog is open. `FairSpec` of `ReleaseBuild`, used by
`ReleasePublic` only, runs each command to its end.

## What is proved

Each theorem holds for every value of the constants and every bound, from the
assumptions named in the modules: `VaultDbAssumption`, `VaultAssumption` (a search
returns no more than the log can hold), `SchemaAssumption`, `ImportTokensAssumption` (the
table keeps a used token at least, `directory-import-preflight.ts:8` keeps 64),
`DesktopImportAssumption`, `KeyLifecycleAssumption`, `ClientConfigAssumption`,
`McpBrokerAssumption` (a search returns no more than the cache holds: 50 results, 512
documents of 64 chunks, `server.ts:13-14` and `:70`), `RendererAssumption`, `BoundAssumption`,
`ProfilesAssumption`, `BoundsAssumption`, and the two `NoneAssumption`s, which say only
that "no file" is not a file. Every inductive invariant was first checked as an
invariant of a run of the table above.

**The vault** (`VaultProofs`).

| Theorem | Statement |
|---|---|
| `TypeCorrect`, `AuditInvariantHolds` | `Spec => []TypeOK`, `Spec => []AuditInvariant` |
| `RetrievalFailsClosed` | `Spec => []HandedIsAudited` |
| `SourcesWholeOrAbsent` | `Spec => []NoHalfImportedSource` |
| `LineageAlwaysIntact` | `Spec => []LineageIntact` |
| `ReferencesAlwaysResolve` | `Spec => []NoOrphanRows` |
| `ActivityAlwaysBounded` | `Spec => []ActivityBounded` |
| `PurgesAreConfirmed` | `Spec => PurgeMatchesConfirmation` |
| `VaultImplementsLedger` | `Spec => ImplementsLedger` |
| `AbortsAreRespected` | `Spec => AbortedImportNeverCommits` |
| `PreviewsAreCommitted` | `Spec => PreviewedScopeIsCommitted` |

`HandedIsAudited` alone is not inductive: a commit replaces `db` by `work`, so an
entry written to `db` by somebody else while an import runs would be lost, and an
entry written to `work` by the importer would go with a rollback. `AuditInvariant`
says why neither happens: whoever is in a transaction holds the write slot
(`WriterIsImporting`), a process in the middle of a retrieval is not importing
(`RetrievalExcludesImport`), hence `work` and `db` log the same requests
(`WriterKeepsActivity`); and request numbers grow (`RequestsLogged`), so the newest
request survives the prune of its own transaction (`PruneKeepsNewest`, which rests
on the lemma that a finite set of event rows has a newest one). `NoHalfImportedSource`,
`LineageIntact`, `NoOrphanRows` and `ActivityBounded` are strengthened with the same
fact about `work`, in `VaultInvariants`: what an import commits is as sound as what it
started from. `RowsInvariant` adds that the source row stays from the first file
to the commit, `LogInvariant` that no two audit rows share a request and a rank.

The refinement needs `WorkInvariant`: at every turn of an import, `work` is `db` with
the files applied so far installed at once and the documents purged meanwhile removed,
which have to be told apart by whether the import had reached them (`early`, `late`).
The commit is then `Import` of the ledger, and all other steps of an import map to a
stutter. The lemmas before it say how the statements of an import and of a purge
commute, table by table.

**Opening and upgrading** (`SchemaMigrationProofs`): `NewestHistoryAlwaysKept`,
`OpenedAlwaysCurrent` and `AttributionAlwaysKept`, from `HistoryInvariant` and
`UpgradeInvariant`. Ids are given without gaps, so that the newest `MaxRows` of all rows
ever written are told by counting; a batch removes the oldest of more than `MaxRows`
rows, hence none of those. The counting lemmas come first.

**The desktop's imports** (`DesktopImportProofs`): `OneImportRuns`,
`QuitAlwaysAwaited` and `VaultFollowsImports` from `RunInvariant`; `TokensAlwaysTruthful`,
`ReplaysAreTrue`, `OnePreviewUsable`, `SpentTokensStaySpent` and `TableAlwaysBounded` from
`TokenInvariant`.
Every operation of the token table but three only withdraws previews (`Withdraws`), which
is proved once per operation and then used for every action that calls one. The table
therefore grows only when a preview is issued, while nothing is being confirmed, and that
ends with the pruning: of the used tokens those stay that fewer than `MaxTombstones` newer
ones exceed, and these are at most `MaxTombstones`, since all but the oldest of them exceed
the oldest.

**The key** (`KeyLifecycleProofs`): `KeyCustodyHolds`, `RefusalsAreExplained`,
`DataNeverReplaced`, `CleanupSparesData` and `OpeningImplementsCustody`. `CallInvariant`
says that one call at a time is at work and what each step relies on, whatever other programs do to
the files; `FilesInvariant` what the files look like after any crash as long as no other program touched
them.

**The clients' files** (`ClientProofs`): `SettingsAreKept`, `GrantsOnRequest` and
`AnswersTellTheTruth` from `CallInvariant`, and `UninstallTold` from `HookInvariant` as well.
`CallInvariant` says of each call what it is about to write and what it compared:
a replacement writes what it loaded with the entry replaced, a restoration what it loaded,
and a file about to be replaced is the one last compared unless `late` says otherwise.
`TypeOK` has the flag up exactly while one call holds it. Every step of a call is first
shown to be one of four courses: it stops, goes on, replaces the file or runs the
command.

**The connection of a client** (`ClientProofs`): `LatestAlwaysFetchable` and
`IssuedContextImplemented` from `SessionInvariant`, `FramesAlwaysInOrder` and
`McpBrokerTypes` from `FramesInvariant`, the last two for a client that waits for the ready
line, as the program's bridge does. `SessionInvariant` keeps the cache ordered, within its limits and
within what this session was issued. That the latest results survive the evictions of their
own search is an argument by age: after `n` more results a result has at most `n` documents, and
`n` chunks of its own document, behind it, and a search returns no more than either limit.
The fold over the results is a recursive function, which the proof follows by taking a
least index at which the claim would fail. The refinement maps a search and a fetch to
their namesakes and all work of the pipe to a stutter. `FramesInvariant` reads
the halves on the wire as requests: what is held, buffered, under way and received adds up, in order, to
what was sent and not yet handled.

**The page** (`RendererProofs`): `PageInvariantHolds`, and from it `ScreenAlwaysCurrent`,
`DialogAlwaysUsable`, `PurgesAreAsShown` and `TypeCorrect`. Nothing is said of a page while calls are
under way by the first two properties, so the invariant has to say what each call under way will
bring. Its parts:

- `CallInvariant`: what a call may be, where it may be and how it may be answered.
- `LockInvariant`: of the five functions that take the page's lock at most one is under way, in
  one place among the two queues, the native dialogs, the sample's files and the running
  import; and calls of a page that was reloaded come before those of the page shown.
- `PartInvariant`, for the sources and for the activity: the page shows a part as the vault
  has it, or an answer or a call that will tell it is under way; and an answer that carries an older
  content has another behind it.
- `ResultInvariant`: a result or passage of a removed source is shown only while the answer
  that clears it is under way.
- `DialogInvariant`: the last token issued is the only one that may be pending; while it is, the
  page shows it, will be shown it, or has sent its dismissal; and a page that shows a preview
  has its main process past all the previous page asked (`Behind`).
- `PastInvariant` and `BoundInvariant`, for `TypeCorrect`: what the page and the answers
  carry was once the vault's, and what is under way never exceeds the bounds.

Each action is first given as a course of a call (made, handled, left waiting, delivered,
dropped by a reload) and as a turn of the token table, and the parts are proved against these.

**Reading files** (`FileReadsProofs`): `WholeContentRead`, `PreviewIsCommitted` and
`RefusalsMeanChange`. `ReadInvariant`: the stamps a reader saw first bind
the version it reads block by block, and its last look at the name joins that version
to what the name led to. `QuietInvariant`: while nothing changes, what it has kept is
what there is, so every comparison holds.

**The release** (`ReleaseBuildProofs`): `VerifiedIsAlwaysOneMoment`,
`ShippedIsAlwaysListed`, `ManifestIsAlwaysLast` and `OwnOutputsOnly`, from
`BuildInvariant`: the phases of the build, the chain from the pinned installer
sources through the package to the evidence, what each command has read and compared,
which outputs are its own, and what a lone verification found when it began. Each
step is first given as an effect on the fields it changes (`StepEffect`), and the
invariants are proved against the effects.

What the proofs changed in the models:

- `WholeContent` used to claim of the release's file reader, too, that what it hashed had
  lain below the directory. The bound hid that five changes refute it: the path is led
  outside, the root is replaced, and both looks at the root agree. The code does
  not promise that (`release-bundle.mjs` compares the file, not its directory), and the
  property now says of this reader what the code does: the whole content of the
  regular file at that path.
- `ReleaseBuild`'s invariants, which TLC had found no fault with, were not inductive: the
  SBOM exists from its own step on, the first step of a verification requires a manifest,
  and a verification creates no output. They say so now.
- `ImportTokensAssumption` used to allow a table that keeps no used token. The page's
  dialogue would then hold a token of which the table knows nothing, so the assumption
  now says what the constant of the code gives.

Only model-checked, and why: the liveness properties (`ImportEnds`, `OpeningEnds`,
`QuitHappens`, `HookQuits`, `RequestsAreHandled`, `BusyEnds`), since liveness under fairness
is beyond this prover.

## Findings

With a run each:

1. The Claude Code entry of a packaged Windows release names the broker's pipe instead
   of the vault, and the shape by which an entry is recognised has no place for it
   (`claude-code-config.ts:460`, `:1333`): a removal and an uninstallation refuse
   OhMyContext's own entry, against `apps/desktop/README.md:224-227` and `:240`.
   Run `config_broker_entry`.
2. A cancellation while the sample's files are being put in place aborts nothing
   (`main.ts:654-658`); it is announced as a rollback, and the sample is imported. Run
   `renderer_cancel`.

Shown by a supplementary configuration:

3. `purgeDocument` (`vault.ts:1915`) lacks the import guard that `purgeSource` has. During
   an import by the same process its savepoint nests in the import's transaction:
   it returns `true`, and a rollback of the import brings the document back
   (`VaultDocPurge`).
4. The checkpoint and the next trimming batch are two transactions
   (`schema.ts:98`, `:107`), so two openers can append two batches to one WAL, against
   the comment at `schema.ts:94`. No history is lost (`SchemaBatchRace`).
5. A loser whose checkpoint is blocked reports a paused migration
   (`schema.ts:166`) although a winner has finished it and holds the write slot, against
   `docs/SECURITY_MODEL.md:258` (`SchemaFalsePause`).
6. The broker does not buffer the part of a line that follows a hello in the same chunk. The
   program's own bridge waits for ready and cannot meet this; another client of the pipe
   could (`McpPipelined`).
7. The staged SQLite runtime denies public distribution
   (`encrypted-sqlite-runtime.mjs:160`) and `smoke-packaged.mjs:642` requires it to agree
   with the profile, so no build of the public profile, step 3 of
   `docs/PUBLIC_RELEASE_RUNBOOK.ko.md:81`, gets past its smoke test (`ReleasePublic`).

Seen while modelling, without a property:

- `apps/mcp-server/README.md:40` names `%LOCALAPPDATA%\OhMyContext\vault.sqlite3`;
  `config.ts:68` uses the directory `OwnContext`.
- `docs/RELEASE_COMPLIANCE.md:201` says that the manifest always records
  `publicRelease: false`; `release-bundle.mjs:191` computes it.
- The commit in a manifest is read after the payload was built, and nothing ties the
  payload to it: `VerifiedIsOneMoment` is about the moment of verification.
- A connection in its handshake when the broker is stopped is adopted afterwards.
- On macOS `activate` opens a window without opening the vault again.
- A page that reads the sources during an import, for instance after a reload, shows the
  source being written as incomplete, and keeps showing it when the import is rolled
  back, until the next refresh.
- `beginSourcePurge` of the page sets no activity, so a purge confirmed during a scan
  overwrites the scan's; a refresh that fails after a committed operation is reported as
  that operation's failure; a reload loses the control that cancels an import and
  leaves a preview pending until it expires.

## Not modelled

- Chunking and retrieval windows: functions of one text without state. What the vault
  does with a chunk does not depend on where the text was cut.
- The sample library's publication: its outcome, in place or not, is in `DesktopImport`
  and `Renderer`.
- Storage descriptors, SQLite header checks, the MCP environment and diagnostics:
  validation of an input, without state.
- Of modelled components: the exact-file deletions of the sample's import, listings and
  documents without chunks in the vault; the grouping of legacy rows into requests in
  the upgrade; statements and WAL inspection of an open encrypted connection; previews
  of a configuration change, which only read; what MCP clients retrieve while the page
  shows the activity, which no event announces to it; the page's texts, notices and connection
  view; the formats of the release's files, the preflight and the clean-machine evidence.
- Smoke drivers: they run the packaged application once, in order.
