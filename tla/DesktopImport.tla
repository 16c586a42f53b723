----------------------------- MODULE DesktopImport -----------------------------
(***************************************************************************)
(* The main process of the desktop application (electron/main.ts) around   *)
(* its imports: the folder picker, the scan of a preview, the confirmation *)
(* of its token, the sample library, cancelling, closing the window and    *)
(* quitting.  A step is a turn of the event loop: an IPC handler up to its *)
(* first await, or a continuation with the `finally` block after it.       *)
(*                                                                         *)
(* What an import does to the vault is module Vault: here it ends in one   *)
(* of its outcomes, never a commit once its signal has fired.  One desktop *)
(* runs at a time (requestSingleInstanceLock), with at most one window.    *)
(***************************************************************************)
EXTENDS ImportTokens

CONSTANTS
  MaxTokens,    \* bound: previews issued
  MaxWindows,   \* bound: windows opened
  MaxSamples    \* bound: sample imports waiting for their files

ASSUME DesktopImportAssumption ==
  /\ MaxTokens \in Nat /\ MaxSamples \in Nat /\ MaxWindows \in Nat \ {0}

VARIABLES
  darwin,     \* process.platform: the application outlives its window
  app,        \* "running"; "quitting": before-quit has let it pass; "exited"
  window,     \* the live, trusted window; 0 when there is none
  opened,     \* windows opened so far
  vaultOpen,  \* vault # undefined
  tokens,     \* directoryImportTokens
  issued,     \* tokens issued so far
  due,        \* tokens 1 .. due are past their time
  picker,     \* window whose handler awaits the folder picker: folderSelectionActive
  samples,    \* handlers that await materializeSampleLibrary
  active,     \* slot of activeImport; 0 for undefined
  run,        \* the asynchronous functions between their start and their finally
  quitAfter,  \* quitAfterImport
  commits,    \* history: imports committed for each token
  told,       \* history: tokens whose confirmation was answered "imported", replayed
  asked       \* history: the user asked the application to end

tokenVars == <<tokens, issued, due>>
uiVars == <<darwin, app, window, opened, asked>>
vars == <<uiVars, vaultOpen, tokenVars, picker, samples, active, run, quitAfter,
          commits, told>>

Slots == 1 .. 2   \* one more than ever runs
Tokens == 1 .. MaxTokens
Idle == [kind |-> "none", window |-> 0, token |-> 0, aborted |-> FALSE]
Busy == {s \in Slots : run[s] # Idle}

Init ==
  /\ darwin \in BOOLEAN
  /\ app = "running" /\ window = 1 /\ opened = 1 /\ asked = FALSE
  /\ vaultOpen = TRUE
  /\ tokens = <<>> /\ issued = 0 /\ due = 0
  /\ picker = 0 /\ samples = 0
  /\ active = 0 /\ run = [s \in Slots |-> Idle] /\ quitAfter = FALSE
  /\ commits = [k \in Tokens |-> 0] /\ told = {}

-----------------------------------------------------------------------------

(* A call of the window, which is the only trusted sender. *)
Called == app # "exited" /\ window # 0

NeverBusy == TRUE   \* mutant: the guard is left out
NotBusy == active = 0 /\ picker = 0
NeverImporting == TRUE   \* mutant: activeImport is not looked at again after the await
NotImporting == active = 0

(* activeImport = controller *)
Start(kind, w, k) ==
  LET s == CHOOSE i \in Slots : run[i] = Idle IN
  /\ Busy # Slots
  /\ run' = [run EXCEPT ![s] =
       [kind |-> kind, window |-> w, token |-> k, aborted |-> FALSE]]
  /\ active' = s

NotStarted == UNCHANGED <<run, active>>
Abort == IF active = 0 THEN run ELSE [run EXCEPT ![active].aborted = TRUE]

(* The before-quit handlers, run on the tokens `t`. *)
QuitUnaborted(t) ==   \* mutant: the running import is not aborted
  /\ tokens' = AbortAll(t, due)
  /\ quitAfter' = (active # 0)
  /\ UNCHANGED run
  /\ app' = IF active # 0 THEN app ELSE "quitting"

BeforeQuit(t) ==
  /\ tokens' = AbortAll(t, due)
  /\ quitAfter' = (quitAfter \/ active # 0)
  /\ run' = Abort
  /\ app' = IF active # 0 THEN app ELSE "quitting"

(* The end of an import: activeImport = undefined, then                    *)
(* finishDeferredQuitOrClose, whose app.quit finds no import running.      *)
QuitForgotten(s, t) ==   \* mutant: the vault is closed, but not the application
  /\ run' = [run EXCEPT ![s] = Idle] /\ active' = 0
  /\ quitAfter' = FALSE /\ vaultOpen' = (vaultOpen /\ ~quitAfter /\ window # 0)
  /\ tokens' = t /\ UNCHANGED app

KeptOpen(s, t) ==   \* mutant: the vault is closed for a deferred quit only
  /\ run' = [run EXCEPT ![s] = Idle] /\ active' = 0
  /\ quitAfter' = FALSE
  /\ vaultOpen' = (vaultOpen /\ ~quitAfter)
  /\ tokens' = IF quitAfter THEN AbortAll(t, due) ELSE t
  /\ app' = IF quitAfter THEN "quitting" ELSE app

Finally(s, t) ==
  /\ run' = [run EXCEPT ![s] = Idle] /\ active' = 0
  /\ quitAfter' = FALSE
  /\ vaultOpen' = (vaultOpen /\ ~quitAfter /\ window # 0)
  /\ tokens' = IF quitAfter THEN AbortAll(t, due) ELSE t
  /\ app' = IF quitAfter THEN "quitting" ELSE app

-----------------------------------------------------------------------------
(* Preparing an import *)

PrepareDirectoryImport ==
  /\ Called /\ NotBusy
  /\ tokens' = AbortPendingForSender(tokens, window, due)
  /\ picker' = window
  /\ UNCHANGED <<uiVars, vaultOpen, issued, due, samples, active, run, quitAfter,
                 commits, told>>

(* The picker is cancelled, or an import has started meanwhile, or the scan *)
(* of the selected folder starts.                                           *)
AnswerPicker ==
  /\ app # "exited" /\ picker # 0
  /\ picker' = 0
  /\ NotStarted \/ (NotImporting /\ Start("scan", picker, 0))
  /\ UNCHANGED <<uiVars, vaultOpen, tokenVars, samples, quitAfter, commits, told>>

(* A token is issued unless the scan was aborted, failed, or its window is  *)
(* gone.                                                                    *)
SettleScan(s) ==
  /\ app # "exited" /\ run[s].kind = "scan"
  /\ \/ UNCHANGED issued /\ Finally(s, tokens)
     \/ /\ ~run[s].aborted /\ window = run[s].window /\ issued < MaxTokens
        /\ issued' = issued + 1
        /\ \E importable \in BOOLEAN :
             Finally(s, Issue(tokens, issued + 1, run[s].window, importable, due))
  /\ UNCHANGED <<darwin, window, opened, asked, due, picker, samples, commits, told>>

TokenDue ==
  /\ app # "exited" /\ due < issued /\ due' = due + 1
  /\ UNCHANGED <<uiVars, vaultOpen, tokens, issued, picker, samples, active, run,
                 quitAfter, commits, told>>

ExpiryTimer ==
  /\ app # "exited"
  /\ \E k \in 1 .. due : tokens' = ExpireIfDue(tokens, k, due)
  /\ UNCHANGED <<uiVars, vaultOpen, issued, due, picker, samples, active, run,
                 quitAfter, commits, told>>

-----------------------------------------------------------------------------
(* Committing an import *)

(* A vault that has been closed makes the commit fail at once. *)
ConfirmDirectoryImport(k) ==
  LET e == TakeForConfirmation(tokens, k, due)
      ready == k \in Pending(tokens) /\ e[k].state = "confirming"
  IN
  /\ Called /\ NotBusy /\ EntryForSender(tokens, k, window)
  /\ \/ ~ready /\ tokens' = e /\ NotStarted
     \/ ready /\ e[k].importable /\ vaultOpen
        /\ tokens' = e /\ Start("commit", window, k)
     \/ ready /\ ~(e[k].importable /\ vaultOpen)
        /\ tokens' = SetTerminalState(e, k, "aborted") /\ NotStarted
  /\ told' = IF tokens[k].state \in {"confirming", "imported"} THEN told \cup {k} ELSE told
  /\ UNCHANGED <<uiVars, vaultOpen, issued, due, picker, samples, quitAfter, commits>>

CancelDirectoryImport(k) ==
  /\ Called /\ EntryForSender(tokens, k, window)
  /\ tokens' = Cancel(tokens, k, due)
  /\ UNCHANGED <<uiVars, vaultOpen, issued, due, picker, samples, active, run,
                 quitAfter, commits, told>>

(* The three ends of commitPreparedFolderImport. *)
Committed(s) == ~run[s].aborted
MarkedImported(s, o) == "imported"   \* mutant: markImported before the outcome is known
Mark(s, o) == o
SettleCommit(s) ==
  /\ app # "exited" /\ run[s].kind = "commit"
  /\ \E o \in {"imported", "stale-scan", "aborted"} :
       /\ o = "imported" => Committed(s)
       /\ commits' = IF o = "imported" THEN [commits EXCEPT ![run[s].token] = @ + 1]
                     ELSE commits
       /\ Finally(s, SetTerminalState(tokens, run[s].token, Mark(s, o)))
  /\ UNCHANGED <<darwin, window, opened, asked, issued, due, picker, samples, told>>

ImportSampleLibrary ==
  /\ Called /\ NotBusy /\ samples < MaxSamples
  /\ tokens' = AbortPendingForSender(tokens, window, due)
  /\ samples' = samples + 1
  /\ UNCHANGED <<uiVars, vaultOpen, issued, due, picker, active, run, quitAfter,
                 commits, told>>

(* runSampleVaultImport looks at activeImport again; without a vault, or    *)
(* without the sample's files, nothing starts.                              *)
SampleReady ==
  /\ app # "exited" /\ samples > 0
  /\ samples' = samples - 1
  /\ NotStarted \/ (NotImporting /\ vaultOpen /\ Start("sample", window, 0))
  /\ UNCHANGED <<uiVars, vaultOpen, tokenVars, picker, quitAfter, commits, told>>

SettleSample(s) ==
  /\ app # "exited" /\ run[s].kind = "sample" /\ Finally(s, tokens)
  /\ UNCHANGED <<darwin, window, opened, asked, issued, due, picker, samples, commits, told>>

Settle(s) == SettleScan(s) \/ SettleCommit(s) \/ SettleSample(s)

CancelImport ==
  /\ Called /\ active # 0 /\ run' = Abort
  /\ UNCHANGED <<uiVars, vaultOpen, tokenVars, picker, samples, active, quitAfter,
                 commits, told>>

-----------------------------------------------------------------------------
(* Windows and the end of the application *)

VaultLost == FALSE   \* mutant: closeVault() without looking at activeImport
VaultAfterClose == vaultOpen /\ active # 0

(* "closed", then "window-all-closed", which quits except on macOS. *)
CloseWindow ==
  LET t == AbortAll(AbortPendingForSender(tokens, window, due), due) IN
  /\ app = "running" /\ window # 0
  /\ window' = 0 /\ vaultOpen' = VaultAfterClose
  /\ IF darwin
     THEN tokens' = t /\ run' = Abort /\ UNCHANGED <<app, quitAfter, asked>>
     ELSE BeforeQuit(t) /\ asked' = TRUE
  /\ UNCHANGED <<darwin, opened, issued, due, picker, samples, active, commits, told>>

ActivateUncounted ==   \* mutant: the new window is not recorded
  /\ darwin /\ app = "running" /\ window = 0 /\ opened < MaxWindows
  /\ window' = opened + 1
  /\ UNCHANGED <<darwin, app, opened, asked, vaultOpen, tokenVars, picker, samples,
                 active, run, quitAfter, commits, told>>

(* The vault is not opened again. *)
Activate ==
  /\ darwin /\ app = "running" /\ window = 0 /\ opened < MaxWindows
  /\ window' = opened + 1 /\ opened' = opened + 1
  /\ UNCHANGED <<darwin, app, asked, vaultOpen, tokenVars, picker, samples, active, run,
                 quitAfter, commits, told>>

Quit ==
  /\ app = "running" /\ BeforeQuit(tokens) /\ asked' = TRUE
  /\ UNCHANGED <<darwin, window, opened, vaultOpen, issued, due, picker, samples, active,
                 commits, told>>

(* Electron closes the windows and ends the process; until then calls of    *)
(* the window are still served.                                             *)
Exit ==
  /\ app = "quitting"
  /\ app' = "exited" /\ window' = 0 /\ vaultOpen' = FALSE
  /\ tokens' = <<>> /\ picker' = 0 /\ samples' = 0
  /\ active' = 0 /\ run' = [s \in Slots |-> Idle] /\ quitAfter' = FALSE
  /\ UNCHANGED <<darwin, opened, asked, issued, due, commits, told>>

-----------------------------------------------------------------------------

Next ==
  \/ PrepareDirectoryImport \/ AnswerPicker \/ TokenDue \/ ExpiryTimer
  \/ \E k \in Tokens : ConfirmDirectoryImport(k) \/ CancelDirectoryImport(k)
  \/ ImportSampleLibrary \/ SampleReady \/ CancelImport
  \/ \E s \in Slots : Settle(s)
  \/ CloseWindow \/ Activate \/ Quit \/ Exit

Spec == Init /\ [][Next]_vars

(* Imports settle (ImportEnds of module Vault, for each slot) and Electron  *)
(* ends a process that nothing prevents from quitting.  Users owe nothing.  *)
FairSpec == Spec /\ WF_vars(Exit) /\ \A s \in Slots : WF_vars(Settle(s))

-----------------------------------------------------------------------------
(* Properties *)

TypeOK ==
  /\ darwin \in BOOLEAN
  /\ app \in {"running", "quitting", "exited"}
  /\ opened \in 1 .. MaxWindows /\ window \in 0 .. opened
  /\ vaultOpen \in BOOLEAN /\ quitAfter \in BOOLEAN /\ asked \in BOOLEAN
  /\ issued \in 0 .. MaxTokens /\ due \in 0 .. issued
  /\ DOMAIN tokens \subseteq 1 .. issued
  /\ tokens \in [DOMAIN tokens ->
                  [state : States, sender : 1 .. opened, importable : BOOLEAN]]
  /\ picker \in 0 .. opened /\ samples \in 0 .. MaxSamples
  /\ active \in {0} \cup Slots
  /\ run \in [Slots -> [kind : {"none", "scan", "commit", "sample"},
                        window : 0 .. MaxWindows, token : 0 .. MaxTokens,
                        aborted : BOOLEAN]]
  /\ commits \in [Tokens -> Nat] /\ told \subseteq Tokens

(* At most one scan or import runs, although handlers test activeImport     *)
(* before a dialog or a copy they await, and activeImport always names the  *)
(* one that cancelling and quitting have to abort.                          *)
OneImportAtATime == Busy = IF active = 0 THEN {} ELSE {active}

(* The vault is never closed under an import that writes to it.             *)
VaultOpenWhileImporting ==
  \A s \in Slots : run[s].kind \in {"commit", "sample"} => vaultOpen

(* Without a window the vault stays open only as long as an import runs.    *)
VaultNotLeftOpen == vaultOpen => window # 0 \/ active # 0

(* A deferred quit waits for an import that is running and was aborted.     *)
QuitIsAwaited == quitAfter => active # 0 /\ run[active].aborted

(* Closing a window or preparing anew leaves no earlier preview confirmable:*)
(* at most one token can still be used, by the live window.                 *)
OneUsablePreview ==
  /\ \A k \in Pending(tokens) : tokens[k].sender = window
  /\ Cardinality(InState(tokens, {"pending", "confirming"})) <= 1

(* A token is being confirmed exactly while its import runs.                *)
ConfirmingIsRunning ==
  InState(tokens, {"confirming"}) =
    {run[s].token : s \in {i \in Slots : run[i].kind = "commit"}}

(* Every confirmation imports at most once, and only of a preview that had  *)
(* something to import; the table says what became of it.                   *)
TokensTellTheTruth ==
  /\ \A k \in Tokens : commits[k] <= 1
  /\ \A k \in DOMAIN tokens :
       /\ tokens[k].state = "imported" <=> commits[k] = 1
       /\ commits[k] = 1 => tokens[k].importable

(* The window is told "imported" of a replayed confirmation only when the   *)
(* import has in fact been committed.                                       *)
ReplayMeansImported == \A k \in told : commits[k] = 1

(* The table stays bounded although most of its operations do not prune.    *)
TableBounded == Cardinality(DOMAIN tokens) <= MaxTombstones + 1

(* A token that was used, dropped, expired or forgotten never comes back.   *)
SpentStaysSpent ==
  [][\A k \in 1 .. issued :
       /\ k \notin DOMAIN tokens => k \notin DOMAIN tokens'
       /\ k \in Tombstones(tokens) \cap DOMAIN tokens' => tokens'[k] = tokens[k]]_vars

(* Quitting, deferred by an import or not, happens.                         *)
QuitHappens == asked ~> app = "exited"

-----------------------------------------------------------------------------
(* Why they hold: the inductive invariants, for DesktopImportProofs *)

(* A slot that runs nothing holds nothing, and the rest is about the one    *)
(* import that runs.                                                        *)
RunInvariant ==
  /\ OneImportAtATime
  /\ \A s \in Slots : run[s].kind = "none" => run[s] = Idle
  /\ \A s \in Slots : run[s].kind = "scan" => run[s].window # 0
  /\ QuitIsAwaited /\ VaultOpenWhileImporting /\ VaultNotLeftOpen

(* An import that commits holds its token, which nobody else can use.       *)
CommitHoldsToken ==
  \A s \in Slots : run[s].kind = "commit" =>
    /\ run[s].token \in InState(tokens, {"confirming"})
    /\ tokens[run[s].token].importable

(* No two tokens are usable, and what is not issued yet is not imported.    *)
TokenInvariant ==
  /\ CommitHoldsToken /\ ConfirmingIsRunning
  /\ \A k \in Pending(tokens) : tokens[k].sender = window
  /\ \A j, k \in InState(tokens, {"pending", "confirming"}) : j = k
  /\ TokensTellTheTruth /\ ReplayMeansImported
  /\ \A k \in Tokens : k > issued => commits[k] = 0
=============================================================================
