------------------------------- MODULE Renderer -------------------------------
(***************************************************************************)
(* The page of the desktop's window (renderer/App.tsx) and the handlers of *)
(* the main process it calls (electron/main.ts).  A gesture sets the       *)
(* page's state and sends a call; the calls of a page reach the main       *)
(* process in order, and the answers come back in order.  Imports and      *)
(* native dialogs take their time: their calls are answered when they end. *)
(*                                                                         *)
(* A gesture's number names the asynchronous function it has started.      *)
(* Answers to a page that was reloaded are dropped.  A vault content is a  *)
(* version of each source, 0 when it is absent; the retrieval log is a set *)
(* of entries of a gesture and a source, or none when a search found       *)
(* nothing.  Notices, counts, the receipts and the connection view are     *)
(* left out; the reads of one Promise.all are one call.  Retrievals by MCP *)
(* clients, which write the log without telling the page, are outside.     *)
(***************************************************************************)
EXTENDS ImportTokens, Sequences

CONSTANTS
  MaxGestures,   \* bound: gestures and reloads
  MaxReloads,    \* bound: reloads among them
  MaxTokens,     \* bound: previews issued
  MaxFails       \* bound: calls and reads that fail

ASSUME RendererAssumption ==
  {MaxGestures, MaxReloads, MaxTokens, MaxFails} \subseteq Nat

VARIABLES
  ui,         \* the state of the page
  gestures,   \* gestures so far
  since,      \* the gesture that loaded the page
  reloads,
  inbox,      \* calls on their way to the main process
  outbox,     \* answers on their way to the page
  ver, clock, \* the vault's sources; versions so far
  log,        \* retrieval_events
  tokens, issued, due,   \* directoryImportTokens
  native,     \* calls that await a native dialog
  samples,    \* calls that await materializeSampleLibrary
  work,       \* the call whose scan or import holds activeImport, and whether its
              \* transaction is open
  fails,      \* failures so far
  canceled,   \* history: calls whose import was under way when a cancel was served
  missed      \* history: what the page could not learn: a read failed, an answer
              \* came after a reload

pageVars == <<ui, gestures, since, reloads>>
tokenVars == <<tokens, issued, due>>
vaultVars == <<ver, clock, log>>
workVars == <<native, samples, work, canceled>>
vars == <<pageVars, inbox, outbox, vaultVars, tokenVars, workVars, fails, missed>>

Sources == {"folder", "sample"}
Nowhere == <<"none", 0>>
NoVersions == [s \in Sources |-> 0]
Present == {s \in Sources : ver[s] # 0}
Window == 1   \* event.sender.id, which a reload keeps

NoCall == [id |-> 0, by |-> "none", call |-> "none", arg |-> Nowhere]
NoWork == [q |-> NoCall, aborted |-> FALSE, open |-> FALSE]
Answer(q, status) ==
  [of |-> q, status |-> status, got |-> {}, ver |-> NoVersions, log |-> {}, token |-> 0,
   can |-> FALSE, draft |-> FALSE]   \* history: its sources are of an open import

Page == [view |-> "library", lock |-> FALSE, busy |-> FALSE, activity |-> "none",
         preview |-> 0, can |-> FALSE, results |-> {}, drawer |-> "none",
         overlay |-> Nowhere, shown |-> NoVersions, history |-> {}, historyBusy |-> FALSE]

Call(id, by, call, arg) == [id |-> id, by |-> by, call |-> call, arg |-> arg]
Loading(id) == Call(id, "load", "refresh", <<"both", 0>>)

(* The page has been loaded, as after a Reload. *)
Init ==
  /\ ver \in {NoVersions, [NoVersions EXCEPT !["folder"] = 1]}
  /\ ui = [Page EXCEPT !.shown = ver] /\ gestures = 0 /\ since = 0 /\ reloads = 0
  /\ inbox = <<>> /\ outbox = <<>>
  /\ clock = 1 /\ log = {}
  /\ tokens = <<>> /\ issued = 0 /\ due = 0
  /\ native = {} /\ samples = {} /\ work = NoWork /\ canceled = {}
  /\ fails = 0 /\ missed = {}

-----------------------------------------------------------------------------
(* Gestures *)

(* The preview is a modal <dialog> of the library view; a native dialog is  *)
(* modal to the window.                                                     *)
Modal == ui.view = "library" /\ ui.preview # 0
InView(v) == native = {} /\ gestures < MaxGestures /\ ~Modal /\ ui.view = v
InDialog == native = {} /\ gestures < MaxGestures /\ Modal
Idle == ui.activity = "none"

Gesture(u) ==
  /\ gestures' = gestures + 1 /\ ui' = u
  /\ UNCHANGED <<since, reloads, outbox, vaultVars, tokenVars, workVars, fails, missed>>
Send(by, call, arg) == inbox' = Append(inbox, Call(gestures + 1, by, call, arg))

AddFolder ==
  /\ InView("library") /\ Idle /\ ~ui.lock
  /\ Gesture([ui EXCEPT !.lock = TRUE, !.preview = 0, !.activity = "preflight"])
  /\ Send("add", "prepare", Nowhere)

(* Offered while there is nothing to search, see deriveLibraryOnboarding.   *)
ImportSample ==
  /\ InView("library") /\ Idle /\ ~ui.lock /\ ui.results = {} /\ ui.shown = NoVersions
  /\ Gesture([ui EXCEPT !.lock = TRUE, !.preview = 0, !.activity = "import"])
  /\ Send("sample", "sample", Nowhere)

ConfirmImport ==
  /\ InDialog /\ ~ui.busy /\ Idle /\ ui.can /\ ~ui.lock
  /\ Gesture([ui EXCEPT !.lock = TRUE, !.busy = TRUE, !.activity = "import"])
  /\ Send("confirm", "confirm", <<"token", ui.preview>>)

CancelPreviewUnsaid ==   \* mutant: the dialog is closed, and the token is kept
  /\ InDialog /\ ~ui.busy /\ ui.activity # "import" /\ ~ui.lock
  /\ Gesture([ui EXCEPT !.preview = 0]) /\ UNCHANGED inbox
CancelPreview ==
  /\ InDialog /\ ~ui.busy /\ ui.activity # "import" /\ ~ui.lock
  /\ Gesture([ui EXCEPT !.lock = TRUE, !.busy = TRUE, !.preview = 0])
  /\ Send("dismiss", "dismiss", <<"token", ui.preview>>)

ChooseAnother ==
  /\ InDialog /\ ~ui.busy /\ Idle /\ ~ui.lock
  /\ Gesture([ui EXCEPT !.lock = TRUE, !.busy = TRUE, !.preview = 0])
  /\ Send("another", "dismiss", <<"token", ui.preview>>)

(* In the header, or in the dialog of the preview being imported. *)
CancelImport ==
  /\ \/ InView("library") /\ ui.activity \in {"preflight", "import"}
     \/ InDialog /\ ui.activity = "import"
  /\ Gesture(ui) /\ Send("cancel", "cancel", Nowhere)

Search ==
  /\ InView("library") /\ Idle
  /\ Gesture([ui EXCEPT !.activity = "search", !.drawer = "none"])
  /\ Send("search", "search", Nowhere)

ViewContext(s) ==
  /\ InView("library") /\ s \in ui.results
  /\ Gesture(ui) /\ Send("fetch", "fetch", <<s, 0>>)

RemoveSource(s) ==
  /\ InView("library") /\ Idle /\ ui.shown[s] # 0
  /\ Gesture(ui) /\ Send("begin", "preparePurge", <<s, 0>>)

KeepSource ==
  /\ InView("library") /\ ui.overlay # Nowhere /\ ui.activity # "purge"
  /\ Gesture([ui EXCEPT !.overlay = Nowhere]) /\ UNCHANGED inbox

ConfirmPurge ==
  /\ InView("library") /\ ui.overlay # Nowhere /\ ui.activity # "purge"
  /\ Gesture([ui EXCEPT !.activity = "purge"])
  /\ Send("purge", "purge", ui.overlay)

ClearHistory ==
  /\ InView("history") /\ ~ui.historyBusy /\ ui.history # {}
  /\ Gesture([ui EXCEPT !.historyBusy = TRUE]) /\ Send("clear", "clear", Nowhere)

RefreshHistory ==
  /\ InView("history") /\ ~ui.historyBusy
  /\ Gesture([ui EXCEPT !.historyBusy = TRUE])
  /\ Send("history", "refresh", <<"activity", 0>>)

Navigate ==
  \/ /\ InView("history") /\ Gesture([ui EXCEPT !.view = "library"]) /\ UNCHANGED inbox
  \/ /\ InView("library") /\ Gesture([ui EXCEPT !.view = "history"])
     /\ Send("view", "refresh", <<"activity", 0>>)

Forgotten(u) == IF u.preview # 0 THEN {"preview"} ELSE {}

(* View > Reload: a page in its first state, that reads everything anew.    *)
Reload ==
  /\ native = {} /\ gestures < MaxGestures /\ reloads < MaxReloads
  /\ reloads' = reloads + 1 /\ gestures' = gestures + 1 /\ since' = gestures + 1
  /\ ui' = Page /\ inbox' = Append(inbox, Loading(gestures + 1))
  /\ missed' = missed \cup {"sources", "activity"} \cup Forgotten(ui)
  /\ UNCHANGED <<outbox, vaultVars, tokenVars, workVars, fails>>

-----------------------------------------------------------------------------
(* The handlers of the main process *)

Picking == \E q \in native : q.call = "prepare"
NotBusy == work = NoWork /\ ~Picking
Importing == work.open   \* importingSources of the vault: its transaction is open

Reply(r) == outbox' = Append(outbox, r)
SameVault == UNCHANGED vaultVars
SameTokens == UNCHANGED tokenVars
SameWork == UNCHANGED workVars
Fail == fails < MaxFails /\ fails' = fails + 1
Sound == UNCHANGED fails

HandlePrepare(q) ==
  /\ SameVault /\ Sound /\ UNCHANGED <<issued, due, samples, work, canceled>>
  /\ \/ ~NotBusy /\ Reply(Answer(q, "busy")) /\ UNCHANGED <<tokens, native>>
     \/ /\ NotBusy /\ native' = native \cup {q} /\ UNCHANGED outbox
        /\ tokens' = AbortPendingForSender(tokens, Window, due)

Confirmed(t, k) ==   \* the status of takeForConfirmation 
  IF ~EntryForSender(t, k, Window) THEN "invalid"
  ELSE IF t[k].state \in {"confirming", "imported"} THEN "replayed" ELSE t[k].state

HandleConfirm(q) ==
  LET k == q.arg[2]
      t == TakeForConfirmation(tokens, k, due)
      ready == k \in Pending(tokens) /\ t[k].state = "confirming"
  IN
  /\ Sound /\ UNCHANGED <<ver, log, issued, due, native, samples, canceled>>
  /\ \/ ~NotBusy /\ Reply(Answer(q, "busy")) /\ UNCHANGED <<tokens, work, clock>>
     \/ NotBusy /\ ~ready /\ tokens' = t /\ UNCHANGED <<work, clock>>
        /\ Reply(Answer(q, Confirmed(t, k)))
     \/ NotBusy /\ ready /\ tokens' = t /\ clock' = clock + 1 /\ UNCHANGED outbox
        /\ work' = [q |-> q, aborted |-> FALSE, open |-> TRUE]

HandleDismiss(q) ==
  /\ tokens' = Cancel(tokens, q.arg[2], due) /\ Reply(Answer(q, "canceled"))
  /\ SameVault /\ Sound /\ SameWork /\ UNCHANGED <<issued, due>>

HandleSample(q) ==
  /\ SameVault /\ Sound /\ UNCHANGED <<issued, due, native, work, canceled>>
  /\ \/ ~NotBusy /\ Reply(Answer(q, "thrown")) /\ UNCHANGED <<tokens, samples>>
     \/ NotBusy /\ samples' = samples \cup {q} /\ UNCHANGED outbox
        /\ tokens' = AbortPendingForSender(tokens, Window, due)

HandleCancel(q) ==
  /\ work' = [work EXCEPT !.aborted = work # NoWork]
  /\ canceled' = canceled \cup {p \in samples \cup {work.q} : p # NoCall}
  /\ Reply(Answer(q, "requested"))
  /\ SameVault /\ SameTokens /\ Sound /\ UNCHANGED <<native, samples>>

(* The audit row of a search that found nothing names no document; without  *)
(* an audit row, as while an import is open, nothing is disclosed.          *)
Entries(q, found) == {q.id} \X IF found = {} /\ q.call = "search" THEN {"none"} ELSE found
Retrieve(q, found) ==
  /\ log' = log \cup Entries(q, found) /\ Reply([Answer(q, "ok") EXCEPT !.got = found])
Withheld(q) ==
  /\ \/ Importing /\ Sound
     \/ ~Importing /\ Fail
  /\ Reply(Answer(q, "thrown")) /\ UNCHANGED log

HandleSearch(q) ==
  /\ \/ Withheld(q)
     \/ ~Importing /\ Sound /\ \E found \in SUBSET Present : Retrieve(q, found)
  /\ SameTokens /\ SameWork /\ UNCHANGED <<ver, clock>>

HandleFetch(q) ==
  /\ \/ Withheld(q)
     \/ ~Importing /\ Sound /\ Retrieve(q, {q.arg[1]} \cap Present)
  /\ SameTokens /\ SameWork /\ UNCHANGED <<ver, clock>>

PartsOfOne(q) == {q.arg[1]}   \* mutant: one read is taken for two
Parts(q) == IF q.arg[1] = "both" THEN {"sources", "activity"} ELSE {q.arg[1]}

(* The list of sources is read by the importing connection, which shows the *)
(* source being written in the version of its open transaction.             *)
Target == IF work.q.call = "confirm" THEN "folder" ELSE "sample"
Listing(v, draft) == [ver |-> v, draft |-> draft]
Listings == {Listing(ver, FALSE)} \cup
  IF Importing THEN {Listing([ver EXCEPT ![Target] = clock], TRUE)} ELSE {}

(* Of the reads of a Promise.all some may fail, and then it rejects.        *)
HandleRefresh(q) ==
  /\ \E got \in SUBSET Parts(q), listed \in Listings :
       /\ IF got = Parts(q) THEN Sound ELSE Fail
       /\ Reply([Answer(q, IF got = Parts(q) THEN "ok" ELSE "thrown") EXCEPT
                  !.got = got, !.ver = listed.ver, !.draft = listed.draft, !.log = log])
  /\ SameVault /\ SameTokens /\ SameWork

HandlePreparePurge(q) ==
  /\ \/ Importing /\ Reply(Answer(q, "import-in-progress"))
     \/ ~Importing /\ q.arg[1] \notin Present /\ Reply(Answer(q, "not-found"))
     \/ ~Importing /\ q.arg[1] \in Present
        /\ Reply([Answer(q, "ready") EXCEPT !.ver = ver])
  /\ SameVault /\ SameTokens /\ SameWork /\ Sound

(* The confirmation is of the preview that was shown. *)
AsAnyShown(q) == q.arg[1] \in Present   \* mutant: the token is not compared
AsShown(q) == q.arg[1] \in Present /\ ver[q.arg[1]] = q.arg[2]
PurgeStatus(q) ==
  CASE Importing -> "import-in-progress"
    [] q.arg[1] \notin Present -> "not-found"
    [] OTHER -> IF AsShown(q) THEN "ready" ELSE "stale-confirmation"

HandlePurge(q) ==
  /\ \/ PurgeStatus(q) # "ready" /\ Reply(Answer(q, PurgeStatus(q))) /\ UNCHANGED native
     \/ PurgeStatus(q) = "ready" /\ native' = native \cup {q} /\ UNCHANGED outbox
  /\ SameVault /\ SameTokens /\ Sound /\ UNCHANGED <<samples, work, canceled>>

HandleClear(q) ==
  /\ native' = native \cup {q}
  /\ SameVault /\ SameTokens /\ Sound /\ UNCHANGED <<outbox, samples, work, canceled>>

Serve ==
  LET q == Head(inbox) IN
  /\ inbox # <<>> /\ inbox' = Tail(inbox)
  /\ \/ q.call = "prepare" /\ HandlePrepare(q)
     \/ q.call = "confirm" /\ HandleConfirm(q)
     \/ q.call = "dismiss" /\ HandleDismiss(q)
     \/ q.call = "sample" /\ HandleSample(q)
     \/ q.call = "cancel" /\ HandleCancel(q)
     \/ q.call = "search" /\ HandleSearch(q)
     \/ q.call = "fetch" /\ HandleFetch(q)
     \/ q.call = "refresh" /\ HandleRefresh(q)
     \/ q.call = "preparePurge" /\ HandlePreparePurge(q)
     \/ q.call = "purge" /\ HandlePurge(q)
     \/ q.call = "clear" /\ HandleClear(q)
  /\ UNCHANGED <<pageVars, missed>>

(* Native dialogs are answered by the user. *)
AnswerPicker(q) ==
  /\ q.call = "prepare"
  /\ \/ Reply(Answer(q, "canceled")) /\ UNCHANGED work
     \/ work # NoWork /\ Reply(Answer(q, "busy")) /\ UNCHANGED work
     \/ work = NoWork /\ work' = [NoWork EXCEPT !.q = q] /\ UNCHANGED outbox
  /\ SameVault /\ Sound

AnswerPurge(q) ==
  /\ q.call = "purge"
  /\ \/ Reply(Answer(q, "canceled")) /\ SameVault /\ Sound
     \/ Fail /\ Reply(Answer(q, "thrown")) /\ SameVault
     \/ /\ Sound
        /\ IF PurgeStatus(q) = "ready"
           THEN /\ ver' = [ver EXCEPT ![q.arg[1]] = 0]
                /\ log' = {e \in log : e[2] # q.arg[1]}
                /\ UNCHANGED clock /\ Reply(Answer(q, "purged"))
           ELSE SameVault /\ Reply(Answer(q, PurgeStatus(q)))
  /\ UNCHANGED work

AnswerClear(q) ==
  /\ q.call = "clear"
  /\ \/ Reply(Answer(q, "canceled")) /\ SameVault /\ Sound
     \/ ((Importing /\ Sound) \/ (~Importing /\ Fail)) /\ Reply(Answer(q, "thrown")) /\ SameVault
     \/ ~Importing /\ Sound /\ log' = {} /\ UNCHANGED <<ver, clock>>
        /\ Reply(Answer(q, "cleared"))
  /\ UNCHANGED work

AnswerNative ==
  /\ \E q \in native :
       /\ native' = native \ {q}
       /\ AnswerPicker(q) \/ AnswerPurge(q) \/ AnswerClear(q)
  /\ SameTokens /\ UNCHANGED <<pageVars, inbox, samples, canceled, missed>>

(* The scan of a picked folder ends: a token is issued for its preview.     *)
SettleScan ==
  /\ work.q.call = "prepare"
  /\ \/ /\ ~work.aborted /\ issued < MaxTokens /\ issued' = issued + 1
        /\ \E can \in BOOLEAN :
             /\ tokens' = Issue(tokens, issued + 1, Window, can, due)
             /\ Reply([Answer(work.q, "ready") EXCEPT !.token = issued + 1, !.can = can])
     \/ Reply(Answer(work.q, IF work.aborted THEN "aborted" ELSE "failed"))
        /\ UNCHANGED <<tokens, issued>>
  /\ UNCHANGED <<due, vaultVars>>

(* An import commits, or leaves the vault as it was. *)
Imports(s) ==
  /\ work.open /\ ~work.aborted
  /\ ver' = [ver EXCEPT ![s] = clock + 1] /\ clock' = clock + 1 /\ UNCHANGED log
Marked(state) == tokens' = SetTerminalState(tokens, work.q.arg[2], state)

SettleConfirm ==
  /\ work.q.call = "confirm"
  /\ \/ Imports("folder") /\ Marked("imported") /\ Reply(Answer(work.q, "imported"))
     \/ SameVault /\ Marked("aborted") /\ Reply(Answer(work.q, "aborted"))
     \/ SameVault /\ Marked("stale-scan") /\ Reply(Answer(work.q, "stale-scan"))
  /\ UNCHANGED <<issued, due>>

SettleSample ==
  /\ work.q.call = "sample"
  /\ \/ Imports("sample") /\ Reply(Answer(work.q, "imported"))
     \/ SameVault /\ Reply(Answer(work.q, "aborted"))
  /\ SameTokens

Settle ==
  /\ work # NoWork /\ work' = NoWork
  /\ SettleScan \/ SettleConfirm \/ SettleSample
  /\ UNCHANGED <<pageVars, inbox, native, samples, canceled, fails, missed>>

(* The files of the sample library are in place, or cannot be put there.    *)
SampleReady ==
  /\ \E q \in samples :
       /\ samples' = samples \ {q}
       /\ \/ work = NoWork /\ work' = [NoWork EXCEPT !.q = q] /\ UNCHANGED outbox
          \/ Reply(Answer(q, "thrown")) /\ UNCHANGED work
  /\ SameVault /\ SameTokens /\ UNCHANGED <<pageVars, inbox, native, canceled, fails, missed>>

(* The sample's source is resolved and its transaction begins.              *)
OpenSample ==
  /\ work.q.call = "sample" /\ ~work.open /\ ~work.aborted
  /\ work' = [work EXCEPT !.open = TRUE] /\ clock' = clock + 1
  /\ UNCHANGED <<pageVars, inbox, outbox, ver, log, tokenVars, native, samples, canceled,
                 fails, missed>>

TokenDue ==
  /\ due < issued /\ due' = due + 1 /\ tokens' = ExpireIfDue(tokens, due + 1, due + 1)
  /\ UNCHANGED <<pageVars, inbox, outbox, vaultVars, issued, workVars, fails, missed>>

-----------------------------------------------------------------------------
(* What the page does with an answer *)

ReleasedHalf(u) == [u EXCEPT !.busy = FALSE, !.activity = "none"]   \* mutant: the lock stays
Released(u) == [u EXCEPT !.lock = FALSE, !.busy = FALSE, !.activity = "none"]
Shown(u, r) ==
  [u EXCEPT !.shown = IF "sources" \in r.got THEN r.ver ELSE @,
            !.history = IF "activity" \in r.got THEN r.log ELSE @]

Then(u) == ui' = u /\ inbox' = inbox
ThenCall(u, r, call, what) ==
  /\ ui' = u
  /\ inbox' = Append(inbox, Call(r.of.id, r.of.by, call, <<what, 0>>))

(* runDirectoryPreflight of handleImport and of chooseAnotherDirectory      *)
AfterPrepare(r) ==
  /\ r.of.call = "prepare"
  /\ Then([Released(ui) EXCEPT
             !.preview = r.token, !.can = r.can])

AfterConfirm(r) ==
  /\ r.of.by = "confirm"
  /\ \/ r.of.call = "confirm" /\ r.status = "imported"
        /\ ThenCall([ui EXCEPT !.preview = 0, !.results = {}], r, "refresh", "sources")
     \/ r.of.call = "confirm" /\ r.status = "busy" /\ Then(Released(ui))
     \/ r.of.call = "confirm" /\ r.status \notin {"imported", "busy"}
        /\ Then([Released(ui) EXCEPT !.preview = 0])
     \/ r.of.call = "refresh" /\ Then([Released(Shown(ui, r)) EXCEPT !.preview = 0])

AfterDismiss(r) ==
  /\ r.of.call = "dismiss"
  /\ \/ r.of.by = "dismiss" /\ Then([ui EXCEPT !.lock = FALSE, !.busy = FALSE])
     \/ r.of.by = "another"
        /\ ThenCall([ui EXCEPT !.activity = "preflight"], r, "prepare", "none")

AfterSample(r) ==
  /\ r.of.by = "sample"
  /\ \/ r.of.call = "sample" /\ r.status = "imported"
        /\ ThenCall([ui EXCEPT !.results = {}], r, "refresh", "sources")
     \/ r.of.call = "sample" /\ r.status # "imported"
        /\ Then([ui EXCEPT !.lock = FALSE, !.activity = "none"])
     \/ r.of.call = "refresh"
        /\ Then([Shown(ui, r) EXCEPT !.lock = FALSE, !.activity = "none"])

AfterSearch(r) ==
  /\ r.of.by = "search"
  /\ \/ r.of.call = "search"
        /\ ThenCall([ui EXCEPT !.results = IF r.status = "ok" THEN r.got ELSE @],
                    r, "refresh", "activity")
     \/ r.of.call = "refresh" /\ Then([Shown(ui, r) EXCEPT !.activity = "none"])

AfterFetchUnread(r) ==   \* mutant: the history is not read again
  /\ r.of.by = "fetch"
  /\ Then([ui EXCEPT !.drawer = IF r.got = {} THEN "none" ELSE r.of.arg[1]])
AfterFetch(r) ==
  /\ r.of.by = "fetch"
  /\ \/ r.of.call = "fetch"
        /\ ThenCall([ui EXCEPT !.drawer =
                       IF r.status # "ok" THEN @
                       ELSE IF r.got = {} THEN "none" ELSE r.of.arg[1]],
                    r, "refresh", "activity")
     \/ r.of.call = "refresh" /\ Then(Shown(ui, r))

AfterBegin(r) ==
  /\ r.of.by = "begin"
  /\ \/ r.status = "ready"
        /\ Then([ui EXCEPT !.overlay = <<r.of.arg[1], r.ver[r.of.arg[1]]>>])
     \/ r.status = "import-in-progress" /\ Then(ui)
     \/ r.status = "not-found" /\ ThenCall(ui, r, "refresh", "sources")
     \/ r.of.call = "refresh" /\ Then(Shown(ui, r))

Closed(u) == [u EXCEPT !.overlay = Nowhere]
AfterPurge(r) ==
  /\ r.of.by = "purge"
  /\ \/ r.status = "purged"
        /\ ThenCall([Closed(ui) EXCEPT !.results = {}, !.drawer = "none"],
                    r, "refresh", "both")
     \/ r.status \in {"stale-confirmation", "not-found"}
        /\ ThenCall(Closed(ui), r, "refresh", "sources")
     \/ r.status \in {"canceled", "import-in-progress"}
        /\ Then([Closed(ui) EXCEPT !.activity = "none"])
     \/ r.of.call = "purge" /\ r.status = "thrown" /\ Then([ui EXCEPT !.activity = "none"])
     \/ r.of.call = "refresh" /\ Then([Shown(ui, r) EXCEPT !.activity = "none"])

AfterClear(r) ==
  /\ r.of.by \in {"clear", "history"}
  /\ \/ r.status = "cleared" /\ ThenCall(ui, r, "refresh", "activity")
     \/ r.status # "cleared" /\ Then([Shown(ui, r) EXCEPT !.historyBusy = FALSE])

AfterRead(r) ==
  \/ r.of.by \in {"load", "view"} /\ Then(Shown(ui, r))
  \/ r.of.by = "cancel" /\ Then(ui)

(* What has changed without the page being told. *)
Unread(r) ==
  CASE r.of.call = "refresh" -> Parts(r.of)
    [] r.of.call \in {"confirm", "sample"} -> {"sources"}
    [] r.of.call = "purge" -> {"sources", "activity", "results"}
    [] r.of.call = "prepare" -> {"preview"}
    [] OTHER -> {"activity"}

(* What is read of an open import may be rolled back. *)
Learnt(r) == r.got \ IF r.draft THEN {"sources"} ELSE {}

Deliver ==
  LET r == Head(outbox) IN
  /\ outbox # <<>> /\ outbox' = Tail(outbox)
  /\ IF r.of.id < since
     THEN UNCHANGED <<ui, inbox>> /\ missed' = missed \cup Unread(r)
     ELSE /\ \/ AfterPrepare(r) \/ AfterConfirm(r) \/ AfterDismiss(r) \/ AfterSample(r)
             \/ AfterSearch(r) \/ AfterFetch(r) \/ AfterBegin(r) \/ AfterPurge(r)
             \/ AfterClear(r) \/ AfterRead(r)
          /\ missed' = (missed \cup IF r.of.call = "refresh" THEN Parts(r.of) ELSE {})
                         \ (IF r.of.call = "prepare" /\ r.status # "busy" THEN {"preview"}
                            ELSE IF r.of.call = "refresh" THEN Learnt(r) ELSE {})
  /\ UNCHANGED <<gestures, since, reloads, vaultVars, tokenVars, workVars, fails>>

-----------------------------------------------------------------------------

Gestures ==
  \/ AddFolder \/ ImportSample \/ ConfirmImport \/ CancelPreview \/ ChooseAnother
  \/ CancelImport \/ Search \/ KeepSource \/ ConfirmPurge
  \/ ClearHistory \/ RefreshHistory \/ Navigate \/ Reload
  \/ \E s \in Sources : ViewContext(s) \/ RemoveSource(s)

Next ==
  Gestures \/ Serve \/ Deliver \/ AnswerNative \/ Settle \/ SampleReady \/ OpenSample
  \/ TokenDue

Spec == Init /\ [][Next]_vars

(* The event loops run, and what was started ends.  Users owe nothing.      *)
FairSpec == Spec /\ WF_vars(Serve \/ Deliver \/ Settle \/ SampleReady \/ OpenSample)

-----------------------------------------------------------------------------
(* Properties *)

\* Entries of the retrieval log.
Numbered(h, n) == h \subseteq (1 .. n) \X (Sources \cup {"none"})

TypeOK ==
  /\ ui.view \in {"library", "history"}
  /\ ui.activity \in {"none", "preflight", "import", "search", "purge"}
  /\ {ui.lock, ui.busy, ui.can, ui.historyBusy} \subseteq BOOLEAN
  /\ ui.preview \in 0 .. issued /\ ui.results \subseteq Sources
  /\ ui.drawer \in Sources \cup {"none"}
  /\ ui.shown \in [Sources -> 0 .. clock] /\ Numbered(ui.history, gestures)
  /\ ver \in [Sources -> 0 .. clock] /\ Numbered(log, gestures)
  /\ gestures \in 0 .. MaxGestures /\ since \in 0 .. gestures /\ reloads \in 0 .. MaxReloads
  /\ DOMAIN tokens \subseteq 1 .. issued /\ issued \in 0 .. MaxTokens /\ due \in 0 .. issued
  /\ {work.aborted, work.open} \subseteq BOOLEAN /\ fails \in 0 .. MaxFails
  /\ missed \subseteq {"sources", "activity", "preview", "results"}

Quiet ==
  inbox = <<>> /\ outbox = <<>> /\ native = {} /\ samples = {} /\ work = NoWork

(* When everything has been answered the page shows the vault's sources and *)
(* its retrieval history as they are, and no result or passage of a source  *)
(* that has been removed, whatever ran side by side.  It may not when a     *)
(* read failed, when the page was reloaded before an answer came, or when   *)
(* it has last read the sources during an import, which then failed: no     *)
(* read follows one.  What MCP clients retrieve meanwhile reaches the log   *)
(* without the page being told, and is outside this module.                 *)
ScreenIsCurrent ==
  Quiet =>
    /\ "sources" \notin missed => ui.shown = ver
    /\ "activity" \notin missed => ui.history = log
    /\ "results" \notin missed =>
         ui.results \subseteq Present /\ ui.drawer \in Present \cup {"none"}

(* A source is removed only in the version that was shown in the dialog the *)
(* user has confirmed, although imports and another removal may come        *)
(* between the preview, the confirmation and the native question.           *)
PurgedAsShown ==
  [][\A s \in Present : ver'[s] = 0 =>
       \E q \in native \ native' : q.call = "purge" /\ q.arg = <<s, ver[s]>>]_vars

(* A preview's dialog never stays on a token that was used or dropped, and  *)
(* no token stays confirmable without its dialog.                           *)
DialogIsUsable ==
  Quiet =>
    /\ ui.preview # 0 => tokens[ui.preview].state \in {"pending", "expired"}
    /\ "preview" \notin missed => Pending(tokens) \subseteq {ui.preview}

(* Whatever has disabled the page's controls ends, or waits for the user's  *)
(* answer to a native dialog.                                               *)
Engaged == ui.lock \/ ui.busy \/ ui.activity # "none" \/ ui.historyBusy
BusyEnds == Engaged ~> ~Engaged \/ native # {}

(* An import does not commit once its cancellation has been taken: "Cancel  *)
(* requested. Rolling back the current import".                             *)
CancelRollsBack ==
  [][work # NoWork /\ work' = NoWork /\ ver' # ver => work.q \notin canceled]_vars

-----------------------------------------------------------------------------
(* Inductive invariants *)

Parted == {"sources", "activity", "both"}
Subjects == Sources \cup Parted \cup {"none", "token"}
Kinds ==
  {<<"add", "prepare">>, <<"another", "dismiss">>, <<"another", "prepare">>,
   <<"dismiss", "dismiss">>, <<"confirm", "confirm">>, <<"confirm", "refresh">>,
   <<"sample", "sample">>, <<"sample", "refresh">>, <<"cancel", "cancel">>,
   <<"search", "search">>, <<"search", "refresh">>, <<"fetch", "fetch">>,
   <<"fetch", "refresh">>, <<"begin", "preparePurge">>, <<"begin", "refresh">>,
   <<"purge", "purge">>, <<"purge", "refresh">>, <<"clear", "clear">>,
   <<"clear", "refresh">>, <<"history", "refresh">>, <<"view", "refresh">>,
   <<"load", "refresh">>}
Handlers ==
  {"add", "another", "dismiss", "confirm", "sample", "cancel", "search", "fetch", "begin",
   "purge", "clear", "history", "view", "load"}
Channels ==
  {"prepare", "dismiss", "confirm", "sample", "cancel", "search", "fetch", "preparePurge",
   "purge", "clear", "refresh"}
Calls ==
  {q \in [id : Nat \ {0}, by : Handlers, call : Channels, arg : Subjects \X Nat] :
     /\ <<q.by, q.call>> \in Kinds
     /\ q.call \in {"fetch", "preparePurge", "purge"} => q.arg[1] \in Sources
     /\ q.call = "refresh" => q.arg[1] \in Parted}

\* What a call may be answered.
Statuses(call) ==
  CASE call = "prepare" -> {"busy", "canceled", "ready", "aborted", "failed"}
    [] call = "confirm" -> {"busy", "invalid", "replayed", "imported"} \cup States
    [] call = "dismiss" -> {"canceled"}
    [] call = "sample" -> {"imported", "aborted", "thrown"}
    [] call = "cancel" -> {"requested"}
    [] call \in {"search", "fetch", "refresh"} -> {"ok", "thrown"}
    [] call = "preparePurge" -> {"import-in-progress", "not-found", "ready"}
    [] call = "purge" -> {"import-in-progress", "not-found", "stale-confirmation", "canceled",
                          "thrown", "purged"}
    [] OTHER -> {"canceled", "thrown", "cleared"}
Readable(q) ==
  CASE q.call = "refresh" -> Parts(q)
    [] q.call = "search" -> Sources
    [] q.call = "fetch" -> {q.arg[1]}
    [] OTHER -> {}
Versions == [Sources -> Nat]
Logs == SUBSET (Nat \X (Sources \cup {"none"}))
Answers ==
  {r \in [of : Calls, status : UNION {Statuses(c) : c \in Channels}, got : SUBSET Subjects,
          ver : Versions, log : Logs, token : Nat, can : BOOLEAN, draft : BOOLEAN] :
     /\ r.status \in Statuses(r.of.call) /\ r.got \subseteq Readable(r.of)
     /\ r.token # 0 => r.of.call = "prepare" /\ r.status = "ready"}

Held == native \cup samples \cup {work.q}
Flying == Range(inbox) \cup {r.of : r \in Range(outbox)} \cup Held
Pages ==
  [view : {"library", "history"}, lock : BOOLEAN, busy : BOOLEAN,
   activity : {"none", "preflight", "import", "search", "purge"}, preview : Nat, can : BOOLEAN,
   results : SUBSET Sources, drawer : Sources \cup {"none"},
   overlay : {Nowhere} \cup (Sources \X Nat), shown : Versions, history : Logs,
   historyBusy : BOOLEAN]

\* What crosses between the page and the main process, and what they keep.
CallInvariant ==
  /\ ui \in Pages
  /\ {gestures, since, clock} \subseteq Nat /\ since <= gestures
  /\ inbox \in Seq(Calls) /\ outbox \in Seq(Answers)
  /\ ver \in Versions /\ log \in Logs
  /\ \A q \in native : q \in Calls /\ q.call \in {"prepare", "purge", "clear"}
  /\ \A q \in samples : q \in Calls /\ q.call = "sample"
  /\ work \in [q : Calls \cup {NoCall}, aborted : BOOLEAN, open : BOOLEAN]
  /\ work.open => work.q.call \in {"confirm", "sample"}
  /\ work # NoWork => work.q.call \in {"prepare", "confirm", "sample"}
  /\ \A q \in Flying : q.id <= gestures

\* The content of a part as the vault has it, as the page shows it and as an answer gives it.
Content(p) == IF p = "sources" THEN ver ELSE log
View(p) == IF p = "sources" THEN ui.shown ELSE ui.history
Given(r, p) == IF p = "sources" THEN r.ver ELSE r.log
\* The answers on which the page reads a part, or says that it could not.
Tells(r, p) ==
  \/ r.of.call = "refresh" /\ p \in Parts(r.of)
  \/ r.status = "purged"
  \/ p = "sources" /\ r.status = "imported"
  \/ p = "activity" /\ (r.of.call \in {"search", "fetch"} \/ r.status = "cleared")
Asks(q, p) == q.call = "refresh" /\ p \in Parts(q)
Told(p, i) ==
  \/ \E j \in DOMAIN outbox : j > i /\ Tells(outbox[j], p)
  \/ \E j \in DOMAIN inbox : Asks(inbox[j], p)
PartInvariant(p) ==
  /\ p \in missed \/ View(p) = Content(p) \/ Told(p, 0)
  /\ \A i \in DOMAIN outbox :
       outbox[i].of.call = "refresh" /\ p \in Learnt(outbox[i]) =>
         Given(outbox[i], p) = Content(p) \/ Told(p, i)

\* No answer shows a source that is gone, but what says so follows.
PurgeFollows(i) == \E j \in DOMAIN outbox : j > i /\ outbox[j].status = "purged"
ResultInvariant ==
  \/ "results" \in missed
  \/ /\ ui.results \cup ({ui.drawer} \ {"none"}) \subseteq Present \/ PurgeFollows(0)
     /\ \A i \in DOMAIN outbox :
          outbox[i].of.call \in {"search", "fetch"} =>
            outbox[i].got \subseteq Present \/ PurgeFollows(i)

\* The functions of the page that take its lock.
Live(q) == q.by \in {"add", "another", "dismiss", "confirm", "sample"} /\ q.id >= since
Alone(s) == \A x, y \in s : x = y
LiveSent == {i \in DOMAIN inbox : Live(inbox[i])}
LiveAnswered == {i \in DOMAIN outbox : Live(outbox[i].of)}
LiveIn(s) == {q \in s : Live(q)}
LiveAt == <<LiveSent, LiveAnswered, LiveIn(native), LiveIn(samples), LiveIn({work.q})>>
\* While a confirmation is under way the page shows its preview, during the others none.
Shaped(q) ==
  ui.lock /\ IF q.call = "confirm" THEN ui.preview # 0 /\ q.arg[2] = ui.preview
             ELSE ui.preview = 0

\* At any time one of them is under way, in one place; and the calls of a page that was
\* reloaded come before those of the page that is shown.
LockInvariant ==
  /\ \A a, b \in DOMAIN LiveAt : \A x \in LiveAt[a], y \in LiveAt[b] : a = b /\ x = y
  /\ \A q \in Flying : Live(q) => Shaped(q)
  /\ \A i, j \in DOMAIN inbox : i < j /\ inbox[i].id >= since => inbox[j].id >= since

Usable(k) == k = issued /\ k \in DOMAIN tokens /\ tokens[k].state \in {"pending", "expired"}
Preparing == {q \in native \cup {work.q} : q.call = "prepare"}
\* The main process is past what a page that was reloaded has asked of it.
Behind ==
  /\ \A q \in Range(inbox) : q.id >= since
  /\ \A q \in native \cup {work.q} : q.call \in {"prepare", "confirm"} => q.id >= since
Offered(r) == Live(r.of) /\ r.of.call = "prepare" /\ r.status # "busy"
Used(r) == Live(r.of) /\ r.of.call = "confirm" /\ r.status # "busy"
Consuming ==
  \/ Live(work.q) /\ work.q.call = "confirm"
  \/ \E r \in Range(outbox) : Used(r)

\* The token that was issued last is the only one that may be pending.  A preview is its,
\* and the page shows it, is about to be shown it, or has dropped it.
DialogInvariant ==
  /\ issued \in Nat /\ due \in 0 .. issued /\ DOMAIN tokens \subseteq 1 .. issued
  /\ \A k \in DOMAIN tokens :
       tokens[k] \in [state : States, sender : {Window}, importable : BOOLEAN]
  /\ Pending(tokens) \subseteq {issued}
  /\ ui.preview # 0 => Behind /\ ui.preview = issued /\ (Consuming \/ Usable(ui.preview))
  /\ \A r \in Range(outbox) : Offered(r) =>
       Behind /\ Pending(tokens) \subseteq {r.token} /\ (r.token # 0 => Usable(r.token))
  /\ \A q \in Preparing : Pending(tokens) = {} /\ (q.id >= since => Behind)
  /\ Alone(Preparing) /\ (work.q.call = "prepare" => ~Picking)
  /\ Consuming => Pending(tokens) = {}
  /\ \/ issued \notin Pending(tokens) \/ "preview" \in missed \/ ui.preview = issued
     \/ \E q \in Range(inbox) : q.call = "dismiss" /\ q.arg[2] = issued
     \/ \E r \in Range(outbox) : r.of.call = "prepare" /\ r.token = issued
SourcesInv == PartInvariant("sources")
ActivityInv == PartInvariant("activity")

\* The page and the answers know versions and retrievals of the past.
Dated(v, n) == v \in [Sources -> 0 .. n]
PastInvariant ==
  /\ Dated(ver, clock) /\ Dated(ui.shown, clock)
  /\ Numbered(log, gestures) /\ Numbered(ui.history, gestures)
  /\ \A r \in Range(outbox) : Dated(r.ver, clock) /\ Numbered(r.log, gestures)

\* The counters keep their bounds, and what the page can miss is named.
BoundInvariant ==
  /\ gestures <= MaxGestures /\ reloads \in 0 .. MaxReloads /\ fails \in 0 .. MaxFails
  /\ issued <= MaxTokens
  /\ missed \subseteq {"sources", "activity", "preview", "results"}
=============================================================================
