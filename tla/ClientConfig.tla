--------------------------- MODULE ClientConfig ---------------------------
(***************************************************************************)
(* The grants OhMyContext writes into the configuration files of Codex and *)
(* Claude Code: codex-config.ts, claude-code-config.ts and the Squirrel    *)
(* hooks of squirrel-lifecycle.ts.  The desktop application serves         *)
(* connection handlers that overlap; a Squirrel hook is a process of its   *)
(* own and runs while the application is open; the claude command and      *)
(* other programs write the same files.  Each look at a file and each      *)
(* replacement of it is a step.                                            *)
(***************************************************************************)
EXTENDS Naturals, FiniteSets

CONSTANTS
  MaxCalls,  \* bound: calls of the connection handlers
  Brokered,  \* the launches whose child reaches the vault through the broker's pipe
  MaxEdits   \* bound: edits by other programs

ASSUME ClientConfigAssumption ==
  MaxCalls \in Nat /\ Brokered \subseteq {"old", "new"} /\ MaxEdits \in Nat

VARIABLES
  file,     \* what each configuration file holds
  call,     \* each call of a configuration service
  busy,     \* mutationActive of the application's Claude Code service
  hook,     \* the Squirrel hook: its event, its stage, the stages that failed
  served,   \* the client whose handlers run, and whose file others edit
  edits,    \* edits so far
  apart     \* the files nobody but the hook has changed since it last did

vars == <<file, call, busy, hook, served, edits, apart>>

----------------------------------------------------------------------------
Files == {"codex", "claude"}
Handlers == 1 .. MaxCalls
Hook == 0
Calls == Handlers \cup {Hook}

\* What a release writes: the application runs the old one, the hook the new.
Launches == {"old", "new"}
LaunchOf(c) == IF c = Hook THEN "new" ELSE "old"

\* A file: its owncontext entry ("conflict" for one of another's, and for a file that
\* cannot be read or rewritten safely), the settings that are not OhMyContext's, the bootstrap keys
\* the claude command may add to them, and whether a program has laid it out anew.
NoFile == [entry |-> "no-file", settings |-> 0, bootstrap |-> FALSE, rewritten |-> FALSE]
Entries == {"none", "conflict"} \cup Launches
Contents ==
  [entry : Entries, settings : 0 .. MaxEdits + 1, bootstrap : BOOLEAN, rewritten : BOOLEAN]
Versions == {NoFile} \cup Contents

Granted(x) == x.entry \in Launches
Unrelated(x) == <<x.settings, x.bootstrap>>

\* The claude command may add its own bootstrap keys; nothing else may differ.
PreservesBaseline(old, new) ==
  new.settings = old.settings /\ (old.bootstrap => new.bootstrap)

\* The Codex service knows its entry by the markers around it.  The Claude Code service
\* knows it by its shape, which has no place for the broker's pipe.
Marked(entry) == entry \in Launches
Shaped(entry) == entry \in Launches \ Brokered

\* An entry is also known by its being exactly the expected one.
Status(f, x, expected) ==
  IF x.entry \in {"none", "no-file"} THEN "absent"
  ELSE IF \/ IF f = "codex" THEN Marked(x.entry) ELSE Shaped(x.entry)
          \/ x.entry = expected
  THEN "managed" ELSE "blocked"

\* mutant: the rest of the file is laid out from what was expected, not from what is there.
WithEntryAlone(f, x, entry) ==
  [x EXCEPT !.entry = entry, !.settings = 0, !.rewritten = (f = "claude")]

\* The file with its entry replaced; JSON is laid out anew, TOML is spliced.
WithEntry(f, x, entry) ==
  [x EXCEPT !.entry = entry, !.rewritten = @ \/ f = "claude"]

Waiting == {"backup", "check", "write", "rename", "verify",
            "command", "command-verify", "settle"}
Answers == {"busy", "unchanged", "refused", "failed", "restored", "unsure", "done", "killed"}

\* A call: the content it loaded and whether that is backed up, the content it
\* compares the file with and the one it is to write, whether it is putting the loaded
\* content back, whether another has changed the file since the call's last look at
\* it, and whether the call or its command has changed the file.
CallRecords ==
  [op : {"none", "apply", "refresh", "remove"}, file : Files,
   pc : {"idle"} \cup Waiting \cup Answers, base : Versions, saved : BOOLEAN,
   snap : Versions, next : Versions, restoring : BOOLEAN, late : BOOLEAN, touched : BOOLEAN]
NoCall ==
  [op |-> "none", file |-> "codex", pc |-> "idle", base |-> NoFile, saved |-> FALSE,
   snap |-> NoFile, next |-> NoFile, restoring |-> FALSE, late |-> FALSE, touched |-> FALSE]

Init ==
  /\ served \in Files
  /\ file \in [Files -> {NoFile} \cup
                 {[NoFile EXCEPT !.entry = e, !.settings = 1] : e \in Entries}]
  /\ \A f \in Files \ {served} : file[f].entry = "old"
  /\ call = [c \in Calls |-> NoCall]
  /\ busy = FALSE
  /\ hook = [event |-> "none", stage |-> "start", tried |-> {}, failed |-> {}]
  /\ edits = 0
  /\ apart = Files

At(c, pc) == call[c].pc = pc
FileOf(c) == file[call[c].file]
Expected(c) == IF call[c].op = "remove" THEN "none" ELSE LaunchOf(c)

\* The claude command adds an entry that is absent.
UsesCommand(c) ==
  call[c].file = "claude" /\ call[c].op = "apply" /\ call[c].base.entry \in {"none", "no-file"}

\* A call of the application's Claude Code service holds its flag.  Where the service
\* returns the promise of replaceManagedEntry without awaiting it, `finally` has
\* lowered the flag and the replacement goes on.  The hook's service is alone.
Flagged(c) ==
  c # Hook /\ call[c].file = "claude" /\ (call[c].op = "remove" \/ UsesCommand(c))

\* mutant: a call that ends leaves the flag up.
ReleaseNever(c) == UNCHANGED busy

Release(c) == busy' = (busy /\ ~Flagged(c))

Go(c, pc) == call' = [call EXCEPT ![c].pc = pc] /\ UNCHANGED busy
Answer(c, answer) == call' = [call EXCEPT ![c] = [NoCall EXCEPT !.pc = answer]] /\ Release(c)

\* mutant: the file is not compared with the snapshot again.
MatchesAlways(c) == TRUE

\* snapshotStillMatches: the bytes are those the call looked at.
Matches(c) == FileOf(c) = call[c].snap

\* Another's change of file f, seen from the calls about to replace it.
Overtaken(f) ==
  [d \in Calls |-> [call[d] EXCEPT !.late = @ \/ (call[d].file = f /\ At(d, "rename"))]]

----------------------------------------------------------------------------
(* A call, from its load to the step before the file changes.              *)

\* mutant: a refresh of a file without a grant writes one.
PlanRegranting(op, status, exact) ==
  IF status = "blocked" THEN "refused"
  ELSE IF op = "remove" /\ status = "absent" THEN "unchanged"
  ELSE IF op # "remove" /\ exact THEN "unchanged"
  ELSE "backup"

\* What a call does with what it loaded.
Plan(op, status, exact) ==
  IF status = "blocked" THEN "refused"
  ELSE IF op # "apply" /\ status = "absent" THEN "unchanged"
  ELSE IF op # "remove" /\ exact THEN "unchanged"
  ELSE "backup"

\* The handlers connection:*-apply and connection:*-remove, and the hook's calls.
Load(c, op, f) ==
  /\ At(c, "idle")
  /\ LET x == file[f]
         wanted == IF op = "remove" THEN "none" ELSE LaunchOf(c)
         flagged == c # Hook /\ f = "claude"
         plan == IF flagged /\ busy THEN "busy"
                 ELSE Plan(op, Status(f, x, wanted), x.entry = wanted)
     IN IF plan = "backup"
        THEN /\ call' = [call EXCEPT ![c] =
                  [NoCall EXCEPT !.op = op, !.file = f, !.pc = plan, !.base = x, !.snap = x,
                                 !.next = WithEntry(f, x, wanted)]]
             /\ busy' = (busy \/ Flagged(c)')
        ELSE /\ call' = [call EXCEPT ![c] = [NoCall EXCEPT !.op = op, !.file = f, !.pc = plan]]
             /\ UNCHANGED busy
  /\ UNCHANGED <<file, hook, served, edits, apart>>

\* mutant: no backup is made.
BackUpNothing(c) ==
  /\ At(c, "backup")
  /\ Go(c, IF call[c].file = "claude" THEN "check" ELSE "write")
  /\ UNCHANGED <<file, hook, served, edits, apart>>

\* The loaded bytes go to an exclusive file beside the configuration.
BackUp(c) ==
  /\ At(c, "backup")
  /\ call' = [call EXCEPT ![c].pc = IF call[c].file = "claude" THEN "check" ELSE "write",
                          ![c].saved = (call[c].base # NoFile)]
  /\ UNCHANGED <<file, busy, hook, served, edits, apart>>

\* discoverClaudeCodeCommand finds no command it may run.
NoCommand(c) ==
  /\ At(c, "backup") /\ UsesCommand(c)
  /\ Answer(c, "failed")
  /\ UNCHANGED <<file, hook, served, edits, apart>>

\* The backup or the temporary file cannot be written, or the file cannot be read
\* again or replaced.
Fails(c) ==
  /\ call[c].pc \in {"backup", "check", "write", "rename"} /\ ~call[c].restoring
  /\ Answer(c, "failed")
  /\ UNCHANGED <<file, hook, served, edits, apart>>

\* The first comparison, only in the Claude Code service.
Check(c) ==
  /\ At(c, "check")
  /\ IF ~Matches(c) THEN Answer(c, "failed")
     ELSE Go(c, IF UsesCommand(c) THEN "command" ELSE "write")
  /\ UNCHANGED <<file, hook, served, edits, apart>>

\* writeConfigBytes and mutateConfig: the temporary file, and the comparison
\* before it is renamed.  There is no lock between the two.
Write(c) ==
  /\ At(c, "write")
  /\ IF Matches(c) THEN Go(c, "rename")
     ELSE Answer(c, IF call[c].restoring THEN "unsure" ELSE "failed")
  /\ UNCHANGED <<file, hook, served, edits, apart>>

\* The file is replaced, or removed where there was none to restore.  The Codex
\* service answers at once.
Rename(c) ==
  LET f == call[c].file
  IN /\ At(c, "rename")
     /\ file' = [file EXCEPT ![f] = call[c].next]
     /\ call' = [Overtaken(f) EXCEPT ![c] =
                   IF f = "codex" THEN [NoCall EXCEPT !.pc = "done"]
                   ELSE [call[c] EXCEPT !.pc = "verify", !.touched = TRUE]]
     /\ apart' = IF c = Hook THEN apart \cup {f} ELSE apart \ {f}
     /\ UNCHANGED <<busy, hook, served, edits>>

\* What the Claude Code service makes of the file it reads back.
Verify(c) ==
  LET x == FileOf(c)
      good == IF call[c].restoring THEN x = call[c].next
              ELSE /\ x.entry = call[c].next.entry \/ (call[c].op = "remove" /\ x = NoFile)
                   /\ Unrelated(x) = Unrelated(call[c].snap)
  IN /\ At(c, "verify")
     /\ Answer(c, IF ~good THEN "unsure" ELSE IF call[c].restoring THEN "restored" ELSE "done")
     /\ UNCHANGED <<file, hook, served, edits, apart>>

----------------------------------------------------------------------------
(* Adding the entry with the claude command.                               *)

\* What the command may leave behind: nothing, or the file laid out anew with or
\* without the entry, its bootstrap keys and other settings.
CommandLeaves(x, launch) ==
  {x} \cup {[entry |-> e, settings |-> s, bootstrap |-> b, rewritten |-> TRUE] :
              e \in {"none", launch}, s \in {x.settings, MaxEdits + 1},
              b \in {x.bootstrap, TRUE}}

\* The command has closed: on its own, killed at its time limit or its output
\* limit, or failed.  What it wrote does not depend on how it ended.
RunCommand(c) ==
  /\ At(c, "command")
  /\ \E x \in CommandLeaves(FileOf(c), LaunchOf(c)) :
       /\ file' = [file EXCEPT !["claude"] = x]
       /\ call' = [Overtaken("claude") EXCEPT ![c] =
                     [call[c] EXCEPT !.pc = "command-verify",
                                     !.touched = (x # FileOf(c))]]
       /\ apart' = apart \ {"claude"}
  /\ UNCHANGED <<busy, hook, served, edits>>

\* mutant: the exit code is trusted, the settings are not looked at.
AddedByEntry(c, x) == x.entry = LaunchOf(c)

\* The command's work, whatever it answered: the exact entry, and the rest as before.
Added(c, x) == x.entry = LaunchOf(c) /\ PreservesBaseline(call[c].base, x)

VerifyCommand(c) ==
  LET x == FileOf(c)
  IN /\ At(c, "command-verify")
     /\ IF Added(c, x) THEN Answer(c, "done")
        ELSE call' = [call EXCEPT ![c].pc = "settle", ![c].next = x] /\ UNCHANGED busy
     /\ UNCHANGED <<file, hook, served, edits, apart>>

\* mutant: a failed command is reported as having changed nothing.
SettleUnseen(c) ==
  /\ At(c, "settle")
  /\ Answer(c, "failed")
  /\ UNCHANGED <<file, hook, served, edits, apart>>

\* The command did not do its work.  A file that is as before needs nothing; one
\* that differs in its layout only is put back; any other is left to the user.
Settle(c) ==
  LET after == call[c].next
  IN /\ At(c, "settle")
     /\ IF FileOf(c) = call[c].base THEN Answer(c, "failed")
        ELSE IF /\ Status("claude", after, LaunchOf(c)) = "absent"
                /\ Unrelated(after) = Unrelated(call[c].base)
                /\ FileOf(c) = after
        THEN /\ call' = [call EXCEPT ![c].pc = "write", ![c].restoring = TRUE,
                                     ![c].snap = after, ![c].next = call[c].base]
             /\ UNCHANGED busy
        ELSE Answer(c, "unsure")
     /\ UNCHANGED <<file, hook, served, edits, apart>>

\* The restoration cannot be written.
RestoreFails(c) ==
  /\ call[c].restoring
  /\ At(c, "write") \/ At(c, "rename")
  /\ Answer(c, "unsure")
  /\ UNCHANGED <<file, hook, served, edits, apart>>

----------------------------------------------------------------------------
(* The Squirrel hook: its stages, each attempted whatever came before.     *)

Events == {"install", "updated", "uninstall", "obsolete"}
Operation == IF hook.event = "updated" THEN "refresh" ELSE "remove"
Stage(s) == hook.stage = s

\* The stages of beginSquirrelLifecycle in their order.
HookStarts ==
  /\ Stage("start")
  /\ \E event \in Events :
       hook' = [hook EXCEPT !.event = event,
                            !.stage = CASE event = "install" -> "shortcut"
                                        [] event = "obsolete" -> "quit"
                                        [] OTHER -> "codex"]
  /\ UNCHANGED <<file, call, busy, served, edits, apart>>

StageAfter(s) == IF s = "codex" THEN "claude" ELSE "shortcut"

HookCalls(f) == Stage(f) /\ Load(Hook, Operation, f)

\* mutant: a failed stage ends the hook.
AfterFragile(f, ok) ==
  [hook EXCEPT !.stage = IF ok THEN StageAfter(f) ELSE "quit",
               !.tried = @ \cup {f}, !.failed = IF ok THEN @ ELSE @ \cup {f}]

\* mutant: only what is thrown counts as a failure.
AfterUnrecorded(f, ok) ==
  [hook EXCEPT !.stage = StageAfter(f), !.tried = @ \cup {f}]

\* attempt: the next stage follows, whether this one succeeded or not.
After(f, ok) ==
  [hook EXCEPT !.stage = StageAfter(f),
               !.tried = @ \cup {f}, !.failed = IF ok THEN @ ELSE @ \cup {f}]

\* The stage's call has returned; a result that is not ok is recorded.
HookReturns(f) ==
  /\ Stage(f)
  /\ call[Hook].pc \in Answers
  /\ hook' = After(f, call[Hook].pc \in {"unchanged", "done"})
  /\ call' = [call EXCEPT ![Hook] = NoCall]
  /\ UNCHANGED <<file, busy, served, edits, apart>>

\* The service, or with an update the launch, cannot be made.  Without a launch both
\* refreshes are passed over.
HookSkips(f) ==
  /\ Stage(f)
  /\ At(Hook, "idle")
  /\ \/ hook' = After(f, FALSE)
     \/ /\ hook.event = "updated" /\ f = "codex"
        /\ hook' = [hook EXCEPT !.stage = "shortcut", !.failed = @ \cup Files]
  /\ UNCHANGED <<file, call, busy, served, edits, apart>>

\* createSquirrelUpdateRunner settles once: Update.exe closed, failed or timed out.
\* The hook quits in `finally`.
HookEnds ==
  /\ Stage("shortcut")
  /\ \E failed \in SUBSET {"shortcut"} :
       hook' = [hook EXCEPT !.stage = "quit", !.tried = @ \cup {"shortcut"},
                            !.failed = @ \cup failed]
  /\ UNCHANGED <<file, call, busy, served, edits, apart>>

----------------------------------------------------------------------------
\* Another program, or the user, writes or removes a file.
Edit(f) ==
  /\ f = served
  /\ edits < MaxEdits
  /\ edits' = edits + 1
  /\ \E x \in {NoFile} \cup {[file[f] EXCEPT !.entry = e, !.settings = edits'] : e \in Entries} :
       file' = [file EXCEPT ![f] = x]
  /\ call' = Overtaken(f)
  /\ apart' = apart \ {f}
  /\ UNCHANGED <<busy, hook, served>>

\* The application exits; its calls are never answered.
Exit ==
  /\ \E c \in Handlers : call[c].pc \in Waiting
  /\ call' = [c \in Calls |->
       IF c # Hook /\ call[c].pc \in Waiting THEN [NoCall EXCEPT !.pc = "killed"] ELSE call[c]]
  /\ busy' = FALSE
  /\ UNCHANGED <<file, hook, served, edits, apart>>

CallStep(c) ==
  \/ NoCommand(c) \/ BackUp(c) \/ Fails(c) \/ Check(c) \/ Write(c) \/ Rename(c) \/ Verify(c)

CommandStep(c) ==
  RunCommand(c) \/ VerifyCommand(c) \/ Settle(c) \/ RestoreFails(c)

HookStep ==
  \/ HookStarts \/ HookEnds
  \/ \E f \in Files : HookCalls(f) \/ HookReturns(f) \/ HookSkips(f)

Next ==
  \/ \E c \in Handlers, op \in {"apply", "remove"} :
       (\A d \in 1 .. c - 1 : ~At(d, "idle")) /\ Load(c, op, served)
  \/ \E c \in Calls : CallStep(c)
  \/ \E c \in Handlers : CommandStep(c)
  \/ HookStep
  \/ \E f \in Files : Edit(f)
  \/ Exit

Spec == Init /\ [][Next]_vars

\* A hook keeps running: every file operation it awaits settles, and Update.exe is
\* killed at its time limit.
FairSpec == Spec /\ WF_vars(HookStep \/ CallStep(Hook))

----------------------------------------------------------------------------
\* The variables' types; and the flag is up exactly while one call holds it, so that
\* two of them never overlap and none leaves the service busy for good.
TypeOK ==
  /\ file \in [Files -> Versions]
  /\ call \in [Calls -> CallRecords]
  /\ busy = (\E c \in Calls : call[c].pc \in Waiting /\ Flagged(c))
  /\ \A c, d \in Calls :
       /\ call[c].pc \in Waiting /\ Flagged(c)
       /\ call[d].pc \in Waiting /\ Flagged(d)
       => c = d
  /\ hook \in [event : {"none"} \cup Events, stage : {"start", "shortcut", "quit"} \cup Files,
               tried : SUBSET (Files \cup {"shortcut"}),
               failed : SUBSET (Files \cup {"shortcut"})]
  /\ served \in Files /\ apart \subseteq Files
  /\ edits \in 0 .. MaxEdits

----------------------------------------------------------------------------
(* Properties.                                                             *)

Replaces(c) == At(c, "rename") /\ call'[c].pc \in {"verify", "done"}

\* Replacing a file loses no setting, whoever else writes it: what is replaced differs
\* from what is written in the owncontext entry only, and was backed up, save what
\* arrives after the last comparison, which apps/desktop/README.md:252 leaves open.
SettingsSurvive ==
  [][\A c \in Calls : (Replaces(c) /\ ~call[c].late) =>
       /\ Unrelated(FileOf(c)) = Unrelated(call[c].next)
       /\ \/ FileOf(c) = NoFile
          \/ call[c].restoring
          \/ call[c].saved /\ FileOf(c) = call[c].base]_vars

\* A grant appears only where a user asked for it: never through a refresh that finds
\* none, a removal or a restoration, whatever the other processes do meanwhile.
GrantsAreAskedFor ==
  [][\A f \in Files : (Granted(file'[f]) /\ ~Granted(file[f])) =>
       \/ edits' # edits
       \/ \E c \in Calls :
            /\ call'[c] # call[c] /\ call[c].file = f
            /\ call[c].late \/ (call[c].op = "apply" /\ ~call[c].restoring)]_vars

\* What a call answers is so.  "failed" and "restored": the call and its command left
\* nothing behind.  "done": the entry is as asked and the other settings are kept,
\* also where the claude command made the change and reported a failure or none.
AnswersAreTrue ==
  [][\A c \in Calls : call'[c].pc # call[c].pc =>
       /\ call'[c].pc \in {"failed", "restored"} =>
            (call[c].touched => FileOf(c) = call[c].base)
       /\ call'[c].pc = "done" =>
            LET x == file'[call[c].file]
            IN /\ PreservesBaseline(call[c].base, x)
               /\ Granted(x) = (call[c].op # "remove")]_vars

\* An uninstallation that recorded no failure left no grant behind in a file that
\* nobody else wrote.
UninstallIsTold ==
  (Stage("quit") /\ hook.event = "uninstall" /\ hook.failed \cap Files = {}) =>
    \A f \in apart : ~Granted(file[f])

\* A hook quits, and an uninstallation has attempted every stage by then.
HookQuits ==
  <>(Stage("quit") /\ (hook.event = "uninstall" => hook.tried = Files \cup {"shortcut"}))

\* What apps/desktop/README.md:225 says of an uninstallation and :241 of a removal:
\* OhMyContext takes its own entry out; it refuses entries of others only.
OwnEntryIsRemovable ==
  [][\A c \in Calls :
       (call'[c].op = "remove" /\ call'[c].pc = "refused") => ~Granted(file[call'[c].file])]_vars

----------------------------------------------------------------------------
(* Why they hold: the inductive invariants, for ClientProofs.              *)

Replacing == {"backup", "check", "write", "rename", "verify"}
Commanding == {"command", "command-verify", "settle"}
Wanted(c, k) == IF k.op = "remove" THEN "none" ELSE LaunchOf(c)
ByCommand(k) == k.file = "claude" /\ k.op = "apply" /\ k.base.entry \in {"none", "no-file"}

\* What call c, now k, is about to do, the file being x.  A call that replaces writes
\* what it loaded with its entry replaced; a call that restores, what it loaded.  Only
\* the hook refreshes, and only what was there is refreshed or removed.
Prepared(c, k, x) ==
  /\ k.op \in IF c = Hook THEN {"refresh", "remove"} ELSE {"apply", "remove"}
  /\ k.op # "apply" => Status(k.file, k.base, Wanted(c, k)) = "managed"
  /\ k.pc # "backup" => k.saved = (k.base # NoFile)
  /\ k.restoring \/ k.pc \in Commanding => ByCommand(k)
  /\ k.restoring => /\ k.pc \in {"write", "rename", "verify"} /\ k.next = k.base
                    /\ Unrelated(k.snap) = Unrelated(k.base)
  /\ ~k.restoring /\ k.pc \in Replacing =>
        k.snap = k.base /\ k.next = WithEntry(k.file, k.base, Wanted(c, k))
  /\ ~k.restoring /\ k.pc \in Replacing \ {"verify"} => ~k.touched
  /\ k.pc = "rename" /\ ~k.late => x = k.snap

CallInvariant ==
  \A c \in Calls : call[c].pc \in Waiting => Prepared(c, call[c], FileOf(c))

\* The stages of an uninstallation: each call is the stage's own, and a removal that
\* went well has left no grant in a file that nobody else wrote since.
Past(f) == IF f = "codex" THEN hook.stage \in {"claude", "shortcut", "quit"}
           ELSE hook.stage \in {"shortcut", "quit"}
Clean(f) == f \in apart => ~Granted(file[f])
HookInvariant ==
  /\ hook.stage \in {"start", "shortcut", "quit"} => At(Hook, "idle")
  /\ call[Hook].pc \in Waiting => Stage(call[Hook].file) /\ call[Hook].op = Operation
  /\ hook.event = "uninstall" =>
       /\ call[Hook].pc \in {"unchanged", "done"} => Clean(hook.stage)
       /\ \A f \in Files : Past(f) /\ f \notin hook.failed => Clean(f)
============================================================================
