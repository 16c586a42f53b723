----------------------------- MODULE ClientProofs -----------------------------
(***************************************************************************)
(* Theorems about what a client of the vault relies on.  First about the   *)
(* configuration files OhMyContext shares with Codex and Claude Code, for  *)
(* any number of handler calls and edits, with either client and whatever  *)
(* launches use the broker: CallInvariant says what each call is about to  *)
(* do and what it rests on; HookInvariant what the stages of a Squirrel    *)
(* hook have left behind.  Then about the broker's connection, for any     *)
(* number of connections, requests and changes of the vault:               *)
(* SessionInvariant keeps a session's cache within what was issued,        *)
(* FramesInvariant the order of what crosses the pipe.                     *)
(***************************************************************************)
EXTENDS ClientConfig, McpBroker, WellFoundedInduction, SequenceTheorems, TLAPS

-----------------------------------------------------------------------------
(* Records.                                                                *)

\* The first state of a call, and an answer, are calls.
LEMMA Answered ==
  ASSUME NEW a, a \in {"idle"} \cup Answers
  PROVE  /\ [NoCall EXCEPT !.pc = a] \in CallRecords
         /\ [NoCall EXCEPT !.pc = a].pc = a
         /\ NoCall \in CallRecords /\ NoCall.pc = "idle"
BY DEF NoCall, CallRecords, Versions, Files

\* No step of a call is an answer.
LEMMA WaitingIsNoAnswer ==
  /\ Waiting \cap ({"idle"} \cup Answers) = {}
  /\ "idle" \notin Answers
BY DEF Waiting, Answers

\* A call that goes on keeps everything but its step.
LEMMA GoneOn ==
  ASSUME NEW k, k \in CallRecords, NEW s, s \in Waiting
  PROVE  LET n == [k EXCEPT !.pc = s] IN
         /\ n \in CallRecords /\ n.pc = s
         /\ n.op = k.op /\ n.file = k.file /\ n.base = k.base /\ n.saved = k.saved
         /\ n.snap = k.snap /\ n.next = k.next /\ n.restoring = k.restoring
         /\ n.late = k.late /\ n.touched = k.touched
BY DEF CallRecords

\* A call that was overtaken differs in that only.
LEMMA LateOnly ==
  ASSUME NEW k, k \in CallRecords, NEW b, b \in BOOLEAN
  PROVE  LET n == [k EXCEPT !.late = b] IN
         /\ n \in CallRecords /\ n.late = b
         /\ n.op = k.op /\ n.file = k.file /\ n.base = k.base /\ n.saved = k.saved
         /\ n.snap = k.snap /\ n.next = k.next /\ n.restoring = k.restoring
         /\ n.pc = k.pc /\ n.touched = k.touched
BY DEF CallRecords

\* Replacing the entry leaves the rest of a file, and a version of it.
LEMMA EntryReplaced ==
  ASSUME NEW f \in Files, NEW x, x \in Versions, NEW e, e \in {"none"} \cup Launches
  PROVE  /\ WithEntry(f, x, e) \in Versions
         /\ WithEntry(f, x, e).entry = e
         /\ Unrelated(WithEntry(f, x, e)) = Unrelated(x)
         /\ WithEntry(f, x, e).settings = x.settings
         /\ WithEntry(f, x, e).bootstrap = x.bootstrap
<1> DEFINE b == f = "claude"
           r == x.rewritten \/ b
           n == [x EXCEPT !.entry = e, !.rewritten = x.rewritten \/ b]
<1>1. WithEntry(f, x, e) = n
  BY DEF WithEntry
<1>2. CASE x = NoFile
  <2>0. r = b
    BY <1>2 DEF NoFile
  <2>1. n = [entry |-> e, settings |-> 0, bootstrap |-> FALSE, rewritten |-> b]
    <3>1. n = [x EXCEPT !.entry = e, !.rewritten = r]
      OBVIOUS
    <3> HIDE DEF n, r, b
    <3> QED BY <1>2, <2>0, <3>1 DEF NoFile
  <2>2. 0 \in 0 .. MaxEdits + 1
    BY ClientConfigAssumption
  <2> HIDE DEF n, b
  <2>3. b \in BOOLEAN
    BY DEF b
  <2>4. n \in Contents
    BY <2>1, <2>2, <2>3 DEF Contents, Entries
  <2> QED BY <1>1, <1>2, <2>1, <2>4 DEF Versions, NoFile, Unrelated
<1>3. CASE x \in Contents
  <2>1. r \in BOOLEAN
    BY DEF r
  <2> HIDE DEF b
  <2>2. n = [x EXCEPT !.entry = e, !.rewritten = r]
    BY DEF r
  <2> HIDE DEF r, n
  <2>3. /\ n \in Contents /\ n.entry = e /\ n.settings = x.settings
        /\ n.bootstrap = x.bootstrap
    BY <1>3, <2>1, <2>2 DEF Contents, Entries
  <2> QED BY <1>1, <2>3 DEF Versions, Unrelated
<1> QED BY <1>2, <1>3 DEF Versions

\* The parts of a version.
LEMMA VersionParts ==
  ASSUME NEW x, x \in Versions
  PROVE  /\ x.entry \in {"no-file"} \cup Entries
         /\ x.settings \in 0 .. MaxEdits + 1
         /\ x.bootstrap \in BOOLEAN /\ x.rewritten \in BOOLEAN
         /\ x.entry = "no-file" => x = NoFile
<1>1. 0 \in 0 .. MaxEdits + 1
  BY ClientConfigAssumption
<1>2. CASE x = NoFile
  BY <1>1, <1>2 DEF NoFile
<1>3. CASE x \in Contents
  <2>1. x.entry \in Entries /\ x.settings \in 0 .. MaxEdits + 1
    BY <1>3 DEF Contents
  <2>2. x.bootstrap \in BOOLEAN /\ x.rewritten \in BOOLEAN
    BY <1>3 DEF Contents
  <2>3. x.entry # "no-file"
    BY <2>1 DEF Entries, Launches
  <2> QED BY <2>1, <2>2, <2>3
<1> QED BY <1>2, <1>3 DEF Versions

\* Two calls of one step and purpose, in the fields an overtaking leaves.
Same(k, n) ==
  /\ n.op = k.op /\ n.file = k.file /\ n.pc = k.pc /\ n.base = k.base
  /\ n.saved = k.saved /\ n.snap = k.snap /\ n.next = k.next
  /\ n.restoring = k.restoring /\ n.touched = k.touched

\* Another's change of a file only tells the calls about to replace it.
LEMMA OvertakenOnly ==
  ASSUME call \in [Calls -> CallRecords], NEW f \in Files
  PROVE  /\ Overtaken(f) \in [Calls -> CallRecords]
         /\ \A d \in Calls :
              /\ Same(call[d], Overtaken(f)[d])
              /\ Overtaken(f)[d].late =
                   (call[d].late \/ (call[d].file = f /\ call[d].pc = "rename"))
<1> SUFFICES ASSUME NEW d \in Calls
             PROVE  /\ Overtaken(f)[d] \in CallRecords
                    /\ Same(call[d], Overtaken(f)[d])
                    /\ Overtaken(f)[d].late =
                         (call[d].late \/ (call[d].file = f /\ call[d].pc = "rename"))
  BY DEF Overtaken
<1> DEFINE k == call[d]
           b == k.late \/ (k.file = f /\ k.pc = "rename")
<1>1. k \in CallRecords /\ b \in BOOLEAN
  BY DEF CallRecords
<1>2. Overtaken(f)[d] = [k EXCEPT !.late = b]
  BY DEF Overtaken, At
<1> HIDE DEF k, b
<1>3. /\ Overtaken(f)[d] \in CallRecords /\ Overtaken(f)[d].late = b
      /\ Same(k, Overtaken(f)[d])
  BY <1>1, <1>2, LateOnly DEF Same
<1> QED BY <1>3 DEF k, b

\* What a call decides without looking at another.
FlagOf(c, k) == c # Hook /\ k.file = "claude" /\ (k.op = "remove" \/ ByCommand(k))

\* A call as the actions see it.
LEMMA AsRecord ==
  ASSUME NEW c
  PROVE  /\ UsesCommand(c) <=> ByCommand(call[c])
         /\ Flagged(c) <=> FlagOf(c, call[c])
         /\ Expected(c) = Wanted(c, call[c])
         /\ FileOf(c) = file[call[c].file]
         /\ Matches(c) <=> file[call[c].file] = call[c].snap
BY DEF UsesCommand, ByCommand, Flagged, FlagOf, Expected, Wanted, FileOf, Matches

\* The parts of a call.
LEMMA CallParts ==
  ASSUME NEW k, k \in CallRecords
  PROVE  /\ k.op \in {"none", "apply", "refresh", "remove"} /\ k.file \in Files
         /\ k.pc \in {"idle"} \cup Waiting \cup Answers
         /\ k.base \in Versions /\ k.snap \in Versions /\ k.next \in Versions
         /\ k.saved \in BOOLEAN /\ k.restoring \in BOOLEAN /\ k.late \in BOOLEAN
         /\ k.touched \in BOOLEAN
BY DEF CallRecords

-----------------------------------------------------------------------------
(* What the steps of a call do.                                            *)

Turn(c, n) == call' = [call EXCEPT ![c] = n]

\* A call is answered.
LEMMA Answering ==
  ASSUME call \in [Calls -> CallRecords], NEW c \in Calls, NEW a \in Answers, Answer(c, a)
  PROVE  /\ Turn(c, [NoCall EXCEPT !.pc = a])
         /\ busy' = (busy /\ ~Flagged(c))
BY DEF Answer, Release, Turn

\* A call goes on to its next step.
LEMMA Going ==
  ASSUME call \in [Calls -> CallRecords], NEW c \in Calls, NEW s \in Waiting, Go(c, s)
  PROVE  /\ Turn(c, [call[c] EXCEPT !.pc = s])
         /\ busy' = busy
BY DEF Go, Turn

\* What a turn of a call does to the calls.
LEMMA Turning ==
  ASSUME call \in [Calls -> CallRecords], NEW c \in Calls, NEW n, n \in CallRecords,
         Turn(c, n)
  PROVE  /\ call' \in [Calls -> CallRecords]
         /\ call'[c] = n
         /\ \A d \in Calls : d # c => call'[d] = call[d]
BY DEF Turn

\* What a turn of a call that changes file f does to the calls.
LEMMA Overtaking ==
  ASSUME call \in [Calls -> CallRecords], NEW c \in Calls, NEW f \in Files,
         NEW n, n \in CallRecords, call' = [Overtaken(f) EXCEPT ![c] = n]
  PROVE  /\ call' \in [Calls -> CallRecords]
         /\ call'[c] = n
         /\ \A d \in Calls : d # c =>
              /\ Same(call[d], call'[d])
              /\ call'[d].late =
                   (call[d].late \/ (call[d].file = f /\ call[d].pc = "rename"))
<1> DEFINE o == Overtaken(f)
<1>1. o \in [Calls -> CallRecords]
  BY OvertakenOnly
<1>2. \A d \in Calls : 
              /\ Same(call[d], o[d])
              /\ o[d].late =
                   (call[d].late \/ (call[d].file = f /\ call[d].pc = "rename"))
  BY OvertakenOnly
<1>3. call' = [o EXCEPT ![c] = n]
  OBVIOUS
<1> HIDE DEF o
<1> QED BY <1>1, <1>2, <1>3

\* A call makes its backup.
LEMMA BackingUp ==
  ASSUME call \in [Calls -> CallRecords], NEW c \in Calls, BackUp(c)
  PROVE  \E n \in CallRecords :
           /\ Turn(c, n)
           /\ call[c].pc = "backup"
           /\ n.pc = IF call[c].file = "claude" THEN "check" ELSE "write"
           /\ n.saved = (call[c].base # NoFile)
           /\ n.op = call[c].op /\ n.file = call[c].file /\ n.base = call[c].base
           /\ n.snap = call[c].snap /\ n.next = call[c].next
           /\ n.restoring = call[c].restoring /\ n.late = call[c].late
           /\ n.touched = call[c].touched
<1> DEFINE s == IF call[c].file = "claude" THEN "check" ELSE "write"
           b == call[c].base # NoFile
           k == call[c]
           n == [k EXCEPT !.pc = s, !.saved = b]
<1>1. /\ call' = [call EXCEPT ![c].pc = s, ![c].saved = b]
      /\ call[c].pc = "backup"
  BY DEF BackUp, At
<1>2. s \in Waiting /\ b \in BOOLEAN /\ k \in CallRecords
  BY DEF Waiting
<1>3. Turn(c, n)
  <2> HIDE DEF s, b
  <2> QED BY <1>1 DEF Turn
<1>4. /\ n \in CallRecords /\ n.pc = s /\ n.saved = b
      /\ n.op = k.op /\ n.file = k.file /\ n.base = k.base
      /\ n.snap = k.snap /\ n.next = k.next
      /\ n.restoring = k.restoring /\ n.late = k.late /\ n.touched = k.touched
  <2> HIDE DEF s, b, k
  <2> QED BY <1>2 DEF CallRecords
<1> HIDE DEF n
<1> QED BY <1>1, <1>3, <1>4 DEF s, b, k

\* The decision after a command that did not do its work: to restore, or to decide.
RestoringAs(c, after) ==
  call' = [call EXCEPT ![c].pc = "write", ![c].restoring = TRUE,
                       ![c].snap = after, ![c].next = call[c].base]
SettlingAs(c, x) == call' = [call EXCEPT ![c].pc = "settle", ![c].next = x]

\* A call whose command did not do its work restores what it loaded.
LEMMA Restoring ==
  ASSUME call \in [Calls -> CallRecords], NEW c \in Calls,
         NEW after, after \in Versions, RestoringAs(c, after)
  PROVE  \E n \in CallRecords :
           /\ Turn(c, n)
           /\ n.pc = "write" /\ n.restoring /\ n.snap = after
           /\ n.next = call[c].base
           /\ n.op = call[c].op /\ n.file = call[c].file /\ n.base = call[c].base
           /\ n.saved = call[c].saved /\ n.late = call[c].late
           /\ n.touched = call[c].touched
<1> DEFINE k == call[c]
           b == call[c].base
           n == [k EXCEPT !.pc = "write", !.restoring = TRUE, !.snap = after, !.next = b]
<1>1. k \in CallRecords /\ b \in Versions
  BY CallParts
<1>2. Turn(c, n)
  <2> HIDE DEF b
  <2>1. call' = [call EXCEPT ![c].pc = "write", ![c].restoring = TRUE,
                             ![c].snap = after, ![c].next = b]
    BY DEF b, RestoringAs
  <2> QED BY <2>1 DEF Turn
<1>3. /\ n \in CallRecords
      /\ n.pc = "write" /\ n.restoring /\ n.snap = after
      /\ n.next = b /\ n.op = k.op /\ n.file = k.file /\ n.base = k.base
      /\ n.saved = k.saved /\ n.late = k.late /\ n.touched = k.touched
  <2> HIDE DEF b, k
  <2>1. "write" \in Waiting
    BY DEF Waiting
  <2> QED BY <1>1, <2>1 DEF CallRecords
<1> HIDE DEF n
<1> QED BY <1>2, <1>3 DEF b, k

\* What the command left behind is kept for the decision.
LEMMA Settling ==
  ASSUME call \in [Calls -> CallRecords], NEW c \in Calls,
         NEW x, x \in Versions, SettlingAs(c, x)
  PROVE  \E n \in CallRecords :
           /\ Turn(c, n)
           /\ n.pc = "settle" /\ n.next = x
           /\ n.op = call[c].op /\ n.file = call[c].file /\ n.base = call[c].base
           /\ n.saved = call[c].saved /\ n.late = call[c].late
           /\ n.snap = call[c].snap /\ n.restoring = call[c].restoring
           /\ n.touched = call[c].touched
<1> DEFINE k == call[c]
           n == [k EXCEPT !.pc = "settle", !.next = x]
<1>1. k \in CallRecords
  OBVIOUS
<1>2. Turn(c, n)
  BY DEF Turn, SettlingAs
<1>3. /\ n \in CallRecords
      /\ n.pc = "settle" /\ n.next = x
      /\ n.op = k.op /\ n.file = k.file /\ n.base = k.base
      /\ n.saved = k.saved /\ n.late = k.late /\ n.snap = k.snap
      /\ n.restoring = k.restoring /\ n.touched = k.touched
  <2> HIDE DEF k
  <2>1. "settle" \in Waiting
    BY DEF Waiting
  <2> QED BY <1>1, <2>1 DEF CallRecords
<1> HIDE DEF n
<1> QED BY <1>2, <1>3 DEF k

\* The records a call becomes when it loads a file: with work to do, or answered.
Loaded(op, f, x, y) ==
  [NoCall EXCEPT !.op = op, !.file = f, !.pc = "backup", !.base = x, !.snap = x, !.next = y]
AtOnce(op, f, a) == [NoCall EXCEPT !.op = op, !.file = f, !.pc = a]

\* A call that has found something to do.
LEMMA Loading ==
  ASSUME NEW op, op \in {"apply", "refresh", "remove"}, NEW f, f \in Files,
         NEW x, x \in Versions, NEW y, y \in Versions
  PROVE  /\ Loaded(op, f, x, y) \in CallRecords
         /\ Loaded(op, f, x, y).pc = "backup"
         /\ Loaded(op, f, x, y).op = op /\ Loaded(op, f, x, y).file = f
         /\ Loaded(op, f, x, y).base = x /\ Loaded(op, f, x, y).snap = x
         /\ Loaded(op, f, x, y).next = y /\ ~Loaded(op, f, x, y).saved
         /\ ~Loaded(op, f, x, y).restoring /\ ~Loaded(op, f, x, y).late
         /\ ~Loaded(op, f, x, y).touched
<1>1. "backup" \in Waiting
  BY DEF Waiting
<1> QED BY <1>1 DEF Loaded, CallRecords, NoCall, Versions

\* A call that is answered at once.
LEMMA AnsweredAtOnce ==
  ASSUME NEW op, op \in {"apply", "refresh", "remove"}, NEW f, f \in Files,
         NEW a, a \in Answers
  PROVE  /\ AtOnce(op, f, a) \in CallRecords /\ AtOnce(op, f, a).pc = a
         /\ AtOnce(op, f, a).op = op /\ AtOnce(op, f, a).file = f
BY DEF AtOnce, CallRecords, NoCall, Versions

\* What the plan of a call allows.
LEMMA PlanIs ==
  ASSUME NEW op, op \in {"apply", "refresh", "remove"}, NEW s, NEW e, e \in BOOLEAN
  PROVE  /\ Plan(op, s, e) \in {"refused", "unchanged", "backup"}
         /\ Plan(op, s, e) = "backup" /\ op # "apply" => s # "blocked" /\ s # "absent"
         /\ Plan(op, s, e) = "backup" /\ op # "remove" => ~e
         /\ Plan(op, s, e) = "unchanged" /\ op = "remove" => s = "absent"
BY DEF Plan

\* A file's entry is absent, blocked or managed, and granted when managed.
LEMMA StatusIs ==
  ASSUME NEW f, NEW x, NEW e
  PROVE  /\ Status(f, x, e) \in {"absent", "blocked", "managed"}
         /\ Status(f, x, e) = "absent" <=> x.entry \in {"none", "no-file"}
         /\ Status(f, x, e) = "managed" => x.entry \in Launches \/ x.entry = e
BY DEF Status, Marked, Shaped

\* What a call loads, and what it makes of it.
LEMMA LoadIs ==
  ASSUME call \in [Calls -> CallRecords], file \in [Files -> Versions], busy \in BOOLEAN,
         NEW c \in Calls, NEW op, op \in {"apply", "refresh", "remove"}, NEW f, f \in Files,
         Load(c, op, f)
  PROVE  \E n \in CallRecords :
           /\ Turn(c, n) /\ call[c].pc = "idle" /\ n.op = op /\ n.file = f
           /\ \/ /\ n.pc = "backup" /\ n.base = file[f] /\ n.snap = file[f]
                 /\ n.next = WithEntry(f, file[f], Wanted(c, n))
                 /\ ~n.saved /\ ~n.restoring /\ ~n.late /\ ~n.touched
                 /\ op # "apply" => Status(f, file[f], Wanted(c, n)) = "managed"
                 /\ FlagOf(c, n) => ~busy
                 /\ busy' = (busy \/ FlagOf(c, n))
              \/ /\ n.pc \in {"busy", "refused", "unchanged"} /\ busy' = busy
                 /\ n.pc = "unchanged" /\ op = "remove" => ~Granted(file[f])
<1> DEFINE x == file[f]
           w == IF op = "remove" THEN "none" ELSE LaunchOf(c)
           s == Status(f, x, w)
           e == x.entry = w
           p == Plan(op, s, e)
           y == WithEntry(f, x, w)
           plan == IF (c # Hook /\ f = "claude") /\ busy THEN "busy" ELSE p
           a == AtOnce(op, f, plan)
<1>1. /\ call[c].pc = "idle"
      /\ IF plan = "backup" THEN Turn(c, Loaded(op, f, x, y)) /\ busy' = (busy \/ Flagged(c)')
         ELSE Turn(c, a) /\ busy' = busy
  BY DEF Load, At, Turn, Loaded, AtOnce
<1>2. x \in Versions /\ w \in {"none"} \cup Launches
  BY DEF LaunchOf, Launches
<1>3. y \in Versions
  BY <1>2, EntryReplaced
<1>4. /\ p \in {"refused", "unchanged", "backup"}
      /\ p = "backup" /\ op # "apply" => s = "managed"
      /\ p = "unchanged" /\ op = "remove" => x.entry \in {"none", "no-file"}
  <2>1. s \in {"absent", "blocked", "managed"} /\ (s = "absent" <=> x.entry \in {"none", "no-file"})
    BY StatusIs
  <2>2. e \in BOOLEAN
    OBVIOUS
  <2> HIDE DEF s, e, x
  <2> QED BY <2>1, <2>2, PlanIs
<1>5. CASE plan = "backup"
  <2> DEFINE n == Loaded(op, f, x, y)
  <2>1. p = "backup" /\ ~((c # Hook /\ f = "claude") /\ busy)
    BY <1>5
  <2> HIDE DEF plan, p, x, y, w
  <2>2. /\ n \in CallRecords /\ n.pc = "backup" /\ n.op = op /\ n.file = f
        /\ n.base = x /\ n.snap = x /\ n.next = y /\ ~n.saved
        /\ ~n.restoring /\ ~n.late /\ ~n.touched
    BY <1>2, <1>3, Loading
  <2> HIDE DEF n
  <2>3. Turn(c, n) /\ busy' = (busy \/ Flagged(c)')
    BY <1>1, <1>5 DEF n
  <2>4. call'[c] = n
    BY <2>2, <2>3, Turning
  <2>5. Flagged(c)' <=> FlagOf(c, n)
    BY <2>4 DEF Flagged, UsesCommand, FlagOf, ByCommand
  <2>6. Wanted(c, n) = w
    BY <2>2 DEF Wanted, w
  <2>7. busy' = (busy \/ FlagOf(c, n))
    BY <2>3, <2>5 DEF FlagOf
  <2>8. FlagOf(c, n) => ~busy
    BY <2>1, <2>2 DEF FlagOf
  <2>9. op # "apply" => Status(f, x, w) = "managed"
    BY <1>4, <2>1
  <2>10. y = WithEntry(f, x, w)
    BY DEF y
  <2> QED BY <1>1, <2>2, <2>3, <2>6, <2>7, <2>8, <2>9, <2>10 DEF x
<1>6. CASE plan # "backup"
  <2>1. /\ plan \in {"busy", "refused", "unchanged"}
        /\ plan = "unchanged" => p = "unchanged"
    BY <1>4, <1>6
  <2>2. plan \in Answers
    BY <2>1 DEF Answers
  <2>3. plan = "unchanged" /\ op = "remove" => ~Granted(x)
    BY <1>4, <2>1 DEF Granted, Launches
  <2> HIDE DEF plan, p
  <2>4. a \in CallRecords /\ a.pc = plan /\ a.op = op /\ a.file = f
    BY <2>2, AnsweredAtOnce
  <2>5. Turn(c, a) /\ busy' = busy
    BY <1>1, <1>6
  <2> HIDE DEF a
  <2> QED BY <1>1, <2>1, <2>3, <2>4, <2>5
<1> QED BY <1>5, <1>6

-----------------------------------------------------------------------------
(* The calls' steps and the flag.                                          *)

\* A call that holds the flag of the application's Claude Code service.
Holds(c, k) == k.pc \in Waiting /\ FlagOf(c, k)

\* The flag is up exactly while one call holds it.
Flags ==
  /\ busy = (\E c \in Calls : Holds(c, call[c]))
  /\ \A c, d \in Calls : Holds(c, call[c]) /\ Holds(d, call[d]) => c = d

\* The types of the calls and the files, and the flag, as TypeOK states them.
LEMMA TypeParts ==
  TypeOK <=> /\ file \in [Files -> Versions]
             /\ call \in [Calls -> CallRecords]
             /\ Flags
             /\ hook \in [event : {"none"} \cup Events,
                          stage : {"start", "shortcut", "quit"} \cup Files,
                          tried : SUBSET (Files \cup {"shortcut"}),
                          failed : SUBSET (Files \cup {"shortcut"})]
             /\ served \in Files /\ apart \subseteq Files
             /\ edits \in 0 .. MaxEdits
<1>1. \A c : call[c].pc \in Waiting /\ Flagged(c) <=> Holds(c, call[c])
  BY AsRecord DEF Holds
<1> QED BY <1>1 DEF TypeOK, Flags

\* The same of the state after a step.
LEMMA TypePartsAfter ==
  ASSUME file' \in [Files -> Versions], call' \in [Calls -> CallRecords], Flags',
         hook' \in [event : {"none"} \cup Events,
                    stage : {"start", "shortcut", "quit"} \cup Files,
                    tried : SUBSET (Files \cup {"shortcut"}),
                    failed : SUBSET (Files \cup {"shortcut"})],
         served' \in Files, apart' \subseteq Files, edits' \in 0 .. MaxEdits
  PROVE  TypeOK'
<1>1. \A c : Flagged(c)' <=> FlagOf(c, call'[c])
  BY DEF UsesCommand, ByCommand, Flagged, FlagOf
<1>2. \A c : call'[c].pc \in Waiting /\ Flagged(c)' <=> Holds(c, call'[c])
  BY <1>1 DEF Holds
<1> QED BY <1>2 DEF TypeOK, Flags

\* A call's step leaves the other calls what they are about; the call itself is
\* answered and lowers its flag, or goes on with the same purpose.
Kept(k, n) == n.op = k.op /\ n.file = k.file /\ n.base = k.base
Moved(c) ==
  /\ call' \in [Calls -> CallRecords]
  /\ \A d \in Calls : d # c => Same(call[d], call'[d])
  /\ \/ call'[c].pc \in Answers /\ busy' = (busy /\ ~FlagOf(c, call[c]))
     \/ call'[c].pc \in Waiting /\ busy' = busy /\ Kept(call[c], call'[c])

\* A call that stays the same holds the flag as before.
LEMMA SameHolds ==
  ASSUME NEW c, NEW k, NEW n, Same(k, n)
  PROVE  Holds(c, n) <=> Holds(c, k)
BY DEF Same, Holds, FlagOf, ByCommand

\* A call's step keeps the flag true to its holder.
LEMMA FlagsMoved ==
  ASSUME Flags, NEW c \in Calls, call[c].pc \in Waiting, Moved(c)
  PROVE  Flags'
<1> DEFINE b == busy
           u == busy'
           H(d) == Holds(d, call[d])
           N(d) == Holds(d, call'[d])
<1>1. \A d \in Calls : d # c => (N(d) <=> H(d))
  BY SameHolds DEF Moved
<1>2. H(c) <=> FlagOf(c, call[c])
  BY DEF Holds
<1>3. \/ ~N(c) /\ u = (b /\ ~H(c))
      \/ (N(c) <=> H(c)) /\ u = b
  <2>1. CASE call'[c].pc \in Answers /\ busy' = (busy /\ ~FlagOf(c, call[c]))
    <3>1. ~N(c)
      BY <2>1, WaitingIsNoAnswer DEF Holds
    <3> QED BY <2>1, <3>1, <1>2
  <2>2. CASE call'[c].pc \in Waiting /\ busy' = busy /\ Kept(call[c], call'[c])
    <3>1. FlagOf(c, call'[c]) <=> FlagOf(c, call[c])
      BY <2>2 DEF Kept, FlagOf, ByCommand
    <3> QED BY <2>2, <3>1 DEF Holds
  <2> QED BY <2>1, <2>2 DEF Moved
<1>4. b = (\E d \in Calls : H(d))
  BY DEF Flags
<1>5. \A d, e \in Calls : H(d) /\ H(e) => d = e
  BY DEF Flags
<1>6. u = (\E d \in Calls : N(d)) /\ \A d, e \in Calls : N(d) /\ N(e) => d = e
  <2> HIDE DEF b, u, H, N
  <2> QED BY <1>1, <1>3, <1>4, <1>5
<1> QED BY <1>6 DEF Flags

\* An answer is a move.
LEMMA AnswerMoves ==
  ASSUME call \in [Calls -> CallRecords], NEW c \in Calls, NEW a \in Answers, Answer(c, a)
  PROVE  /\ Moved(c) /\ call'[c] = [NoCall EXCEPT !.pc = a] /\ call'[c].pc = a
         /\ \A d \in Calls : d # c => call'[d] = call[d]
<1> DEFINE n == [NoCall EXCEPT !.pc = a]
<1>1. Turn(c, n) /\ busy' = (busy /\ ~Flagged(c))
  BY Answering
<1>2. n \in CallRecords /\ n.pc = a
  BY Answered
<1> HIDE DEF n
<1>3. /\ call' \in [Calls -> CallRecords] /\ call'[c] = n
      /\ \A d \in Calls : d # c => call'[d] = call[d]
  BY <1>1, <1>2, Turning
<1>4. busy' = (busy /\ ~FlagOf(c, call[c]))
  BY <1>1, AsRecord
<1>5. Moved(c)
  BY <1>2, <1>3, <1>4 DEF Moved, Same
<1> QED BY <1>2, <1>3, <1>5 DEF n

\* A call that turns into one of the same purpose, at another step, moves.
LEMMA TurnMoves ==
  ASSUME call \in [Calls -> CallRecords], NEW c \in Calls, NEW n, n \in CallRecords,
         Turn(c, n), n.pc \in Waiting, Kept(call[c], n), busy' = busy
  PROVE  /\ Moved(c) /\ call'[c] = n
         /\ \A d \in Calls : d # c => call'[d] = call[d]
<1>1. /\ call' \in [Calls -> CallRecords] /\ call'[c] = n
      /\ \A d \in Calls : d # c => call'[d] = call[d]
  BY Turning
<1> QED BY <1>1 DEF Moved, Same

\* Going on is a move.
LEMMA GoMoves ==
  ASSUME call \in [Calls -> CallRecords], NEW c \in Calls, NEW s \in Waiting, Go(c, s)
  PROVE  /\ Moved(c) /\ call'[c] = [call[c] EXCEPT !.pc = s]
         /\ \A d \in Calls : d # c => call'[d] = call[d]
<1> DEFINE n == [call[c] EXCEPT !.pc = s]
<1>1. Turn(c, n) /\ busy' = busy
  BY Going
<1>2. n \in CallRecords /\ n.pc = s /\ Kept(call[c], n)
  BY GoneOn DEF Kept
<1> HIDE DEF n
<1>3. /\ Moved(c) /\ call'[c] = n
      /\ \A d \in Calls : d # c => call'[d] = call[d]
  BY <1>1, <1>2, TurnMoves
<1> QED BY <1>3 DEF n

-----------------------------------------------------------------------------
(* What the steps of a call come to.                                       *)

Steady(c) ==
  file' = file /\ apart' = apart /\ \A d \in Calls : d # c => call'[d] = call[d]

\* The call is answered.
Stops(c) ==
  LET k == call[c]
      x == file[k.file]
      n == call'[c]
  IN /\ Steady(c)
     /\ n.pc \in {"failed", "unsure", "restored", "done"}
     /\ n.pc = "failed" =>
          \/ k.pc = "backup"
          \/ k.pc \in {"check", "write", "rename"} /\ ~k.restoring
          \/ k.pc = "settle" /\ x = k.base
     /\ n.pc = "restored" => k.pc = "verify" /\ k.restoring /\ x = k.next
     /\ n.pc = "done" =>
          \/ /\ k.pc = "verify" /\ ~k.restoring
             /\ x.entry = k.next.entry \/ (k.op = "remove" /\ x = NoFile)
             /\ Unrelated(x) = Unrelated(k.snap)
          \/ k.pc = "command-verify" /\ Added(c, x)

\* The call goes on, from one look at the file to the next.
Like(k, n) ==
  /\ n.op = k.op /\ n.file = k.file /\ n.base = k.base /\ n.late = k.late
  /\ n.touched = k.touched
Proceeds(c) ==
  LET k == call[c]
      x == file[k.file]
      n == call'[c]
  IN /\ Steady(c) /\ Like(k, n)
     /\ \/ /\ k.pc = "backup" /\ n.pc \in {"check", "write"}
           /\ n.snap = k.snap /\ n.next = k.next /\ n.restoring = k.restoring
           /\ n.saved = (k.base # NoFile)
        \/ /\ k.pc = "check" /\ x = k.snap
           /\ n.pc = "write" \/ (n.pc = "command" /\ ByCommand(k))
           /\ n.snap = k.snap /\ n.next = k.next /\ n.restoring = k.restoring
           /\ n.saved = k.saved
        \/ /\ k.pc = "write" /\ x = k.snap /\ n.pc = "rename"
           /\ n.snap = k.snap /\ n.next = k.next /\ n.restoring = k.restoring
           /\ n.saved = k.saved
        \/ /\ k.pc = "command-verify" /\ n.pc = "settle"
           /\ n.snap = k.snap /\ n.next = x /\ n.restoring = k.restoring
           /\ n.saved = k.saved
        \/ /\ k.pc = "settle" /\ n.pc = "write" /\ n.restoring
           /\ n.snap = k.next /\ n.next = k.base /\ n.saved = k.saved
           /\ x = k.next /\ Unrelated(k.next) = Unrelated(k.base)

\* The call replaces the file, or its command may have changed it; the others are told.
Changes(c, x) ==
  LET f == call[c].file
  IN /\ file' = [file EXCEPT ![f] = x] /\ x \in Versions
     /\ \A d \in Calls : d # c =>
          /\ Same(call[d], call'[d])
          /\ call'[d].late =
               (call[d].late \/ (call[d].file = f /\ call[d].pc = "rename"))
Replaced(c) ==
  LET k == call[c]
      n == call'[c]
  IN /\ Changes(c, k.next)
     /\ apart' = IF c = Hook THEN apart \cup {k.file} ELSE apart \ {k.file}
     /\ k.pc = "rename"
     /\ \/ k.file = "codex" /\ n.pc = "done"
        \/ /\ k.file = "claude" /\ n.pc = "verify" /\ n.touched
           /\ n.op = k.op /\ n.file = k.file /\ n.base = k.base
           /\ n.saved = k.saved /\ n.late = k.late /\ n.snap = k.snap
           /\ n.next = k.next /\ n.restoring = k.restoring
Commanded(c) ==
  LET k == call[c]
      n == call'[c]
  IN \E x \in CommandLeaves(file[k.file], LaunchOf(c)) :
       /\ file' = [file EXCEPT !["claude"] = x] /\ x \in Versions
       /\ \A d \in Calls : d # c =>
            /\ Same(call[d], call'[d])
            /\ call'[d].late =
                 (call[d].late \/ (call[d].file = "claude" /\ call[d].pc = "rename"))
       /\ apart' = apart \ {"claude"}
       /\ k.pc = "command" /\ n.pc = "command-verify"
       /\ n.op = k.op /\ n.file = k.file /\ n.base = k.base
       /\ n.saved = k.saved /\ n.late = k.late /\ n.snap = k.snap
       /\ n.next = k.next /\ n.restoring = k.restoring

Course(c) == Stops(c) \/ Proceeds(c) \/ Replaced(c) \/ Commanded(c)

\* The answers a call's step can give.
LEMMA AnswersGiven ==
  {"failed", "unsure", "restored", "done"} \subseteq Answers
BY DEF Answers

\* A step's answer.
LEMMA Stopping ==
  ASSUME call \in [Calls -> CallRecords], NEW c \in Calls,
         NEW a, a \in {"failed", "unsure", "restored", "done"},
         Answer(c, a), UNCHANGED <<file, apart>>
  PROVE  Moved(c) /\ Steady(c) /\ call'[c].pc = a
<1>1. a \in Answers
  BY AnswersGiven
<1>2. /\ Moved(c) /\ call'[c].pc = a
      /\ \A d \in Calls : d # c => call'[d] = call[d]
  BY <1>1, AnswerMoves
<1> QED BY <1>2 DEF Steady

\* A step's going on.
LEMMA Proceeding ==
  ASSUME call \in [Calls -> CallRecords], NEW c \in Calls,
         NEW s, s \in Waiting, Go(c, s), UNCHANGED <<file, apart>>
  PROVE  /\ Moved(c) /\ Steady(c) /\ Like(call[c], call'[c]) /\ call'[c].pc = s
         /\ call'[c].snap = call[c].snap /\ call'[c].next = call[c].next
         /\ call'[c].restoring = call[c].restoring /\ call'[c].saved = call[c].saved
<1> DEFINE k == call[c]
           n == [k EXCEPT !.pc = s]
<1>1. /\ Moved(c) /\ call'[c] = n
      /\ \A d \in Calls : d # c => call'[d] = call[d]
  BY GoMoves
<1>2. k \in CallRecords
  OBVIOUS
<1>3. /\ n.pc = s /\ n.op = k.op /\ n.file = k.file /\ n.base = k.base
      /\ n.saved = k.saved /\ n.snap = k.snap /\ n.next = k.next
      /\ n.restoring = k.restoring /\ n.late = k.late /\ n.touched = k.touched
  <2> HIDE DEF k
  <2> QED BY <1>2, GoneOn
<1> HIDE DEF n, k
<1>4. Like(k, n)
  BY <1>3 DEF Like
<1> QED BY <1>1, <1>3, <1>4 DEF Steady, k

\* What the claude command leaves behind is a version of the file.
LEMMA LeavesVersions ==
  ASSUME NEW x, x \in Versions, NEW l, l \in Launches, NEW y, y \in CommandLeaves(x, l)
  PROVE  y \in Versions
<1>1. /\ x.settings \in 0 .. MaxEdits + 1 /\ x.bootstrap \in BOOLEAN
      /\ MaxEdits + 1 \in 0 .. MaxEdits + 1
  BY VersionParts, ClientConfigAssumption
<1>2. CASE y = x
  BY <1>2
<1>3. CASE \E e \in {"none", l}, s \in {x.settings, MaxEdits + 1}, b \in {x.bootstrap, TRUE} :
             y = [entry |-> e, settings |-> s, bootstrap |-> b, rewritten |-> TRUE]
  <2>1. PICK e \in {"none", l}, s \in {x.settings, MaxEdits + 1}, b \in {x.bootstrap, TRUE} :
             y = [entry |-> e, settings |-> s, bootstrap |-> b, rewritten |-> TRUE]
    BY <1>3
  <2>2. e \in Entries /\ s \in 0 .. MaxEdits + 1 /\ b \in BOOLEAN
    BY <1>1 DEF Entries
  <2> QED BY <2>1, <2>2 DEF Versions, Contents
<1> QED BY <1>2, <1>3 DEF CommandLeaves

\* A call's record is one, and its file holds a version.
LEMMA CallAndFile ==
  ASSUME call \in [Calls -> CallRecords], file \in [Files -> Versions], NEW c \in Calls
  PROVE  /\ call[c] \in CallRecords /\ FileOf(c) \in Versions
         /\ call[c].base \in Versions /\ call[c].next \in Versions
         /\ FileOf(c) = file[call[c].file] /\ call[c].file \in Files
<1>1. call[c] \in CallRecords
  OBVIOUS
<1> QED BY <1>1, CallParts DEF FileOf

\* A step that replaces nothing and answers, or goes on.
LEMMA StopOrGo ==
  ASSUME call \in [Calls -> CallRecords], file \in [Files -> Versions], NEW c \in Calls,
         call[c].restoring => call[c].pc \in {"write", "rename", "verify"},
         NoCommand(c) \/ BackUp(c) \/ Fails(c) \/ Check(c) \/ Write(c) \/ Verify(c)
  PROVE  /\ Course(c) /\ Moved(c) /\ call[c].pc \in Waiting
         /\ UNCHANGED <<hook, served, edits>>
<1>1. CASE NoCommand(c)
  <2>1. /\ call[c].pc = "backup" /\ Answer(c, "failed")
        /\ UNCHANGED <<file, apart, hook, served, edits>>
    BY <1>1 DEF NoCommand, At
  <2>2. Moved(c) /\ Steady(c) /\ call'[c].pc = "failed"
    BY <2>1, Stopping
  <2> QED BY <2>1, <2>2 DEF Course, Stops, Waiting
<1>2. CASE BackUp(c)
  <2>1. PICK n \in CallRecords :
           /\ Turn(c, n)
           /\ call[c].pc = "backup"
           /\ n.pc = IF call[c].file = "claude" THEN "check" ELSE "write"
           /\ n.saved = (call[c].base # NoFile)
           /\ n.op = call[c].op /\ n.file = call[c].file /\ n.base = call[c].base
           /\ n.snap = call[c].snap /\ n.next = call[c].next
           /\ n.restoring = call[c].restoring /\ n.late = call[c].late
           /\ n.touched = call[c].touched
    BY <1>2, BackingUp
  <2>2. UNCHANGED <<file, busy, apart, hook, served, edits>>
    BY <1>2 DEF BackUp
  <2>3. n.pc \in {"check", "write"} /\ n.pc \in Waiting /\ call[c].pc \in Waiting
    BY <2>1 DEF Waiting
  <2>4. Kept(call[c], n) /\ Like(call[c], n)
    BY <2>1 DEF Kept, Like
  <2>5. /\ Moved(c) /\ call'[c] = n
        /\ \A d \in Calls : d # c => call'[d] = call[d]
    BY <2>1, <2>2, <2>3, <2>4, TurnMoves
  <2>6. Steady(c)
    BY <2>2, <2>5 DEF Steady
  <2>7. Proceeds(c)
    BY <2>1, <2>3, <2>4, <2>5, <2>6 DEF Proceeds
  <2> QED BY <2>2, <2>3, <2>5, <2>7 DEF Course
<1>3. CASE Fails(c)
  <2>1. /\ call[c].pc \in {"backup", "check", "write", "rename"} /\ ~call[c].restoring
        /\ Answer(c, "failed") /\ UNCHANGED <<file, apart, hook, served, edits>>
    BY <1>3 DEF Fails
  <2>2. Moved(c) /\ Steady(c) /\ call'[c].pc = "failed"
    BY <2>1, Stopping
  <2> QED BY <2>1, <2>2 DEF Course, Stops, Waiting
<1>4. CASE Check(c) /\ ~Matches(c)
  <2>1. /\ call[c].pc = "check" /\ Answer(c, "failed") /\ ~call[c].restoring
        /\ UNCHANGED <<file, apart, hook, served, edits>>
    BY <1>4 DEF Check, At
  <2>2. Moved(c) /\ Steady(c) /\ call'[c].pc = "failed"
    BY <2>1, Stopping
  <2> QED BY <1>4, <2>1, <2>2 DEF Course, Stops, Waiting
<1>5. CASE Check(c) /\ Matches(c)
  <2> DEFINE s == IF UsesCommand(c) THEN "command" ELSE "write"
  <2>1. /\ call[c].pc = "check" /\ Go(c, s)
        /\ UNCHANGED <<file, apart, hook, served, edits>>
    BY <1>5 DEF Check, At
  <2>2. s \in Waiting /\ (s = "write" \/ (s = "command" /\ ByCommand(call[c])))
    BY AsRecord DEF Waiting
  <2> HIDE DEF s
  <2>3. /\ Moved(c) /\ Steady(c) /\ Like(call[c], call'[c]) /\ call'[c].pc = s
        /\ call'[c].snap = call[c].snap /\ call'[c].next = call[c].next
        /\ call'[c].restoring = call[c].restoring /\ call'[c].saved = call[c].saved
    BY <2>1, <2>2, Proceeding
  <2>4. file[call[c].file] = call[c].snap
    BY <1>5, AsRecord
  <2>5. Proceeds(c)
    BY <2>1, <2>2, <2>3, <2>4 DEF Proceeds
  <2> QED BY <2>1, <2>3, <2>5 DEF Course, Waiting
<1>6. CASE Write(c) /\ Matches(c)
  <2>1. /\ call[c].pc = "write" /\ Go(c, "rename")
        /\ UNCHANGED <<file, apart, hook, served, edits>>
    BY <1>6 DEF Write, At
  <2>2. "rename" \in Waiting /\ "write" \in Waiting
    BY DEF Waiting
  <2>3. /\ Moved(c) /\ Steady(c) /\ Like(call[c], call'[c]) /\ call'[c].pc = "rename"
        /\ call'[c].snap = call[c].snap /\ call'[c].next = call[c].next
        /\ call'[c].restoring = call[c].restoring /\ call'[c].saved = call[c].saved
    BY <2>1, <2>2, Proceeding
  <2>4. file[call[c].file] = call[c].snap
    BY <1>6, AsRecord
  <2>5. Proceeds(c)
    BY <2>1, <2>3, <2>4 DEF Proceeds
  <2> QED BY <2>1, <2>2, <2>3, <2>5 DEF Course
<1>7. CASE Write(c) /\ ~Matches(c)
  <2> DEFINE a == IF call[c].restoring THEN "unsure" ELSE "failed"
  <2>1. /\ call[c].pc = "write" /\ Answer(c, a)
        /\ UNCHANGED <<file, apart, hook, served, edits>>
    BY <1>7 DEF Write, At
  <2>2. a \in {"unsure", "failed"} /\ (a = "failed" => ~call[c].restoring)
    OBVIOUS
  <2> HIDE DEF a
  <2>3. Moved(c) /\ Steady(c) /\ call'[c].pc = a
    BY <2>1, <2>2, Stopping
  <2>4. Stops(c)
    BY <2>1, <2>2, <2>3 DEF Stops
  <2> QED BY <2>1, <2>3, <2>4 DEF Course, Waiting
<1>8. CASE Verify(c)
  <2> DEFINE k == call[c]
             x == file[k.file]
             good == IF k.restoring THEN x = k.next
                     ELSE /\ x.entry = k.next.entry \/ (k.op = "remove" /\ x = NoFile)
                          /\ Unrelated(x) = Unrelated(k.snap)
             a == IF ~good THEN "unsure" ELSE IF k.restoring THEN "restored" ELSE "done"
  <2>1. /\ k.pc = "verify" /\ Answer(c, a)
        /\ UNCHANGED <<file, apart, hook, served, edits>>
    BY <1>8 DEF Verify, At, FileOf
  <2>2. /\ a \in {"unsure", "restored", "done"}
        /\ a = "restored" => k.restoring /\ x = k.next
        /\ a = "done" => /\ ~k.restoring
                         /\ x.entry = k.next.entry \/ (k.op = "remove" /\ x = NoFile)
                         /\ Unrelated(x) = Unrelated(k.snap)
    <3> HIDE DEF k, x
    <3> QED OBVIOUS
  <2> HIDE DEF a, good
  <2>3. Moved(c) /\ Steady(c) /\ call'[c].pc = a
    BY <2>1, <2>2, Stopping
  <2>4. Stops(c)
    BY <2>1, <2>2, <2>3 DEF Stops
  <2> QED BY <2>1, <2>3, <2>4 DEF Course, Waiting
<1>9. Check(c) => (Check(c) /\ Matches(c)) \/ (Check(c) /\ ~Matches(c))
  OBVIOUS
<1>10. Write(c) => (Write(c) /\ Matches(c)) \/ (Write(c) /\ ~Matches(c))
  OBVIOUS
<1> QED BY <1>1, <1>2, <1>3, <1>4, <1>5, <1>6, <1>7, <1>8, <1>9, <1>10

\* A step that replaces the file.
LEMMA RenameIs ==
  ASSUME call \in [Calls -> CallRecords], file \in [Files -> Versions], busy \in BOOLEAN,
         NEW c \in Calls, Rename(c)
  PROVE  /\ Course(c) /\ Moved(c) /\ call[c].pc \in Waiting
         /\ UNCHANGED <<hook, served, edits>>
<1> DEFINE k == call[c]
           f == k.file
           m == [NoCall EXCEPT !.pc = "done"]
           t == [k EXCEPT !.pc = "verify", !.touched = TRUE]
           n == IF f = "codex" THEN m ELSE t
<1>1. /\ k.pc = "rename" /\ file' = [file EXCEPT ![f] = k.next]
      /\ call' = [Overtaken(f) EXCEPT ![c] = n]
      /\ apart' = IF c = Hook THEN apart \cup {f} ELSE apart \ {f}
      /\ UNCHANGED <<busy, hook, served, edits>>
  BY DEF Rename, At
<1>2. k \in CallRecords /\ f \in Files /\ k.next \in Versions
  BY CallAndFile
<1>3. m \in CallRecords /\ m.pc = "done"
  BY Answered, AnswersGiven
<1>4. /\ t \in CallRecords /\ t.pc = "verify" /\ t.touched
      /\ t.op = k.op /\ t.file = k.file /\ t.base = k.base
      /\ t.saved = k.saved /\ t.late = k.late /\ t.snap = k.snap
      /\ t.next = k.next /\ t.restoring = k.restoring
  <2>1. "verify" \in Waiting
    BY DEF Waiting
  <2>2. k \in CallRecords
    BY <1>2
  <2> HIDE DEF k
  <2> QED BY <2>1, <2>2 DEF CallRecords
<1> HIDE DEF m, t
<1>5. n \in CallRecords
  BY <1>3, <1>4
<1>6. /\ call' \in [Calls -> CallRecords] /\ call'[c] = n
      /\ \A d \in Calls : d # c =>
           /\ Same(call[d], call'[d])
           /\ call'[d].late =
                (call[d].late \/ (call[d].file = f /\ call[d].pc = "rename"))
  <2> HIDE DEF n, f, k
  <2>1. call' = [Overtaken(f) EXCEPT ![c] = n]
    BY <1>1
  <2>2. f \in Files
    BY <1>2
  <2> QED BY <1>5, <2>1, <2>2, Overtaking
<1>7. Changes(c, k.next)
  BY <1>1, <1>2, <1>6 DEF Changes
<1>8. CASE f = "codex"
  <2>1. call'[c].pc = "done" /\ "done" \in Answers
    BY <1>3, <1>6, <1>8, AnswersGiven
  <2>2. busy' = (busy /\ ~FlagOf(c, k))
    <3>1. ~FlagOf(c, k)
      BY <1>8 DEF FlagOf
    <3>2. busy' = busy
      BY <1>1
    <3> DEFINE fl == FlagOf(c, k)
    <3> HIDE DEF fl
    <3> QED BY <3>1, <3>2 DEF fl
  <2>3. Moved(c)
    BY <1>6, <2>1, <2>2 DEF Moved
  <2>4. Replaced(c)
    BY <1>1, <1>7, <1>8, <2>1 DEF Replaced
  <2> QED BY <1>1, <2>3, <2>4 DEF Course, Waiting
<1>9. CASE f # "codex"
  <2>1. f = "claude" /\ call'[c] = t
    BY <1>2, <1>6, <1>9 DEF Files
  <2>2. "verify" \in Waiting /\ "rename" \in Waiting
    BY DEF Waiting
  <2>3. Moved(c)
    BY <1>1, <1>4, <1>6, <2>1, <2>2 DEF Moved, Kept
  <2>4. Replaced(c)
    BY <1>1, <1>4, <1>7, <2>1 DEF Replaced
  <2> QED BY <1>1, <2>2, <2>3, <2>4 DEF Course
<1> QED BY <1>8, <1>9

\* What an application runs is a launch.
LEMMA LaunchIs == \A c : LaunchOf(c) \in Launches
BY DEF LaunchOf, Launches

\* The command's end.
LEMMA RunCommandIs ==
  ASSUME call \in [Calls -> CallRecords], file \in [Files -> Versions], NEW c \in Calls,
         RunCommand(c)
  PROVE  /\ Course(c) /\ Moved(c) /\ call[c].pc \in Waiting
         /\ UNCHANGED <<hook, served, edits>>
<1> DEFINE k == call[c]
           l == LaunchOf(c)
<1>1. PICK x \in CommandLeaves(file[k.file], l) :
        /\ k.pc = "command" /\ file' = [file EXCEPT !["claude"] = x]
        /\ call' = [Overtaken("claude") EXCEPT ![c] =
                      [k EXCEPT !.pc = "command-verify", !.touched = (x # FileOf(c))]]
        /\ apart' = apart \ {"claude"}
        /\ UNCHANGED <<busy, hook, served, edits>>
  BY DEF RunCommand, At, FileOf
<1> DEFINE b == x # FileOf(c)
           n == [k EXCEPT !.pc = "command-verify", !.touched = b]
<1>2. k \in CallRecords /\ file[k.file] \in Versions /\ "claude" \in Files
  BY CallAndFile DEF Files
<1>3. x \in Versions
  BY <1>1, <1>2, LaunchIs, LeavesVersions
<1>4. b \in BOOLEAN
  OBVIOUS
<1>5. "command-verify" \in Waiting /\ "command" \in Waiting
  BY DEF Waiting
<1>6. call' = [Overtaken("claude") EXCEPT ![c] = n]
  BY <1>1
<1>7. /\ n \in CallRecords /\ n.pc = "command-verify"
      /\ n.op = k.op /\ n.file = k.file /\ n.base = k.base
      /\ n.saved = k.saved /\ n.late = k.late /\ n.snap = k.snap
      /\ n.next = k.next /\ n.restoring = k.restoring
  <2> HIDE DEF b, k
  <2> QED BY <1>2, <1>4, <1>5 DEF CallRecords
<1> HIDE DEF n
<1>8. /\ call' \in [Calls -> CallRecords] /\ call'[c] = n
      /\ \A d \in Calls : d # c =>
           /\ Same(call[d], call'[d])
           /\ call'[d].late =
                (call[d].late \/ (call[d].file = "claude" /\ call[d].pc = "rename"))
  <2> HIDE DEF k
  <2> QED BY <1>2, <1>6, <1>7, Overtaking
<1>9. Moved(c)
  BY <1>1, <1>5, <1>7, <1>8 DEF Moved, Kept
<1>10. Commanded(c)
  BY <1>1, <1>3, <1>7, <1>8 DEF Commanded
<1> QED BY <1>1, <1>5, <1>9, <1>10 DEF Course

\* The look at what the command left, the decision and a failed restoration.
LEMMA DecisionIs ==
  ASSUME call \in [Calls -> CallRecords], file \in [Files -> Versions], NEW c \in Calls,
         VerifyCommand(c) \/ Settle(c) \/ RestoreFails(c)
  PROVE  /\ Course(c) /\ Moved(c) /\ call[c].pc \in Waiting
         /\ UNCHANGED <<hook, served, edits>>
<1> DEFINE k == call[c]
           x == file[k.file]
<1>0. /\ k \in CallRecords /\ x \in Versions /\ FileOf(c) = x /\ k.next \in Versions
      /\ {"command-verify", "settle", "write", "rename"} \subseteq Waiting
  BY CallAndFile DEF Waiting
<1>1. CASE VerifyCommand(c) /\ Added(c, x)
  <2>1. /\ k.pc = "command-verify" /\ Answer(c, "done")
        /\ UNCHANGED <<file, apart, hook, served, edits>>
    BY <1>0, <1>1 DEF VerifyCommand, At
  <2>2. Moved(c) /\ Steady(c) /\ call'[c].pc = "done"
    BY <2>1, Stopping
  <2>3. Stops(c)
    BY <1>1, <2>1, <2>2 DEF Stops
  <2> QED BY <1>0, <2>1, <2>2, <2>3 DEF Course
<1>2. CASE VerifyCommand(c) /\ ~Added(c, x)
  <2>1. /\ k.pc = "command-verify"
        /\ SettlingAs(c, x)
        /\ UNCHANGED <<busy, file, apart, hook, served, edits>>
    BY <1>0, <1>2 DEF VerifyCommand, At, SettlingAs
  <2>2. PICK n \in CallRecords :
           /\ Turn(c, n)
           /\ n.pc = "settle" /\ n.next = x
           /\ n.op = k.op /\ n.file = k.file /\ n.base = k.base
           /\ n.saved = k.saved /\ n.late = k.late
           /\ n.snap = k.snap /\ n.restoring = k.restoring
           /\ n.touched = k.touched
    <3> HIDE DEF x
    <3> QED BY <1>0, <2>1, Settling
  <2>3. Kept(k, n) /\ Like(k, n)
    BY <2>2 DEF Kept, Like
  <2>4. /\ Moved(c) /\ call'[c] = n
        /\ \A d \in Calls : d # c => call'[d] = call[d]
    BY <1>0, <2>1, <2>2, <2>3, TurnMoves
  <2>5. Steady(c)
    BY <2>1, <2>4 DEF Steady
  <2>6. Proceeds(c)
    BY <2>1, <2>2, <2>3, <2>4, <2>5 DEF Proceeds
  <2> QED BY <1>0, <2>1, <2>4, <2>6 DEF Course
<1>3. CASE Settle(c) /\ x = k.base
  <2>1. /\ k.pc = "settle" /\ Answer(c, "failed")
        /\ UNCHANGED <<file, apart, hook, served, edits>>
    BY <1>0, <1>3 DEF Settle, At
  <2>2. Moved(c) /\ Steady(c) /\ call'[c].pc = "failed"
    BY <2>1, Stopping
  <2>3. Stops(c)
    BY <1>3, <2>1, <2>2 DEF Stops
  <2> QED BY <1>0, <2>1, <2>2, <2>3 DEF Course
<1>4. CASE /\ Settle(c) /\ x # k.base
           /\ Status("claude", k.next, LaunchOf(c)) = "absent"
           /\ Unrelated(k.next) = Unrelated(k.base)
           /\ x = k.next
  <2>1. /\ k.pc = "settle"
        /\ RestoringAs(c, k.next)
        /\ UNCHANGED <<busy, file, apart, hook, served, edits>>
    BY <1>0, <1>4 DEF Settle, At, RestoringAs
  <2>2. PICK n \in CallRecords :
           /\ Turn(c, n)
           /\ n.pc = "write" /\ n.restoring /\ n.snap = k.next
           /\ n.next = k.base
           /\ n.op = k.op /\ n.file = k.file /\ n.base = k.base
           /\ n.saved = k.saved /\ n.late = k.late
           /\ n.touched = k.touched
    BY <1>0, <2>1, Restoring
  <2>3. Kept(k, n) /\ Like(k, n)
    BY <2>2 DEF Kept, Like
  <2>4. /\ Moved(c) /\ call'[c] = n
        /\ \A d \in Calls : d # c => call'[d] = call[d]
    BY <1>0, <2>1, <2>2, <2>3, TurnMoves
  <2>5. Steady(c)
    BY <2>1, <2>4 DEF Steady
  <2>6. Proceeds(c)
    BY <1>4, <2>1, <2>2, <2>3, <2>4, <2>5 DEF Proceeds
  <2> QED BY <1>0, <2>1, <2>4, <2>6 DEF Course
<1>5. CASE /\ Settle(c) /\ x # k.base
           /\ ~(/\ Status("claude", k.next, LaunchOf(c)) = "absent"
                /\ Unrelated(k.next) = Unrelated(k.base)
                /\ x = k.next)
  <2>1. /\ k.pc = "settle" /\ Answer(c, "unsure")
        /\ UNCHANGED <<file, apart, hook, served, edits>>
    BY <1>0, <1>5 DEF Settle, At
  <2>2. Moved(c) /\ Steady(c) /\ call'[c].pc = "unsure"
    BY <2>1, Stopping
  <2>3. Stops(c)
    BY <2>1, <2>2 DEF Stops
  <2> QED BY <1>0, <2>1, <2>2, <2>3 DEF Course
<1>6. CASE RestoreFails(c)
  <2>1. /\ k.pc \in {"write", "rename"} /\ Answer(c, "unsure")
        /\ UNCHANGED <<file, apart, hook, served, edits>>
    BY <1>6 DEF RestoreFails, At
  <2>2. Moved(c) /\ Steady(c) /\ call'[c].pc = "unsure"
    BY <2>1, Stopping
  <2>3. Stops(c)
    BY <2>1, <2>2 DEF Stops
  <2> QED BY <1>0, <2>1, <2>2, <2>3 DEF Course
<1> HIDE DEF k, x
<1> QED BY <1>1, <1>2, <1>3, <1>4, <1>5, <1>6

\* Every step of a call is one of the four courses.
LEMMA CourseTaken ==
  ASSUME call \in [Calls -> CallRecords], file \in [Files -> Versions], busy \in BOOLEAN,
         NEW c \in Calls,
         call[c].restoring => call[c].pc \in {"write", "rename", "verify"},
         CallStep(c) \/ CommandStep(c)
  PROVE  /\ Course(c) /\ Moved(c) /\ call[c].pc \in Waiting
         /\ UNCHANGED <<hook, served, edits>>
<1>1. \/ NoCommand(c) \/ BackUp(c) \/ Fails(c) \/ Check(c) \/ Write(c) \/ Verify(c)
      \/ Rename(c) \/ RunCommand(c) \/ VerifyCommand(c) \/ Settle(c) \/ RestoreFails(c)
  BY DEF CallStep, CommandStep
<1>2. CASE NoCommand(c) \/ BackUp(c) \/ Fails(c) \/ Check(c) \/ Write(c) \/ Verify(c)
  BY <1>2, StopOrGo
<1>3. CASE VerifyCommand(c) \/ Settle(c) \/ RestoreFails(c)
  BY <1>3, DecisionIs
<1> QED BY <1>1, <1>2, <1>3, RenameIs, RunCommandIs

\* The files and what is apart keep their types.
LEMMA CourseTypes ==
  ASSUME file \in [Files -> Versions], call \in [Calls -> CallRecords], apart \subseteq Files,
         NEW c \in Calls, Course(c)
  PROVE  file' \in [Files -> Versions] /\ apart' \subseteq Files
<1>1. call[c].file \in Files
  BY CallAndFile
<1>2. CASE Stops(c) \/ Proceeds(c)
  BY <1>2 DEF Stops, Proceeds, Steady
<1>3. CASE Replaced(c)
  BY <1>1, <1>3 DEF Replaced, Changes
<1>4. CASE Commanded(c)
  BY <1>4 DEF Commanded
<1> QED BY <1>2, <1>3, <1>4 DEF Course

-----------------------------------------------------------------------------
(* Type correctness, and the flag.                                         *)

HookTypes ==
  [event : {"none"} \cup Events, stage : {"start", "shortcut", "quit"} \cup Files,
   tried : SUBSET (Files \cup {"shortcut"}), failed : SUBSET (Files \cup {"shortcut"})]

\* A version whose entry and settings another wrote is one.
LEMMA EditedVersion ==
  ASSUME NEW x, x \in Versions, NEW e, e \in Entries, NEW s, s \in 0 .. MaxEdits + 1
  PROVE  [x EXCEPT !.entry = e, !.settings = s] \in Versions
<1> DEFINE y == [x EXCEPT !.entry = e, !.settings = s]
<1>1. CASE x = NoFile
  <2>1. y = [NoFile EXCEPT !.entry = e, !.settings = s]
    BY <1>1
  <2>2. [NoFile EXCEPT !.entry = e, !.settings = s] \in Contents
    BY DEF NoFile, Contents
  <2> QED BY <2>1, <2>2 DEF Versions
<1>2. CASE x \in Contents
  BY <1>2 DEF Versions, Contents
<1> QED BY <1>1, <1>2 DEF Versions

\* A step is one of a call at work.
LEMMA StepsWork ==
  ASSUME NEW c, CallStep(c) \/ CommandStep(c)
  PROVE  call[c].pc \in Waiting
BY DEF CallStep, CommandStep, NoCommand, BackUp, Fails, Check, Write, Rename, Verify,
       RunCommand, VerifyCommand, Settle, RestoreFails, At, Waiting

\* The invariants of the calls allow their steps.
LEMMA CourseIs ==
  ASSUME TypeOK, CallInvariant, NEW c \in Calls, CallStep(c) \/ CommandStep(c)
  PROVE  /\ Course(c) /\ Moved(c) /\ call[c].pc \in Waiting
         /\ Prepared(c, call[c], file[call[c].file])
         /\ UNCHANGED <<hook, served, edits>>
<1>1. call[c].pc \in Waiting
  BY StepsWork
<1>2. Prepared(c, call[c], file[call[c].file])
  BY <1>1 DEF CallInvariant, FileOf
<1>3. call[c].restoring => call[c].pc \in {"write", "rename", "verify"}
  BY <1>2 DEF Prepared
<1>4. call \in [Calls -> CallRecords] /\ file \in [Files -> Versions] /\ busy \in BOOLEAN
  BY DEF TypeOK
<1> QED BY <1>1, <1>2, <1>3, <1>4, CourseTaken

\* A call that loads a file takes the flag only where nobody holds it.
LEMMA FlagsLoaded ==
  ASSUME Flags, NEW c \in Calls, call[c].pc = "idle",
         NEW n, Turn(c, n), n \in CallRecords, call \in [Calls -> CallRecords],
         \/ n.pc = "backup" /\ (FlagOf(c, n) => ~busy) /\ busy' = (busy \/ FlagOf(c, n))
         \/ n.pc \in {"busy", "refused", "unchanged"} /\ busy' = busy
  PROVE  Flags'
<1> DEFINE b == busy
           u == busy'
           H(d) == Holds(d, call[d])
           N(d) == Holds(d, call'[d])
           fl == FlagOf(c, n)
<1>1. call'[c] = n /\ \A d \in Calls : d # c => call'[d] = call[d]
  BY Turning
<1>2. \A d \in Calls : d # c => (N(d) <=> H(d))
  BY <1>1
<1>3. ~H(c)
  BY WaitingIsNoAnswer DEF Holds
<1>4. \/ (N(c) <=> fl) /\ (fl => ~b) /\ u = (b \/ fl)
      \/ ~N(c) /\ u = b
  <2>1. CASE n.pc = "backup" /\ (FlagOf(c, n) => ~busy) /\ busy' = (busy \/ FlagOf(c, n))
    <3>1. N(c) <=> fl
      BY <1>1, <2>1 DEF Holds, Waiting
    <3> QED BY <2>1, <3>1
  <2>2. CASE n.pc \in {"busy", "refused", "unchanged"} /\ busy' = busy
    <3>1. ~N(c)
      BY <1>1, <2>2 DEF Holds, Waiting
    <3> QED BY <2>2, <3>1
  <2> QED BY <2>1, <2>2
<1>5. b = (\E d \in Calls : H(d))
  BY DEF Flags
<1>6. \A d, e \in Calls : H(d) /\ H(e) => d = e
  BY DEF Flags
<1>7. u = (\E d \in Calls : N(d)) /\ \A d, e \in Calls : N(d) /\ N(e) => d = e
  <2> HIDE DEF b, u, H, N, fl
  <2> QED BY <1>2, <1>3, <1>4, <1>5, <1>6
<1> QED BY <1>7 DEF Flags

\* Where every holder stays one and no other becomes one, the flag is right.
LEMMA FlagsSame ==
  ASSUME Flags, busy' = busy, \A d \in Calls : Holds(d, call'[d]) <=> Holds(d, call[d])
  PROVE  Flags'
BY DEF Flags

\* The calls of the handlers and of the hook are calls.
LEMMA CallsAre ==
  Hook \in Calls /\ Handlers \subseteq Calls /\ Hook \notin Handlers
BY ClientConfigAssumption DEF Calls, Handlers, Hook

\* Where the hook's call is answered and forgotten, nobody's flag changes.
LEMMA FlagsOfHook ==
  ASSUME Flags, call \in [Calls -> CallRecords], busy' = busy, Turn(Hook, NoCall)
  PROVE  Flags' /\ call' \in [Calls -> CallRecords]
<1>0. NoCall \in CallRecords /\ NoCall.pc = "idle" /\ Hook \in Calls
  <2>1. "failed" \in {"idle"} \cup Answers
    BY AnswersGiven
  <2> QED BY <2>1, Answered, CallsAre
<1>1. /\ call' \in [Calls -> CallRecords] /\ call'[Hook] = NoCall
      /\ \A d \in Calls : d # Hook => call'[d] = call[d]
  BY <1>0, Turning
<1>2. \A k : ~Holds(Hook, k)
  BY DEF Holds, FlagOf
<1>3. \A d \in Calls : Holds(d, call'[d]) <=> Holds(d, call[d])
  BY <1>1, <1>2
<1> QED BY <1>1, <1>3, FlagsSame

\* What a call loads keeps the types and the flag.
LEMMA LoadTypes ==
  ASSUME TypeOK, NEW c \in Calls, NEW op, op \in {"apply", "refresh", "remove"},
         NEW f, f \in Files, Load(c, op, f)
  PROVE  /\ call' \in [Calls -> CallRecords] /\ Flags'
         /\ UNCHANGED <<file, hook, served, edits, apart>>
<1>0. call \in [Calls -> CallRecords] /\ file \in [Files -> Versions] /\ busy \in BOOLEAN
  BY DEF TypeOK
<1>1. PICK n \in CallRecords :
        /\ Turn(c, n) /\ call[c].pc = "idle"
        /\ \/ n.pc = "backup" /\ (FlagOf(c, n) => ~busy) /\ busy' = (busy \/ FlagOf(c, n))
           \/ n.pc \in {"busy", "refused", "unchanged"} /\ busy' = busy
  BY <1>0, LoadIs
<1>2. Flags'
  BY <1>0, <1>1, FlagsLoaded, TypeParts
<1>3. call' \in [Calls -> CallRecords]
  BY <1>0, <1>1, Turning
<1>4. UNCHANGED <<file, hook, served, edits, apart>>
  BY DEF Load
<1> QED BY <1>2, <1>3, <1>4

\* The hook's stages and records keep their types.
LEMMA StagesTyped ==
  ASSUME hook \in HookTypes, NEW f \in Files,
         HookStarts \/ HookEnds \/ HookReturns(f) \/ HookSkips(f)
  PROVE  hook' \in HookTypes
<1>1. CASE HookStarts
  <2>1. PICK e \in Events, s \in {"shortcut", "quit", "codex"} :
          hook' = [hook EXCEPT !.event = e, !.stage = s]
    BY <1>1 DEF HookStarts, Events
  <2> QED BY <2>1 DEF HookTypes, Files
<1>2. CASE HookEnds
  <2>1. PICK x \in SUBSET {"shortcut"} :
          hook' = [hook EXCEPT !.stage = "quit", !.tried = @ \cup {"shortcut"},
                               !.failed = @ \cup x]
    BY <1>2 DEF HookEnds
  <2>2. hook.tried \cup {"shortcut"} \in SUBSET (Files \cup {"shortcut"})
    BY DEF HookTypes
  <2>3. hook.failed \cup x \in SUBSET (Files \cup {"shortcut"})
    BY DEF HookTypes
  <2> QED BY <2>1, <2>2, <2>3 DEF HookTypes
<1>3. \A ok : After(f, ok) \in HookTypes
  <2> SUFFICES ASSUME NEW ok
               PROVE  After(f, ok) \in HookTypes
    OBVIOUS
  <2> DEFINE s == StageAfter(f)
             t == hook.tried \cup {f}
             x == IF ok THEN hook.failed ELSE hook.failed \cup {f}
  <2>1. After(f, ok) = [hook EXCEPT !.stage = s, !.tried = t, !.failed = x]
    BY DEF After
  <2>2. s \in {"start", "shortcut", "quit"} \cup Files
    BY DEF StageAfter, Files
  <2>3. t \in SUBSET (Files \cup {"shortcut"}) /\ x \in SUBSET (Files \cup {"shortcut"})
    BY DEF HookTypes
  <2> HIDE DEF s, t, x
  <2> QED BY <2>1, <2>2, <2>3 DEF HookTypes
<1>4. CASE HookReturns(f)
  BY <1>3, <1>4 DEF HookReturns
<1>5. ASSUME hook' = [hook EXCEPT !.stage = "shortcut", !.failed = @ \cup Files]
      PROVE  hook' \in HookTypes
  <2>1. hook.failed \cup Files \in SUBSET (Files \cup {"shortcut"})
    BY DEF HookTypes
  <2> QED BY <1>5, <2>1 DEF HookTypes
<1>6. CASE HookSkips(f)
  BY <1>3, <1>5, <1>6 DEF HookSkips
<1> QED BY <1>1, <1>2, <1>4, <1>6

\* The initial state has the types, and nobody holds the flag.
LEMMA InitTypes == Init => TypeOK
<1> SUFFICES ASSUME Init PROVE TypeOK
  OBVIOUS
<1>1. file \in [Files -> Versions]
  <2>1. 1 \in 0 .. MaxEdits + 1 /\ NoFile \in Versions
    BY ClientConfigAssumption DEF Versions
  <2>2. \A e \in Entries : [NoFile EXCEPT !.entry = e, !.settings = 1] \in Versions
    BY <2>1, EditedVersion
  <2> DEFINE S == {NoFile} \cup {[NoFile EXCEPT !.entry = e, !.settings = 1] : e \in Entries}
  <2>3. S \subseteq Versions
    BY <2>1, <2>2
  <2>4. file \in [Files -> S]
    BY DEF Init
  <2> HIDE DEF S
  <2> QED BY <2>3, <2>4
<1>2. NoCall \in CallRecords /\ NoCall.pc = "idle"
  <2>1. "failed" \in {"idle"} \cup Answers
    BY AnswersGiven
  <2> QED BY <2>1, Answered
<1>3. call \in [Calls -> CallRecords] /\ \A c \in Calls : ~Holds(c, call[c])
  BY <1>2, WaitingIsNoAnswer DEF Init, Holds
<1>4. Flags
  BY <1>3 DEF Flags, Init
<1>5. hook \in HookTypes
  BY DEF Init, HookTypes
<1>6. served \in Files /\ apart \subseteq Files /\ edits \in 0 .. MaxEdits
  <2>1. served \in Files /\ apart = Files /\ edits = 0
    BY DEF Init
  <2> QED BY <2>1, ClientConfigAssumption
<1> QED BY <1>1, <1>3, <1>4, <1>5, <1>6, TypeParts DEF HookTypes

\* What another program writes keeps the types and the flag.
LEMMA EditTypes ==
  ASSUME TypeOK, NEW f \in Files, Edit(f)
  PROVE  TypeOK'
<1>1. /\ call \in [Calls -> CallRecords] /\ file \in [Files -> Versions] /\ Flags
      /\ hook \in HookTypes /\ served \in Files /\ apart \subseteq Files
      /\ edits \in 0 .. MaxEdits
  BY TypeParts DEF HookTypes
<1>2. /\ edits < MaxEdits /\ edits' = edits + 1 /\ call' = Overtaken(f)
      /\ apart' = apart \ {f} /\ UNCHANGED <<busy, hook, served>>
  BY DEF Edit
<1>3. edits' \in 0 .. MaxEdits /\ edits' \in 0 .. MaxEdits + 1
  BY <1>1, <1>2, ClientConfigAssumption
<1>4. file' \in [Files -> Versions]
  <2>1. file[f] \in Versions /\ NoFile \in Versions
    BY <1>1 DEF Versions
  <2>2. \A e \in Entries : [file[f] EXCEPT !.entry = e, !.settings = edits'] \in Versions
    BY <1>3, <2>1, EditedVersion
  <2>3. PICK x \in Versions : file' = [file EXCEPT ![f] = x]
    BY <2>1, <2>2 DEF Edit
  <2> QED BY <1>1, <2>3
<1>5. /\ call' \in [Calls -> CallRecords]
      /\ \A d \in Calls : Same(call[d], call'[d])
  BY <1>1, <1>2, OvertakenOnly
<1>6. Flags'
  BY <1>1, <1>2, <1>5, SameHolds, FlagsSame
<1> QED BY <1>1, <1>2, <1>3, <1>4, <1>5, <1>6, TypePartsAfter DEF HookTypes

\* The application's exit answers its calls, and the flag is gone with it.
LEMMA ExitTypes ==
  ASSUME TypeOK, Exit
  PROVE  TypeOK'
<1>1. /\ call \in [Calls -> CallRecords] /\ file \in [Files -> Versions] /\ Flags
      /\ hook \in HookTypes /\ served \in Files /\ apart \subseteq Files
      /\ edits \in 0 .. MaxEdits
  BY TypeParts DEF HookTypes
<1> DEFINE m == [NoCall EXCEPT !.pc = "killed"]
<1>2. m \in CallRecords /\ m.pc = "killed" /\ "killed" \in Answers
  <2>1. "killed" \in Answers
    BY DEF Answers
  <2> QED BY <2>1, Answered
<1>3. call' = [c \in Calls |->
        IF c # Hook /\ call[c].pc \in Waiting THEN m ELSE call[c]]
  BY DEF Exit
<1> HIDE DEF m
<1>4. call' \in [Calls -> CallRecords]
  BY <1>1, <1>2, <1>3
<1>5. \A c \in Calls : ~Holds(c, call'[c])
  <2> SUFFICES ASSUME NEW c \in Calls, Holds(c, call'[c])
               PROVE  FALSE
    OBVIOUS
  <2>1. c # Hook /\ call'[c].pc \in Waiting
    BY DEF Holds, FlagOf
  <2> QED BY <1>2, <1>3, <2>1, WaitingIsNoAnswer
<1>6. ~busy' /\ busy' = FALSE /\ UNCHANGED <<file, hook, served, edits, apart>>
  BY DEF Exit
<1>7. Flags'
  BY <1>5, <1>6 DEF Flags
<1> QED BY <1>1, <1>4, <1>6, <1>7, TypePartsAfter DEF HookTypes

\* Every step keeps the types and the flag.
LEMMA TypeStep ==
  ASSUME TypeOK, CallInvariant, [Next]_vars
  PROVE  TypeOK'
<1>1. /\ call \in [Calls -> CallRecords] /\ file \in [Files -> Versions] /\ Flags
      /\ hook \in HookTypes /\ served \in Files /\ apart \subseteq Files
      /\ edits \in 0 .. MaxEdits
  BY TypeParts DEF HookTypes
<1>2. ASSUME NEW c \in Calls, NEW op, op \in {"apply", "refresh", "remove"},
             NEW f, f \in Files, Load(c, op, f)
      PROVE  TypeOK'
  BY <1>1, <1>2, LoadTypes, TypePartsAfter DEF HookTypes
<1>3. ASSUME NEW c \in Calls, CallStep(c) \/ CommandStep(c)
      PROVE  TypeOK'
  <2>1. /\ Course(c) /\ Moved(c) /\ call[c].pc \in Waiting
        /\ UNCHANGED <<hook, served, edits>>
    BY <1>3, CourseIs
  <2>2. Flags' /\ call' \in [Calls -> CallRecords]
    BY <1>1, <2>1, FlagsMoved DEF Moved
  <2>3. file' \in [Files -> Versions] /\ apart' \subseteq Files
    BY <1>1, <2>1, CourseTypes
  <2> QED BY <1>1, <2>1, <2>2, <2>3, TypePartsAfter DEF HookTypes
<1>4. ASSUME NEW f \in Files, HookStarts \/ HookEnds \/ HookReturns(f) \/ HookSkips(f)
      PROVE  TypeOK'
  <2>1. hook' \in HookTypes
    BY <1>1, <1>4, StagesTyped
  <2>2. UNCHANGED <<file, busy, served, edits, apart>>
    BY <1>4 DEF HookStarts, HookEnds, HookReturns, HookSkips
  <2>3. call' \in [Calls -> CallRecords] /\ Flags'
    <3>1. CASE HookReturns(f)
      <4>1. Turn(Hook, NoCall)
        BY <3>1 DEF HookReturns, Turn
      <4> QED BY <1>1, <2>2, <4>1, FlagsOfHook
    <3>2. CASE HookStarts \/ HookEnds \/ HookSkips(f)
      <4>1. call' = call
        BY <3>2 DEF HookStarts, HookEnds, HookSkips
      <4> QED BY <1>1, <2>2, <4>1 DEF Flags
    <3> QED BY <1>4, <3>1, <3>2
  <2> QED BY <1>1, <2>1, <2>2, <2>3, TypePartsAfter DEF HookTypes
<1>5. CASE \E c \in Handlers, op \in {"apply", "remove"} :
             (\A d \in 1 .. c - 1 : ~At(d, "idle")) /\ Load(c, op, served)
  BY <1>1, <1>2, <1>5, CallsAre
<1>6. CASE HookStep
  <2>1. CASE \E f \in Files : HookCalls(f)
    <3>1. PICK f \in Files : Load(Hook, Operation, f)
      BY <2>1 DEF HookCalls
    <3>2. Operation \in {"apply", "refresh", "remove"}
      BY DEF Operation
    <3> QED BY <1>2, <3>1, <3>2, CallsAre
  <2>2. "codex" \in Files
    BY DEF Files
  <2> QED BY <1>4, <1>6, <2>1, <2>2 DEF HookStep
<1>7. CASE UNCHANGED vars
  <2>1. UNCHANGED <<file, call, busy, hook, served, edits, apart>>
    BY <1>7 DEF vars
  <2> QED BY <1>1, <2>1, TypePartsAfter DEF Flags, HookTypes
<1>8. CASE Next
  BY <1>3, <1>5, <1>6, <1>8, CallsAre, EditTypes, ExitTypes DEF Next
<1> QED BY <1>7, <1>8

-----------------------------------------------------------------------------
(* What each call is about to do.                                          *)

\* A call that others' steps leave alone, or tell of a change, stays prepared.
LEMMA PreparedSame ==
  ASSUME NEW c, NEW k, NEW n, NEW x, NEW y, Prepared(c, k, x), Same(k, n),
         n.pc = "rename" /\ ~n.late => ~k.late /\ y = x
  PROVE  Prepared(c, n, y)
<1>1. Wanted(c, n) = Wanted(c, k) /\ (ByCommand(n) <=> ByCommand(k))
  BY DEF Same, Wanted, ByCommand
<1> QED BY <1>1 DEF Same, Prepared

\* The same for every call in one step: a changed file's replacers are told.
LEMMA OthersPrepared ==
  ASSUME CallInvariant, NEW c, call \in [Calls -> CallRecords],
         \A d \in Calls : d # c =>
           /\ Same(call[d], call'[d])
           /\ call'[d].pc = "rename" /\ ~call'[d].late =>
                ~call[d].late /\ file'[call[d].file] = file[call[d].file]
  PROVE  \A d \in Calls : d # c /\ call'[d].pc \in Waiting =>
           Prepared(d, call'[d], file'[call'[d].file])
<1> SUFFICES ASSUME NEW d \in Calls, d # c, call'[d].pc \in Waiting
             PROVE  Prepared(d, call'[d], file'[call'[d].file])
  OBVIOUS
<1>1. Same(call[d], call'[d])
  OBVIOUS
<1>2. call[d].pc \in Waiting /\ call'[d].file = call[d].file
  BY <1>1 DEF Same
<1>3. Prepared(d, call[d], file[call[d].file])
  BY <1>2 DEF CallInvariant, FileOf
<1> DEFINE k == call[d]
           n == call'[d]
           x == file[call[d].file]
           y == file'[call'[d].file]
<1>4. n.pc = "rename" /\ ~n.late => ~k.late /\ y = x
  BY <1>2
<1>5. Prepared(d, k, x) /\ Same(k, n)
  BY <1>1, <1>3
<1> HIDE DEF k, n, x, y
<1>6. Prepared(d, n, y)
  BY <1>4, <1>5, PreparedSame
<1> QED BY <1>6 DEF n, y

\* The invariant after a step, from the step's own call and the others.
LEMMA CallsPrepared ==
  ASSUME NEW c, call'[c].pc \in Waiting => Prepared(c, call'[c], file'[call'[c].file]),
         \A d \in Calls : d # c /\ call'[d].pc \in Waiting =>
           Prepared(d, call'[d], file'[call'[d].file])
  PROVE  CallInvariant'
BY DEF CallInvariant, FileOf

\* A call that goes on is prepared for its next step.
LEMMA PreparedNext ==
  ASSUME NEW c \in Calls, Prepared(c, call[c], file[call[c].file]), Proceeds(c)
  PROVE  Prepared(c, call'[c], file[call'[c].file])
<1> DEFINE k == call[c]
           n == call'[c]
           x == file[call[c].file]
           y == file[call'[c].file]
           u == Unrelated(k.next)
           v == Unrelated(k.base)
<1>1. Prepared(c, k, x) /\ Like(k, n)
  BY DEF Proceeds
<1>2. /\ Wanted(c, n) = Wanted(c, k) /\ (ByCommand(n) <=> ByCommand(k))
      /\ y = x
  BY <1>1 DEF Like, Wanted, ByCommand
<1>3. \/ /\ k.pc = "backup" /\ n.pc \in {"check", "write"}
         /\ n.snap = k.snap /\ n.next = k.next /\ n.restoring = k.restoring
         /\ n.saved = (k.base # NoFile)
      \/ /\ k.pc = "check" /\ x = k.snap
         /\ n.pc = "write" \/ (n.pc = "command" /\ ByCommand(k))
         /\ n.snap = k.snap /\ n.next = k.next /\ n.restoring = k.restoring
         /\ n.saved = k.saved
      \/ /\ k.pc = "write" /\ x = k.snap /\ n.pc = "rename"
         /\ n.snap = k.snap /\ n.next = k.next /\ n.restoring = k.restoring
         /\ n.saved = k.saved
      \/ /\ k.pc = "command-verify" /\ n.pc = "settle"
         /\ n.snap = k.snap /\ n.next = x /\ n.restoring = k.restoring
         /\ n.saved = k.saved
      \/ /\ k.pc = "settle" /\ n.pc = "write" /\ n.restoring
         /\ n.snap = k.next /\ n.next = k.base /\ n.saved = k.saved
         /\ x = k.next /\ Unrelated(k.next) = Unrelated(k.base)
  BY DEF Proceeds
<1> HIDE DEF k, n, x, y
<1>4. ASSUME k.pc \in {"backup", "check", "write"}
      PROVE  Prepared(c, n, y)
  <2>1. ~n.restoring => ~k.restoring
    BY <1>3, <1>4
  <2>2. n.restoring => k.restoring /\ k.pc = "write"
    BY <1>1, <1>3, <1>4 DEF Prepared
  <2> QED BY <1>1, <1>2, <1>3, <1>4, <2>1, <2>2 DEF Like, Prepared, Replacing, Commanding
<1>5. ASSUME k.pc \in {"command-verify", "settle"}
      PROVE  Prepared(c, n, y)
  BY <1>1, <1>2, <1>3, <1>5 DEF Like, Prepared, Replacing, Commanding
<1>6. Prepared(c, n, y)
  BY <1>3, <1>4, <1>5
<1> QED BY <1>6 DEF n, y

\* A call that has replaced the file, or run the command, is prepared to look at it.
LEMMA PreparedLook ==
  ASSUME NEW c, NEW k, NEW x, NEW n, NEW y, Prepared(c, k, x),
         \/ k.pc = "rename" /\ n.pc = "verify"
         \/ k.pc = "command" /\ n.pc = "command-verify",
         n.op = k.op, n.file = k.file, n.base = k.base, n.saved = k.saved,
         n.snap = k.snap, n.next = k.next, n.restoring = k.restoring
  PROVE  Prepared(c, n, y)
<1>1. Wanted(c, n) = Wanted(c, k) /\ (ByCommand(n) <=> ByCommand(k))
  BY DEF Wanted, ByCommand
<1> QED BY <1>1 DEF Prepared, Replacing, Commanding

\* A call's step keeps every call prepared.
LEMMA CoursePrepared ==
  ASSUME CallInvariant, call \in [Calls -> CallRecords], file \in [Files -> Versions],
         NEW c \in Calls, Course(c), Prepared(c, call[c], file[call[c].file])
  PROVE  CallInvariant'
<1>0. call[c].file \in Files /\ \A d \in Calls : call[d].file \in Files
  BY CallAndFile
<1>1. CASE Stops(c) \/ Proceeds(c)
  <2>1. file' = file /\ \A d \in Calls : d # c => call'[d] = call[d]
    BY <1>1 DEF Stops, Proceeds, Steady
  <2>2. \A d \in Calls : d # c /\ call'[d].pc \in Waiting =>
           Prepared(d, call'[d], file'[call'[d].file])
    BY <2>1 DEF CallInvariant, FileOf
  <2>3. CASE Stops(c)
    <3>1. call'[c].pc \notin Waiting
      BY <2>3, WaitingIsNoAnswer, AnswersGiven DEF Stops
    <3> QED BY <2>2, <3>1, CallsPrepared
  <2>4. CASE Proceeds(c)
    <3>1. Prepared(c, call'[c], file'[call'[c].file])
      BY <2>1, <2>4, PreparedNext
    <3> QED BY <2>2, <3>1, CallsPrepared
  <2> QED BY <1>1, <2>3, <2>4
<1>2. CASE Replaced(c)
  <2> DEFINE f == call[c].file
             k == call[c]
             n == call'[c]
  <2>1. /\ file' = [file EXCEPT ![f] = k.next]
        /\ \A d \in Calls : d # c =>
             /\ Same(call[d], call'[d])
             /\ call'[d].late =
                  (call[d].late \/ (call[d].file = f /\ call[d].pc = "rename"))
    BY <1>2 DEF Replaced, Changes
  <2>2. \A d \in Calls : d # c =>
           /\ Same(call[d], call'[d])
           /\ call'[d].pc = "rename" /\ ~call'[d].late =>
                ~call[d].late /\ file'[call[d].file] = file[call[d].file]
    <3> SUFFICES ASSUME NEW d \in Calls, d # c, call'[d].pc = "rename", ~call'[d].late
                 PROVE  ~call[d].late /\ file'[call[d].file] = file[call[d].file]
      BY <2>1
    <3>1. call[d].pc = "rename"
      BY <2>1 DEF Same
    <3>2. ~call[d].late /\ call[d].file # f
      BY <2>1, <3>1
    <3> QED BY <1>0, <2>1, <3>2
  <2>3. \A d \in Calls : d # c /\ call'[d].pc \in Waiting =>
           Prepared(d, call'[d], file'[call'[d].file])
    <3> HIDE DEF f
    <3> QED BY <2>2, OthersPrepared
  <2>4. CASE n.pc = "done"
    <3>1. call'[c].pc \notin Waiting
      BY <2>4, WaitingIsNoAnswer, AnswersGiven
    <3> QED BY <2>3, <3>1, CallsPrepared
  <2>5. CASE n.pc # "done"
    <3>1. /\ k.pc = "rename" /\ n.pc = "verify" /\ n.op = k.op /\ n.file = k.file
          /\ n.base = k.base /\ n.saved = k.saved /\ n.snap = k.snap
          /\ n.next = k.next /\ n.restoring = k.restoring
      BY <1>2, <2>5 DEF Replaced
    <3> DEFINE y == file'[call'[c].file]
               x == file[call[c].file]
    <3>2. Prepared(c, k, x)
      OBVIOUS
    <3> HIDE DEF k, n, x, y
    <3>3. Prepared(c, n, y)
      BY <3>1, <3>2, PreparedLook
    <3> QED BY <2>3, <3>3, CallsPrepared DEF n, y
  <2> QED BY <2>4, <2>5
<1>3. CASE Commanded(c)
  <2> DEFINE k == call[c]
             n == call'[c]
  <2>1. PICK z :
        /\ file' = [file EXCEPT !["claude"] = z]
        /\ \A d \in Calls : d # c =>
             /\ Same(call[d], call'[d])
             /\ call'[d].late =
                  (call[d].late \/ (call[d].file = "claude" /\ call[d].pc = "rename"))
        /\ k.pc = "command" /\ n.pc = "command-verify"
        /\ n.op = k.op /\ n.file = k.file /\ n.base = k.base
        /\ n.saved = k.saved /\ n.late = k.late /\ n.snap = k.snap
        /\ n.next = k.next /\ n.restoring = k.restoring
    BY <1>3 DEF Commanded
  <2>2. \A d \in Calls : d # c =>
           /\ Same(call[d], call'[d])
           /\ call'[d].pc = "rename" /\ ~call'[d].late =>
                ~call[d].late /\ file'[call[d].file] = file[call[d].file]
    <3> SUFFICES ASSUME NEW d \in Calls, d # c, call'[d].pc = "rename", ~call'[d].late
                 PROVE  ~call[d].late /\ file'[call[d].file] = file[call[d].file]
      BY <2>1
    <3>1. call[d].pc = "rename"
      BY <2>1 DEF Same
    <3>2. ~call[d].late /\ call[d].file # "claude"
      BY <2>1, <3>1
    <3> QED BY <1>0, <2>1, <3>2
  <2>3. \A d \in Calls : d # c /\ call'[d].pc \in Waiting =>
           Prepared(d, call'[d], file'[call'[d].file])
    BY <2>2, OthersPrepared
  <2> DEFINE y == file'[call'[c].file]
             x == file[call[c].file]
  <2>4. Prepared(c, k, x)
    OBVIOUS
  <2>5. Prepared(c, n, y)
    <3> HIDE DEF k, n, x, y
    <3> QED BY <2>1, <2>4, PreparedLook
  <2> QED BY <2>3, <2>5, CallsPrepared
<1> QED BY <1>1, <1>2, <1>3 DEF Course

\* A call that loads a file is prepared, and disturbs no other.  Only the hook refreshes.
LEMMA LoadPrepared ==
  ASSUME TypeOK, CallInvariant, NEW c \in Calls,
         NEW op, op \in IF c = Hook THEN {"refresh", "remove"} ELSE {"apply", "remove"},
         NEW f, f \in Files, Load(c, op, f)
  PROVE  CallInvariant'
<1>0. /\ call \in [Calls -> CallRecords] /\ file \in [Files -> Versions]
      /\ busy \in BOOLEAN /\ op \in {"apply", "refresh", "remove"}
  BY DEF TypeOK
<1>1. PICK n \in CallRecords :
        /\ Turn(c, n) /\ n.op = op /\ n.file = f
        /\ \/ /\ n.pc = "backup" /\ n.base = file[f] /\ n.snap = file[f]
              /\ n.next = WithEntry(f, file[f], Wanted(c, n))
              /\ ~n.saved /\ ~n.restoring /\ ~n.late /\ ~n.touched
              /\ op # "apply" => Status(f, file[f], Wanted(c, n)) = "managed"
           \/ n.pc \in {"busy", "refused", "unchanged"}
  BY <1>0, LoadIs
<1>2. file' = file
  BY DEF Load
<1>3. call'[c] = n /\ \A d \in Calls : d # c => call'[d] = call[d]
  BY <1>0, <1>1, Turning
<1>4. \A d \in Calls : d # c /\ call'[d].pc \in Waiting =>
        Prepared(d, call'[d], file'[call'[d].file])
  BY <1>2, <1>3 DEF CallInvariant, FileOf
<1>5. CASE n.pc = "backup"
  <2>1. Prepared(c, n, file[n.file])
    BY <1>1, <1>5 DEF Prepared, Commanding
  <2> QED BY <1>2, <1>3, <1>4, <2>1, CallsPrepared
<1>6. CASE n.pc # "backup"
  <2>1. n.pc \notin Waiting
    BY <1>1, <1>6 DEF Waiting
  <2> QED BY <1>3, <1>4, <2>1, CallsPrepared
<1> QED BY <1>5, <1>6

\* What others write leaves every call prepared: a call about to replace is told.
LEMMA EditPrepared ==
  ASSUME TypeOK, CallInvariant, NEW f \in Files, Edit(f)
  PROVE  CallInvariant'
<1>0. call \in [Calls -> CallRecords] /\ file \in [Files -> Versions]
  BY DEF TypeOK
<1>1. call' = Overtaken(f) /\ \E x : file' = [file EXCEPT ![f] = x]
  BY DEF Edit
<1>2. \A d \in Calls :
        /\ Same(call[d], call'[d])
        /\ call'[d].late = (call[d].late \/ (call[d].file = f /\ call[d].pc = "rename"))
  BY <1>0, <1>1, OvertakenOnly
<1>3. \A d \in Calls : call[d].file \in Files
  BY <1>0, CallParts
<1>4. \A d \in Calls :
        /\ Same(call[d], call'[d])
        /\ call'[d].pc = "rename" /\ ~call'[d].late =>
             ~call[d].late /\ file'[call[d].file] = file[call[d].file]
  <2> SUFFICES ASSUME NEW d \in Calls, call'[d].pc = "rename", ~call'[d].late
               PROVE  ~call[d].late /\ file'[call[d].file] = file[call[d].file]
    BY <1>2
  <2>1. call[d].pc = "rename"
    BY <1>2 DEF Same
  <2>2. ~call[d].late /\ call[d].file # f
    BY <1>2, <2>1
  <2> QED BY <1>0, <1>1, <1>3, <2>2
<1> SUFFICES ASSUME NEW d \in Calls, call'[d].pc \in Waiting
             PROVE  Prepared(d, call'[d], file'[call'[d].file])
  BY DEF CallInvariant, FileOf
<1> DEFINE k == call[d]
           n == call'[d]
           x == file[call[d].file]
           y == file'[call'[d].file]
<1>5. Same(k, n)
  BY <1>2
<1>6. k.pc \in Waiting /\ n.file = k.file
  BY <1>5 DEF Same
<1>7. Prepared(d, k, x)
  BY <1>6 DEF CallInvariant, FileOf
<1>8. n.pc = "rename" /\ ~n.late => ~k.late /\ y = x
  BY <1>4, <1>6
<1> HIDE DEF k, n, x, y
<1>9. Prepared(d, n, y)
  BY <1>5, <1>7, <1>8, PreparedSame
<1> QED BY <1>9 DEF n, y

\* Where no call begins or changes, every call stays prepared.
LEMMA StillPrepared ==
  ASSUME CallInvariant, file' = file,
         \A d \in Calls : call'[d] = call[d] \/ call'[d].pc \notin Waiting
  PROVE  CallInvariant'
<1> SUFFICES ASSUME NEW d \in Calls, call'[d].pc \in Waiting
             PROVE  Prepared(d, call'[d], file'[call'[d].file])
  BY DEF CallInvariant, FileOf
<1>1. call'[d] = call[d]
  OBVIOUS
<1> QED BY <1>1 DEF CallInvariant, FileOf

\* Every step keeps every call prepared.
LEMMA CallInvariantStep ==
  ASSUME TypeOK, CallInvariant, [Next]_vars
  PROVE  CallInvariant'
<1>0. /\ call \in [Calls -> CallRecords] /\ file \in [Files -> Versions]
      /\ served \in Files
  BY DEF TypeOK
<1>1. ASSUME NEW c \in Calls, CallStep(c) \/ CommandStep(c)
      PROVE  CallInvariant'
  BY <1>0, <1>1, CourseIs, CoursePrepared
<1>2. CASE \E c \in Handlers, op \in {"apply", "remove"} :
             (\A d \in 1 .. c - 1 : ~At(d, "idle")) /\ Load(c, op, served)
  <2>1. PICK c \in Handlers, op \in {"apply", "remove"} : Load(c, op, served)
    BY <1>2
  <2>2. c \in Calls /\ c # Hook
    BY CallsAre
  <2> QED BY <1>0, <2>1, <2>2, LoadPrepared
<1>3. CASE HookStep
  <2>1. CASE \E f \in Files : HookCalls(f)
    <3>1. PICK f \in Files : Load(Hook, Operation, f)
      BY <2>1 DEF HookCalls
    <3>2. Operation \in IF Hook = Hook THEN {"refresh", "remove"} ELSE {"apply", "remove"}
      BY DEF Operation
    <3> QED BY <3>1, <3>2, CallsAre, LoadPrepared
  <2>2. CASE \E f \in Files : HookReturns(f)
    <3>1. Turn(Hook, NoCall) /\ file' = file
      BY <2>2 DEF HookReturns, Turn
    <3>2. NoCall \in CallRecords /\ NoCall.pc \notin Waiting
      <4>1. "failed" \in {"idle"} \cup Answers
        BY AnswersGiven
      <4> QED BY <4>1, Answered, WaitingIsNoAnswer
    <3>3. call'[Hook] = NoCall /\ \A d \in Calls : d # Hook => call'[d] = call[d]
      BY <1>0, <3>1, <3>2, CallsAre, Turning
    <3> QED BY <3>1, <3>2, <3>3, StillPrepared
  <2>3. CASE HookStarts \/ HookEnds \/ \E f \in Files : HookSkips(f)
    <3>1. call' = call /\ file' = file
      BY <2>3 DEF HookStarts, HookEnds, HookSkips
    <3> QED BY <3>1, StillPrepared
  <2> QED BY <1>3, <2>1, <2>2, <2>3 DEF HookStep
<1>4. CASE Exit
  <2> DEFINE m == [NoCall EXCEPT !.pc = "killed"]
  <2>1. /\ file' = file
        /\ call' = [c \in Calls |->
             IF c # Hook /\ call[c].pc \in Waiting THEN m ELSE call[c]]
    BY <1>4 DEF Exit
  <2>2. m.pc \notin Waiting
    <3>1. "killed" \in Answers
      BY DEF Answers
    <3> QED BY <3>1, Answered, WaitingIsNoAnswer
  <2> HIDE DEF m
  <2>3. \A d \in Calls : call'[d] = call[d] \/ call'[d].pc \notin Waiting
    BY <2>1, <2>2
  <2> QED BY <2>1, <2>3, StillPrepared
<1>5. CASE UNCHANGED vars
  BY <1>5, StillPrepared DEF vars
<1>6. CASE Next
  BY <1>1, <1>2, <1>3, <1>4, <1>6, CallsAre, EditPrepared DEF Next
<1> QED BY <1>5, <1>6

\* No call waits at first.
LEMMA InitCalls == Init => CallInvariant
<1>1. NoCall.pc \notin Waiting
  <2>1. "failed" \in {"idle"} \cup Answers
    BY AnswersGiven
  <2> QED BY <2>1, Answered, WaitingIsNoAnswer
<1> QED BY <1>1 DEF Init, CallInvariant

\* The configuration writers' invariant, for any number of handler calls and edits: the
\* flag of the application's Claude Code service is up exactly while one call holds it,
\* a replacement writes what the call loaded with its entry replaced, or restores what
\* it loaded, only what was there is refreshed or removed, and a file about to be
\* replaced is the one last compared, unless the call was overtaken since.
THEOREM CallsAreSafe == Spec => [](TypeOK /\ CallInvariant)
<1>1. Init => TypeOK /\ CallInvariant
  BY InitTypes, InitCalls
<1>2. TypeOK /\ CallInvariant /\ [Next]_vars => (TypeOK /\ CallInvariant)'
  BY TypeStep, CallInvariantStep
<1> QED BY <1>1, <1>2, PTL DEF Spec

-----------------------------------------------------------------------------
(* What a step does to the files, and to a call's step.                    *)

\* A file changes by a call's replacement, by the command or by another program; a
\* call's own step, or one that ends all, moves it.
LEMMA WhoActs ==
  ASSUME TypeOK, CallInvariant, Next
  PROVE  \/ \E c \in Calls :
              /\ Course(c) /\ call[c].pc \in Waiting
              /\ Prepared(c, call[c], file[call[c].file])
         \/ /\ file' = file
            /\ \A d \in Calls : call'[d].pc # call[d].pc =>
                 call'[d].pc \notin {"failed", "restored", "done"}
         \/ /\ edits' # edits
            /\ \A d \in Calls : call'[d].pc = call[d].pc
<1>0. /\ call \in [Calls -> CallRecords] /\ file \in [Files -> Versions]
      /\ served \in Files /\ edits \in 0 .. MaxEdits /\ busy \in BOOLEAN
  BY DEF TypeOK
<1> DEFINE Quiet == /\ file' = file
                    /\ \A d \in Calls : call'[d].pc # call[d].pc =>
                         call'[d].pc \notin {"failed", "restored", "done"}
<1>1. ASSUME NEW c \in Calls, NEW op, op \in {"apply", "refresh", "remove"},
             NEW f, f \in Files, Load(c, op, f)
      PROVE  Quiet
  <2>1. PICK n \in CallRecords :
          Turn(c, n) /\ n.pc \in {"backup", "busy", "refused", "unchanged"}
    BY <1>0, <1>1, LoadIs
  <2>2. call'[c] = n /\ \A d \in Calls : d # c => call'[d] = call[d]
    BY <1>0, <2>1, Turning
  <2>3. file' = file
    BY <1>1 DEF Load
  <2> QED BY <2>1, <2>2, <2>3
<1>2. CASE \E c \in Handlers, op \in {"apply", "remove"} :
             (\A d \in 1 .. c - 1 : ~At(d, "idle")) /\ Load(c, op, served)
  BY <1>0, <1>1, <1>2, CallsAre
<1>3. CASE HookStep
  <2>1. CASE \E f \in Files : HookCalls(f)
    <3>1. PICK f \in Files : Load(Hook, Operation, f)
      BY <2>1 DEF HookCalls
    <3>2. Operation \in {"apply", "refresh", "remove"}
      BY DEF Operation
    <3> QED BY <1>1, <3>1, <3>2, CallsAre
  <2>2. CASE \E f \in Files : HookReturns(f)
    <3>1. Turn(Hook, NoCall) /\ file' = file
      BY <2>2 DEF HookReturns, Turn
    <3>2. NoCall \in CallRecords /\ NoCall.pc = "idle"
      <4>1. "failed" \in {"idle"} \cup Answers
        BY AnswersGiven
      <4> QED BY <4>1, Answered
    <3>3. call'[Hook] = NoCall /\ \A d \in Calls : d # Hook => call'[d] = call[d]
      BY <1>0, <3>1, <3>2, CallsAre, Turning
    <3> QED BY <3>1, <3>2, <3>3
  <2>3. CASE HookStarts \/ HookEnds \/ \E f \in Files : HookSkips(f)
    <3>1. call' = call /\ file' = file
      BY <2>3 DEF HookStarts, HookEnds, HookSkips
    <3> QED BY <3>1
  <2> QED BY <1>3, <2>1, <2>2, <2>3 DEF HookStep
<1>4. CASE Exit
  <2> DEFINE m == [NoCall EXCEPT !.pc = "killed"]
  <2>1. /\ file' = file
        /\ call' = [c \in Calls |->
             IF c # Hook /\ call[c].pc \in Waiting THEN m ELSE call[c]]
    BY <1>4 DEF Exit
  <2>2. m.pc = "killed"
    <3>1. "killed" \in Answers
      BY DEF Answers
    <3> QED BY <3>1, Answered
  <2> HIDE DEF m
  <2> QED BY <2>1, <2>2
<1>5. CASE \E f \in Files : Edit(f)
  <2>1. PICK f \in Files : edits' = edits + 1 /\ call' = Overtaken(f)
    BY <1>5 DEF Edit
  <2>2. \A d \in Calls : Same(call[d], call'[d])
    BY <1>0, <2>1, OvertakenOnly
  <2>3. edits' # edits
    BY <1>0, <2>1, ClientConfigAssumption
  <2> QED BY <2>2, <2>3 DEF Same
<1>6. CASE \E c \in Calls : CallStep(c) \/ CommandStep(c)
  BY <1>6, CourseIs
<1> QED BY <1>2, <1>3, <1>4, <1>5, <1>6, CallsAre DEF Next

\* Granted versions and the entries a call wants.
LEMMA WantedIs ==
  ASSUME NEW c, NEW k
  PROVE  /\ Wanted(c, k) \in {"none"} \cup Launches
         /\ k.op = "remove" <=> Wanted(c, k) \notin Launches
BY LaunchIs DEF Wanted, Launches

\* What a call that replaces is prepared to write.
LEMMA PreparedWrite ==
  ASSUME NEW c, NEW k, k \in CallRecords, NEW x, Prepared(c, k, x), ~k.restoring,
         k.pc \in Replacing
  PROVE  /\ k.snap = k.base /\ k.next.entry = Wanted(c, k)
         /\ Unrelated(k.next) = Unrelated(k.base)
<1>1. k.snap = k.base /\ k.next = WithEntry(k.file, k.base, Wanted(c, k))
  BY DEF Prepared
<1>2. k.file \in Files /\ k.base \in Versions
  BY CallParts
<1>3. Wanted(c, k) \in {"none"} \cup Launches
  BY WantedIs
<1> DEFINE w == Wanted(c, k)
<1> HIDE DEF w
<1>4. /\ WithEntry(k.file, k.base, w).entry = w
      /\ Unrelated(WithEntry(k.file, k.base, w)) = Unrelated(k.base)
  <2>1. w \in {"none"} \cup Launches
    BY <1>3 DEF w
  <2> QED BY <1>2, <2>1, EntryReplaced
<1> QED BY <1>1, <1>4 DEF w

\* A replacement by a call that was not overtaken loses no setting.
LEMMA NothingLost ==
  ASSUME TypeOK, CallInvariant, NEW c \in Calls, At(c, "rename"), ~call[c].late
  PROVE  /\ Unrelated(FileOf(c)) = Unrelated(call[c].next)
         /\ \/ FileOf(c) = NoFile
            \/ call[c].restoring
            \/ call[c].saved /\ FileOf(c) = call[c].base
<1> DEFINE k == call[c]
           x == FileOf(c)
<1>1. k \in CallRecords /\ k.pc = "rename" /\ ~k.late
  BY DEF TypeOK, At
<1>2. k.pc \in Waiting /\ k.pc \in Replacing
  BY <1>1 DEF Waiting, Replacing
<1>3. Prepared(c, k, x)
  BY <1>2 DEF CallInvariant
<1> HIDE DEF k, x
<1>4. x = k.snap
  BY <1>1, <1>3 DEF Prepared
<1>5. CASE k.restoring
  <2>1. k.next = k.base /\ Unrelated(k.snap) = Unrelated(k.base)
    BY <1>3, <1>5 DEF Prepared
  <2>2. Unrelated(x) = Unrelated(k.next)
    BY <1>4, <2>1
  <2> QED BY <1>5, <2>2 DEF k, x
<1>6. CASE ~k.restoring
  <2>1. k.snap = k.base /\ Unrelated(k.next) = Unrelated(k.base)
    BY <1>1, <1>2, <1>3, <1>6, PreparedWrite
  <2>2. k.saved = (k.base # NoFile)
    BY <1>1, <1>3 DEF Prepared
  <2>3. Unrelated(x) = Unrelated(k.next) /\ (x = NoFile \/ (k.saved /\ x = k.base))
    BY <1>4, <2>1, <2>2
  <2> QED BY <2>3 DEF k, x
<1> QED BY <1>5, <1>6

\* No setting is lost where a file is replaced by a call that saw it last: what is
\* replaced differs from what is written in the owncontext entry only, and was backed
\* up (codex-config.ts and claude-code-config.ts, snapshotStillMatches to rename).
THEOREM SettingsAreKept == Spec => SettingsSurvive
<1> DEFINE A == \A c \in Calls : (Replaces(c) /\ ~call[c].late) =>
                  /\ Unrelated(FileOf(c)) = Unrelated(call[c].next)
                  /\ \/ FileOf(c) = NoFile
                     \/ call[c].restoring
                     \/ call[c].saved /\ FileOf(c) = call[c].base
<1>1. TypeOK /\ CallInvariant => A
  BY NothingLost DEF Replaces
<1>2. TypeOK /\ CallInvariant => [A]_vars
  BY <1>1
<1>3. Spec => [][A]_vars
  <2> HIDE DEF A
  <2> QED BY <1>2, CallsAreSafe, PTL
<1> QED BY <1>3 DEF SettingsSurvive

\* A replacement that grants where no grant was is one a user asked for, or overtaken.
LEMMA GrantingReplaces ==
  ASSUME NEW c \in Calls, NEW k, k \in CallRecords, NEW x, Prepared(c, k, x),
         k.pc = "rename", ~k.late, Granted(k.next), ~Granted(x)
  PROVE  k.op = "apply" /\ ~k.restoring
<1>1. x = k.snap /\ k.pc \in Replacing
  BY DEF Prepared, Replacing
<1>2. ASSUME k.restoring
      PROVE  FALSE
  <2>1. k.next = k.base /\ k.base.entry \in {"none", "no-file"}
    BY <1>2 DEF Prepared, ByCommand
  <2> QED BY <2>1 DEF Granted, Launches
<1>3. k.snap = k.base /\ k.next.entry = Wanted(c, k)
  BY <1>1, <1>2, PreparedWrite
<1>4. ASSUME k.op # "apply"
      PROVE  FALSE
  <2>1. Status(k.file, k.base, Wanted(c, k)) = "managed"
    BY <1>4 DEF Prepared
  <2>2. k.base.entry \in Launches \/ k.base.entry = Wanted(c, k)
    <3> DEFINE w == Wanted(c, k)
    <3> HIDE DEF w
    <3>1. Status(k.file, k.base, w) = "managed"
      BY <2>1 DEF w
    <3>2. k.base.entry \in Launches \/ k.base.entry = w
      BY <3>1, StatusIs
    <3> QED BY <3>2 DEF w
  <2>3. Wanted(c, k) \in Launches
    BY <1>3 DEF Granted
  <2> QED BY <1>1, <1>3, <2>2, <2>3 DEF Granted
<1> QED BY <1>2, <1>4

\* Where a step grants, a user asked for it.
Asked(f) ==
  \/ edits' # edits
  \/ \E c \in Calls :
       /\ call'[c] # call[c] /\ call[c].file = f
       /\ call[c].late \/ (call[c].op = "apply" /\ ~call[c].restoring)

\* A step that grants is an edit, a call a user asked for or one overtaken.
LEMMA GrantStep ==
  ASSUME TypeOK, CallInvariant, Next, NEW f \in Files, Granted(file'[f]), ~Granted(file[f])
  PROVE  Asked(f)
<1>0. call \in [Calls -> CallRecords] /\ file \in [Files -> Versions]
  BY DEF TypeOK
<1>1. file'[f] # file[f]
  OBVIOUS
<1>2. CASE \E c \in Calls : /\ Course(c) /\ call[c].pc \in Waiting
                            /\ Prepared(c, call[c], file[call[c].file])
  <2>1. PICK c \in Calls : /\ Course(c) /\ call[c].pc \in Waiting
                           /\ Prepared(c, call[c], file[call[c].file])
    BY <1>2
  <2> DEFINE k == call[c]
             x == file[call[c].file]
  <2>2. k \in CallRecords /\ k.file \in Files
    BY <1>0, CallParts
  <2>3. CASE Replaced(c)
    <3>1. /\ file' = [file EXCEPT ![k.file] = k.next] /\ k.pc = "rename"
          /\ call'[c].pc \in {"done", "verify"}
      BY <2>3 DEF Replaced, Changes
    <3>2. k.file = f /\ file'[f] = k.next /\ x = file[f]
      BY <1>0, <1>1, <2>2, <3>1
    <3>3. call'[c] # k
      BY <3>1
    <3>4. CASE k.late
      BY <3>2, <3>3, <3>4 DEF Asked
    <3>5. CASE ~k.late
      <4>1. Granted(k.next) /\ ~Granted(x) /\ Prepared(c, k, x)
        BY <2>1, <3>2
      <4> HIDE DEF k, x
      <4>2. k.op = "apply" /\ ~k.restoring
        BY <2>2, <3>1, <3>5, <4>1, GrantingReplaces
      <4> QED BY <3>2, <3>3, <4>2 DEF Asked, k
    <3> QED BY <3>4, <3>5
  <2>4. CASE Commanded(c)
    <3>1. /\ \E z : file' = [file EXCEPT !["claude"] = z]
          /\ k.pc = "command" /\ call'[c].pc = "command-verify"
      BY <2>4 DEF Commanded
    <3>2. f = "claude"
      BY <1>0, <1>1, <3>1
    <3>3. k.file = "claude" /\ k.op = "apply" /\ ~k.restoring
      BY <2>1, <3>1 DEF Prepared, ByCommand, Commanding
    <3>4. call'[c] # call[c]
      BY <3>1
    <3> QED BY <3>2, <3>3, <3>4 DEF Asked
  <2>5. CASE Stops(c) \/ Proceeds(c)
    BY <1>1, <2>5 DEF Stops, Proceeds, Steady
  <2> QED BY <2>1, <2>3, <2>4, <2>5 DEF Course
<1>3. CASE edits' # edits
  BY <1>3 DEF Asked
<1> QED BY <1>1, <1>2, <1>3, WhoActs

\* A grant appears only where a user asked for it: no refresh, removal or restoration
\* makes one, whatever the other processes do (codex-config.ts, claude-code-config.ts
\* and the refreshes of squirrel-lifecycle.ts), save one overtaken before its rename.
THEOREM GrantsOnRequest == Spec => GrantsAreAskedFor
<1> DEFINE A == \A f \in Files : (Granted(file'[f]) /\ ~Granted(file[f])) => Asked(f)
<1>1. TypeOK /\ CallInvariant /\ Next => A
  BY GrantStep
<1>2. TypeOK /\ CallInvariant /\ [Next]_vars => [A]_vars
  BY <1>1
<1>3. Spec => [][A]_vars
  <2> HIDE DEF A
  <2> QED BY <1>2, CallsAreSafe, PTL DEF Spec
<1> QED BY <1>3 DEF GrantsAreAskedFor, Asked

\* What a call that stops answers is so.
LEMMA StopTells ==
  ASSUME TypeOK, NEW c \in Calls, Prepared(c, call[c], file[call[c].file]), Stops(c)
  PROVE  LET k == call[c]
             x == file[k.file]
             n == call'[c]
         IN /\ n.pc \in {"failed", "restored"} => (k.touched => x = k.base)
            /\ n.pc = "done" => /\ PreservesBaseline(k.base, x)
                                /\ Granted(x) <=> k.op # "remove"
<1> DEFINE k == call[c]
           x == file[k.file]
           n == call'[c]
<1>0. k \in CallRecords /\ x \in Versions /\ k.base \in Versions
  BY CallAndFile DEF TypeOK
<1>1. Prepared(c, k, x)
  OBVIOUS
<1>2. /\ n.pc \in {"failed", "unsure", "restored", "done"}
      /\ n.pc = "failed" =>
           \/ k.pc = "backup"
           \/ k.pc \in {"check", "write", "rename"} /\ ~k.restoring
           \/ k.pc = "settle" /\ x = k.base
      /\ n.pc = "restored" => k.pc = "verify" /\ k.restoring /\ x = k.next
      /\ n.pc = "done" =>
           \/ /\ k.pc = "verify" /\ ~k.restoring
              /\ x.entry = k.next.entry \/ (k.op = "remove" /\ x = NoFile)
              /\ Unrelated(x) = Unrelated(k.snap)
           \/ k.pc = "command-verify" /\ Added(c, x)
  BY DEF Stops
<1>3. n.pc = "done" /\ k.pc = "command-verify" =>
        /\ x.entry = LaunchOf(c) /\ PreservesBaseline(k.base, x)
  BY <1>2 DEF Added
<1> HIDE DEF k, x, n
<1>4. n.pc = "failed" => (k.touched => x = k.base)
  BY <1>1, <1>2 DEF Prepared, Replacing
<1>5. n.pc = "restored" => x = k.base
  BY <1>1, <1>2 DEF Prepared
<1>6. ASSUME n.pc = "done", k.pc = "verify"
      PROVE  PreservesBaseline(k.base, x) /\ (Granted(x) <=> k.op # "remove")
  <2>1. /\ ~k.restoring /\ Unrelated(x) = Unrelated(k.snap)
        /\ x.entry = k.next.entry \/ (k.op = "remove" /\ x = NoFile)
    BY <1>2, <1>6
  <2>2. k.snap = k.base /\ k.next.entry = Wanted(c, k)
    BY <1>0, <1>1, <1>6, <2>1, PreparedWrite DEF Replacing
  <2>3. PreservesBaseline(k.base, x)
    BY <2>1, <2>2 DEF Unrelated, PreservesBaseline
  <2>4. Granted(x) <=> k.op # "remove"
    BY <2>1, <2>2, WantedIs DEF Granted, NoFile, Launches
  <2> QED BY <2>3, <2>4
<1>7. ASSUME n.pc = "done", k.pc = "command-verify"
      PROVE  PreservesBaseline(k.base, x) /\ (Granted(x) <=> k.op # "remove")
  <2>1. k.op = "apply"
    BY <1>1, <1>7 DEF Prepared, Commanding, ByCommand
  <2> QED BY <1>3, <1>7, <2>1, LaunchIs DEF Granted
<1>8. n.pc = "done" => PreservesBaseline(k.base, x) /\ (Granted(x) <=> k.op # "remove")
  BY <1>2, <1>6, <1>7
<1> QED BY <1>4, <1>5, <1>8 DEF k, x, n

\* What the Codex service has written when it answers is as asked.
LEMMA ReplaceTells ==
  ASSUME TypeOK, NEW c \in Calls, Prepared(c, call[c], file[call[c].file]), Replaced(c),
         call'[c].pc = "done", ~call[c].restoring
  PROVE  LET k == call[c]
             y == file'[k.file]
         IN PreservesBaseline(k.base, y) /\ (Granted(y) <=> k.op # "remove")
<1> DEFINE k == call[c]
           y == file'[k.file]
<1>0. k \in CallRecords /\ k.file \in Files /\ file \in [Files -> Versions]
  BY CallAndFile DEF TypeOK
<1>1. file' = [file EXCEPT ![k.file] = k.next] /\ k.pc = "rename"
  BY DEF Replaced, Changes
<1>2. y = k.next
  BY <1>0, <1>1
<1>3. Prepared(c, k, file[k.file]) /\ ~k.restoring
  OBVIOUS
<1> HIDE DEF k, y
<1>4. k.next.entry = Wanted(c, k) /\ Unrelated(k.next) = Unrelated(k.base)
  BY <1>0, <1>1, <1>3, PreparedWrite DEF Replacing
<1>5. PreservesBaseline(k.base, y)
  BY <1>2, <1>4 DEF Unrelated, PreservesBaseline
<1>6. Granted(y) <=> k.op # "remove"
  BY <1>2, <1>4, WantedIs DEF Granted
<1> QED BY <1>5, <1>6 DEF k, y

\* What the call's answers say, as AnswersAreTrue states it.
Told(c) ==
  /\ call'[c].pc \in {"failed", "restored"} =>
       (call[c].touched => FileOf(c) = call[c].base)
  /\ call'[c].pc = "done" =>
       LET x == file'[call[c].file]
       IN /\ PreservesBaseline(call[c].base, x)
          /\ Granted(x) = (call[c].op # "remove")

\* Every answer a step gives is so.
LEMMA AnswerStep ==
  ASSUME TypeOK, CallInvariant, Next, NEW c \in Calls, call'[c].pc # call[c].pc
  PROVE  Told(c)
<1>1. ASSUME NEW d \in Calls, Course(d), call[d].pc \in Waiting,
             Prepared(d, call[d], file[call[d].file])
      PROVE  Told(c)
  <2>1. d = c
    <3>1. d # c => call'[c] = call[c] \/ Same(call[c], call'[c])
      BY <1>1 DEF Course, Stops, Proceeds, Steady, Replaced, Changes, Commanded
    <3> QED BY <3>1 DEF Same
  <2>2. CASE Stops(c)
    <3> DEFINE x == file[call[c].file]
               n == call'[c]
               k == call[c]
    <3>1. /\ n.pc \in {"failed", "restored"} => (k.touched => x = k.base)
          /\ n.pc = "done" => /\ PreservesBaseline(k.base, x)
                              /\ Granted(x) <=> k.op # "remove"
      BY <1>1, <2>1, <2>2, StopTells
    <3>2. file'[call[c].file] = x /\ FileOf(c) = x
      BY <2>2 DEF Stops, Steady, FileOf
    <3>3. Granted(x) \in BOOLEAN
      BY DEF Granted
    <3>4. n.pc = "done" => Granted(x) = (k.op # "remove")
      <4> DEFINE g == Granted(x)
                 r == k.op # "remove"
      <4>1. n.pc = "done" => (g <=> r)
        BY <3>1
      <4>2. g \in BOOLEAN /\ r \in BOOLEAN
        BY <3>3
      <4> HIDE DEF g, r
      <4>3. n.pc = "done" => g = r
        BY <4>1, <4>2
      <4> QED BY <4>3 DEF g, r
    <3> HIDE DEF x
    <3> QED BY <3>1, <3>2, <3>4 DEF Told
  <2>3. CASE Proceeds(c)
    <3>1. call'[c].pc \in {"check", "write", "rename", "command", "settle"}
      BY <2>3 DEF Proceeds
    <3> QED BY <3>1 DEF Told
  <2>4. CASE Commanded(c)
    <3>1. call'[c].pc = "command-verify"
      BY <2>4 DEF Commanded
    <3> QED BY <3>1 DEF Told
  <2>5. CASE Replaced(c)
    <3>1. CASE call'[c].pc = "done"
      <4>1. call[c].file = "codex"
        BY <2>5, <3>1 DEF Replaced
      <4>2. ~call[c].restoring
        BY <1>1, <2>1, <4>1 DEF Prepared, ByCommand
      <4> DEFINE y == file'[call[c].file]
                 k == call[c]
                 g == Granted(y)
                 r == k.op # "remove"
      <4>3. PreservesBaseline(k.base, y) /\ (g <=> r)
        BY <1>1, <2>1, <2>5, <3>1, <4>2, ReplaceTells
      <4>4. g \in BOOLEAN /\ r \in BOOLEAN
        BY DEF Granted
      <4>5. g = r
        <5> HIDE DEF g, r
        <5> QED BY <4>3, <4>4
      <4> QED BY <3>1, <4>3, <4>5 DEF Told
    <3>2. CASE call'[c].pc # "done"
      <4>1. call'[c].pc = "verify"
        BY <2>5, <3>2 DEF Replaced
      <4> QED BY <4>1 DEF Told
    <3> QED BY <3>1, <3>2
  <2> QED BY <1>1, <2>1, <2>2, <2>3, <2>4, <2>5 DEF Course
<1>2. CASE \A d \in Calls : call'[d].pc # call[d].pc =>
             call'[d].pc \notin {"failed", "restored", "done"}
  BY <1>2 DEF Told
<1>3. CASE \A d \in Calls : call'[d].pc = call[d].pc
  BY <1>3
<1> QED BY <1>1, <1>2, <1>3, WhoActs

\* What a call answers is so (claude-code-config.ts and codex-config.ts): where it says
\* that it failed or restored the file, it and its command left nothing behind; where it
\* says that it is done, the entry is as asked and the other settings are kept.
THEOREM AnswersTellTheTruth == Spec => AnswersAreTrue
<1> DEFINE A == \A c \in Calls : call'[c].pc # call[c].pc => Told(c)
<1>1. TypeOK /\ CallInvariant /\ Next => A
  BY AnswerStep
<1>2. TypeOK /\ CallInvariant /\ [Next]_vars => [A]_vars
  BY <1>1
<1>3. Spec => [][A]_vars
  <2> HIDE DEF A
  <2> QED BY <1>2, CallsAreSafe, PTL DEF Spec
<1> QED BY <1>3 DEF AnswersAreTrue, Told

-----------------------------------------------------------------------------
(* What the stages of an uninstallation leave behind.                      *)

CleanAfter(f) == f \in apart' => ~Granted(file'[f])

\* HookInvariant after a step, in its parts.
LEMMA HookParts ==
  ASSUME hook'.stage \in {"start", "shortcut", "quit"} => call'[Hook].pc = "idle",
         call'[Hook].pc \in Waiting =>
           /\ hook'.stage = call'[Hook].file
           /\ call'[Hook].op = IF hook'.event = "updated" THEN "refresh" ELSE "remove",
         hook'.event = "uninstall" =>
           /\ call'[Hook].pc \in {"unchanged", "done"} => CleanAfter(hook'.stage)
           /\ \A f \in Files : Past(f)' /\ f \notin hook'.failed => CleanAfter(f)
  PROVE  HookInvariant'
BY DEF HookInvariant, At, Stage, Operation, Clean, CleanAfter

\* What the hook's call is about.
LEMMA HookCall ==
  ASSUME HookInvariant
  PROVE  /\ hook.stage \in {"start", "shortcut", "quit"} => call[Hook].pc = "idle"
         /\ call[Hook].pc \in Waiting =>
              /\ hook.stage = call[Hook].file
              /\ call[Hook].op = IF hook.event = "updated" THEN "refresh" ELSE "remove"
         /\ hook.event = "uninstall" =>
              /\ call[Hook].pc \in {"unchanged", "done"} => Clean(hook.stage)
              /\ \A f \in Files : Past(f) /\ f \notin hook.failed => Clean(f)
BY DEF HookInvariant, At, Stage, Operation

\* Where the hook and its call stay and no file loses its cleanness, the invariant stays.
LEMMA HookUndisturbed ==
  ASSUME HookInvariant, hook \in HookTypes, hook' = hook, Same(call[Hook], call'[Hook]),
         call[Hook].pc \in Waiting => call[Hook].file \in Files,
         call[Hook].pc \in {"unchanged", "done"} => hook.stage \in Files,
         \A f \in Files : Clean(f) => CleanAfter(f)
  PROVE  HookInvariant'
<1>1. \A f : Past(f)' <=> Past(f)
  BY DEF Past
<1> QED BY <1>1, HookCall, HookParts DEF Same

\* An answered call of the hook is one of a file's stage.
LEMMA AnsweredStage ==
  ASSUME HookInvariant, hook \in HookTypes, call[Hook].pc # "idle"
  PROVE  hook.stage \in Files
BY HookCall DEF HookTypes

\* A step of another's call takes the file it changes out of what is apart.
LEMMA OthersCourse ==
  ASSUME file \in [Files -> Versions], call \in [Calls -> CallRecords],
         NEW c \in Calls, c # Hook, Course(c), NEW f \in Files, Clean(f)
  PROVE  CleanAfter(f)
<1>1. call[c].file \in Files
  BY CallAndFile
<1>2. CASE Stops(c) \/ Proceeds(c)
  BY <1>2 DEF Stops, Proceeds, Steady, Clean, CleanAfter
<1>3. CASE Replaced(c)
  <2>1. file' = [file EXCEPT ![call[c].file] = call[c].next] /\ apart' = apart \ {call[c].file}
    BY <1>3 DEF Replaced, Changes
  <2> QED BY <1>1, <2>1 DEF Clean, CleanAfter
<1>4. CASE Commanded(c)
  <2>1. /\ \E x : file' = [file EXCEPT !["claude"] = x]
        /\ apart' = apart \ {"claude"}
    BY <1>4 DEF Commanded
  <2> QED BY <2>1 DEF Clean, CleanAfter
<1> QED BY <1>2, <1>3, <1>4 DEF Course

\* A step of the hook's own call keeps the invariant: what it answers is so.
LEMMA HookCourse ==
  ASSUME TypeOK, CallInvariant, HookInvariant, Next,
         Course(Hook), Moved(Hook), call[Hook].pc \in Waiting,
         Prepared(Hook, call[Hook], file[call[Hook].file]), hook' = hook
  PROVE  HookInvariant'
<1>0. /\ call \in [Calls -> CallRecords] /\ file \in [Files -> Versions]
      /\ hook \in HookTypes
  BY TypeParts DEF HookTypes
<1> DEFINE k == call[Hook]
           n == call'[Hook]
           s == hook.stage
<1>1. /\ s = k.file /\ k.file \in Files
      /\ k.op = IF hook.event = "updated" THEN "refresh" ELSE "remove"
      /\ hook.event = "uninstall" =>
           \A f \in Files : Past(f) /\ f \notin hook.failed => Clean(f)
  BY <1>0, HookCall, CallsAre, CallAndFile
<1>2. /\ s \in Files /\ s \notin {"start", "shortcut", "quit"}
  BY <1>1 DEF Files
<1>3. n.pc \in Waiting => n.op = k.op /\ n.file = k.file
  BY WaitingIsNoAnswer DEF Moved, Kept
<1>4. k.pc \notin {"unchanged", "done"}
  BY WaitingIsNoAnswer DEF Answers
<1>5. ASSUME hook.event = "uninstall", n.pc \in {"unchanged", "done"}
      PROVE  CleanAfter(s)
  <2>1. n.pc = "done"
    BY <1>5 DEF Course, Stops, Proceeds, Replaced, Commanded
  <2>2. Told(Hook)
    BY <1>4, <2>1, CallsAre, AnswerStep
  <2>3. k.op = "remove"
    BY <1>1, <1>5
  <2>4. ~Granted(file'[k.file])
    <3> DEFINE g == Granted(file'[k.file])
    <3>1. g = (k.op # "remove")
      BY <2>1, <2>2 DEF Told
    <3> HIDE DEF g
    <3> QED BY <2>3, <3>1 DEF g
  <2> QED BY <1>1, <2>4 DEF CleanAfter
<1>6. ~Past(s)
  BY <1>1 DEF Past, Files
<1>7. \A f \in Files : f # s /\ Clean(f) => CleanAfter(f)
  <2> SUFFICES ASSUME NEW f \in Files, f # s, Clean(f)
               PROVE  CleanAfter(f)
    OBVIOUS
  <2>1. CASE Stops(Hook) \/ Proceeds(Hook)
    BY <2>1 DEF Stops, Proceeds, Steady, Clean, CleanAfter
  <2>2. CASE Replaced(Hook)
    <3>1. file' = [file EXCEPT ![k.file] = k.next] /\ apart' = apart \cup {k.file}
      BY <2>2 DEF Replaced, Changes
    <3> QED BY <1>0, <1>1, <3>1 DEF Clean, CleanAfter
  <2>3. CASE Commanded(Hook)
    <3>1. k.pc = "command"
      BY <2>3 DEF Commanded
    <3>2. k.op = "apply"
      BY <3>1 DEF Prepared, Commanding, ByCommand
    <3> QED BY <1>1, <3>2
  <2> QED BY <2>1, <2>2, <2>3 DEF Course
<1>8. \A f : Past(f)' <=> Past(f)
  BY DEF Past
<1>9. hook'.stage = s /\ hook'.event = hook.event /\ hook'.failed = hook.failed
  OBVIOUS
<1>10. hook.event = "uninstall" =>
         \A f \in Files : Past(f)' /\ f \notin hook.failed => CleanAfter(f)
  BY <1>1, <1>6, <1>7, <1>8
<1> HIDE DEF k, n, s
<1>11. n.pc \in Waiting =>
         /\ s = n.file
         /\ n.op = IF hook.event = "updated" THEN "refresh" ELSE "remove"
  BY <1>1, <1>3
<1> QED BY <1>2, <1>5, <1>9, <1>10, <1>11, HookParts DEF n

\* The hook's own call begins with its stage, and finds nothing to remove only where
\* there is no grant.
LEMMA HookLoads ==
  ASSUME TypeOK, HookInvariant, NEW f \in Files, HookCalls(f)
  PROVE  HookInvariant'
<1>0. /\ call \in [Calls -> CallRecords] /\ file \in [Files -> Versions]
      /\ busy \in BOOLEAN /\ Hook \in Calls
  BY CallsAre DEF TypeOK
<1> DEFINE op == Operation
           n == call'[Hook]
<1>1. hook.stage = f /\ Load(Hook, op, f) /\ op \in {"apply", "refresh", "remove"}
  BY DEF HookCalls, Stage, Operation
<1>2. /\ n.op = op /\ n.file = f
      /\ n.pc \in {"backup", "busy", "refused", "unchanged"}
      /\ n.pc = "unchanged" /\ op = "remove" => ~Granted(file[f])
  <2> HIDE DEF op
  <2>1. PICK m \in CallRecords :
          /\ Turn(Hook, m) /\ m.op = op /\ m.file = f
          /\ m.pc \in {"backup", "busy", "refused", "unchanged"}
          /\ m.pc = "unchanged" /\ op = "remove" => ~Granted(file[f])
    BY <1>0, <1>1, LoadIs
  <2>2. n = m
    BY <1>0, <2>1, Turning
  <2> QED BY <2>1, <2>2
<1>3. UNCHANGED <<file, hook, apart>>
  BY <1>1 DEF Load
<1>4. op = IF hook.event = "updated" THEN "refresh" ELSE "remove"
  BY DEF Operation
<1>5. f \notin {"start", "shortcut", "quit"}
  BY DEF Files
<1>6. \A g : (Past(g)' <=> Past(g)) /\ (Clean(g) <=> CleanAfter(g))
  BY <1>3 DEF Past, Clean, CleanAfter
<1>7. hook.event = "uninstall" =>
        \A g \in Files : Past(g) /\ g \notin hook.failed => Clean(g)
  BY HookCall
<1>8. hook.event = "uninstall" /\ n.pc \in {"unchanged", "done"} => CleanAfter(f)
  BY <1>2, <1>3, <1>4 DEF CleanAfter
<1>9. hook'.stage = f /\ hook'.event = hook.event /\ hook'.failed = hook.failed
  BY <1>1, <1>3
<1>10. hook.event = "uninstall" =>
         \A g \in Files : Past(g)' /\ g \notin hook.failed => CleanAfter(g)
  BY <1>6, <1>7
<1> HIDE DEF op, n
<1> QED BY <1>2, <1>4, <1>5, <1>8, <1>9, <1>10, HookParts DEF n

\* A stage that ends: what it answered decides whether its file is recorded as failed.
LEMMA StageEnds ==
  ASSUME HookInvariant, hook \in HookTypes, NEW f \in Files, hook.stage = f,
         NEW ok, ok \in BOOLEAN, hook' = After(f, ok), call'[Hook].pc = "idle",
         hook.event = "uninstall" /\ ok => Clean(f), UNCHANGED <<file, apart>>
  PROVE  HookInvariant'
<1>1. /\ hook'.stage = StageAfter(f) /\ hook'.event = hook.event
      /\ hook'.failed = IF ok THEN hook.failed ELSE hook.failed \cup {f}
  BY DEF After, HookTypes
<1>2. \A g : Clean(g) <=> CleanAfter(g)
  BY DEF Clean, CleanAfter
<1>3. "idle" \notin Waiting
  BY WaitingIsNoAnswer
<1>4. hook.event = "uninstall" =>
        \A g \in Files : Past(g) /\ g \notin hook.failed => Clean(g)
  BY HookCall
<1>5. \A g \in Files : Past(g)' => Past(g) \/ g = f
  BY <1>1 DEF Past, StageAfter, Files
<1>6. hook.event = "uninstall" =>
        \A g \in Files : Past(g)' /\ g \notin hook'.failed => CleanAfter(g)
  <2> SUFFICES ASSUME hook.event = "uninstall", NEW g \in Files, Past(g)',
                      g \notin hook'.failed
               PROVE  CleanAfter(g)
    OBVIOUS
  <2>1. g \notin hook.failed /\ (g = f => ok)
    BY <1>1
  <2> QED BY <1>2, <1>4, <1>5, <2>1
<1> QED BY <1>1, <1>3, <1>6, HookParts

\* The stages begin and end with no call at work.
LEMMA HookStages ==
  ASSUME TypeOK, HookInvariant, NEW f \in Files,
         HookStarts \/ HookEnds \/ HookReturns(f) \/ HookSkips(f)
  PROVE  HookInvariant'
<1>0. /\ call \in [Calls -> CallRecords] /\ hook \in HookTypes /\ Hook \in Calls
      /\ "idle" \notin Waiting
  BY TypeParts, CallsAre, WaitingIsNoAnswer DEF HookTypes
<1>1. CASE HookStarts
  <2>1. PICK e \in Events :
          hook' = [hook EXCEPT !.event = e,
                               !.stage = CASE e = "install" -> "shortcut"
                                           [] e = "obsolete" -> "quit"
                                           [] OTHER -> "codex"]
    BY <1>1 DEF HookStarts
  <2>2. hook.stage = "start" /\ call' = call /\ call[Hook].pc = "idle"
    BY <1>1, HookCall DEF HookStarts, Stage
  <2>3. /\ hook'.event = e
        /\ e = "uninstall" => hook'.stage = "codex"
    BY <1>0, <2>1 DEF HookTypes
  <2>4. e = "uninstall" => \A g \in Files : ~Past(g)'
    BY <2>3 DEF Past
  <2> QED BY <1>0, <2>2, <2>3, <2>4, HookParts
<1>2. CASE HookEnds
  <2>1. PICK x \in SUBSET {"shortcut"} :
          hook' = [hook EXCEPT !.stage = "quit", !.tried = @ \cup {"shortcut"},
                               !.failed = @ \cup x]
    BY <1>2 DEF HookEnds
  <2>2. /\ hook.stage = "shortcut" /\ call' = call /\ call[Hook].pc = "idle"
        /\ file' = file /\ apart' = apart
    BY <1>2, HookCall DEF HookEnds, Stage
  <2>3. hook'.event = hook.event /\ hook'.stage = "quit" /\ hook.failed \subseteq hook'.failed
    BY <1>0, <2>1 DEF HookTypes
  <2>4. \A g \in Files : Past(g) /\ (Clean(g) <=> CleanAfter(g))
    BY <2>2 DEF Past, Clean, CleanAfter
  <2>5. hook.event = "uninstall" => \A g \in Files : g \notin hook.failed => Clean(g)
    BY <2>4, HookCall
  <2>6. hook'.event = "uninstall" =>
          \A g \in Files : Past(g)' /\ g \notin hook'.failed => CleanAfter(g)
    BY <2>3, <2>4, <2>5
  <2> QED BY <1>0, <2>2, <2>6, HookParts
<1>3. CASE HookReturns(f)
  <2> DEFINE ok == call[Hook].pc \in {"unchanged", "done"}
  <2>1. /\ hook.stage = f /\ hook' = After(f, ok) /\ Turn(Hook, NoCall)
        /\ UNCHANGED <<file, apart>>
    BY <1>3 DEF HookReturns, Stage, Turn
  <2>2. call'[Hook].pc = "idle"
    <3>1. NoCall \in CallRecords /\ NoCall.pc = "idle"
      <4>1. "failed" \in {"idle"} \cup Answers
        BY AnswersGiven
      <4> QED BY <4>1, Answered
    <3> QED BY <1>0, <2>1, <3>1, Turning
  <2>3. hook.event = "uninstall" /\ ok => Clean(f)
    BY <2>1, HookCall
  <2>4. ok \in BOOLEAN
    OBVIOUS
  <2> HIDE DEF ok
  <2> QED BY <1>0, <2>1, <2>2, <2>3, <2>4, StageEnds
<1>4. CASE HookSkips(f)
  <2>1. hook.stage = f /\ call' = call /\ call[Hook].pc = "idle" /\ UNCHANGED <<file, apart>>
    BY <1>4 DEF HookSkips, Stage, At
  <2>2. CASE hook' = After(f, FALSE)
    BY <1>0, <2>1, <2>2, StageEnds
  <2>3. CASE /\ hook.event = "updated"
             /\ hook' = [hook EXCEPT !.stage = "shortcut", !.failed = @ \cup Files]
    <3>1. hook'.event = "updated"
      BY <1>0, <2>3 DEF HookTypes
    <3> QED BY <1>0, <2>1, <3>1, HookParts
  <2> QED BY <1>4, <2>2, <2>3 DEF HookSkips
<1> QED BY <1>1, <1>2, <1>3, <1>4

\* Every step keeps the invariant of the hook.
LEMMA HookInvariantStep ==
  ASSUME TypeOK, CallInvariant, HookInvariant, [Next]_vars
  PROVE  HookInvariant'
<1>0. /\ call \in [Calls -> CallRecords] /\ file \in [Files -> Versions]
      /\ hook \in HookTypes /\ busy \in BOOLEAN /\ served \in Files /\ Hook \in Calls
  BY TypeParts, CallsAre DEF HookTypes, TypeOK
<1>1. /\ call[Hook].file \in Files
      /\ call[Hook].pc \in {"unchanged", "done"} => hook.stage \in Files
  BY <1>0, CallAndFile, AnsweredStage
<1>2. ASSUME hook' = hook, Same(call[Hook], call'[Hook]),
             \A f \in Files : Clean(f) => CleanAfter(f)
      PROVE  HookInvariant'
  BY <1>0, <1>1, <1>2, HookUndisturbed
<1>3. \A k : Same(k, k)
  BY DEF Same
<1>4. ASSUME file' = file, apart' = apart
      PROVE  \A f \in Files : Clean(f) => CleanAfter(f)
  BY <1>4 DEF Clean, CleanAfter
<1>5. CASE \E c \in Calls : CallStep(c) \/ CommandStep(c)
  <2>1. PICK c \in Calls : CallStep(c) \/ CommandStep(c)
    BY <1>5
  <2>2. /\ Course(c) /\ Moved(c) /\ call[c].pc \in Waiting
        /\ Prepared(c, call[c], file[call[c].file])
        /\ hook' = hook
    BY <2>1, CourseIs
  <2>3. CASE c = Hook
    <3>1. CASE Next
      BY <2>2, <2>3, <3>1, HookCourse
    <3>2. CASE vars' = vars
      BY <1>2, <1>3, <1>4, <3>2 DEF vars
    <3> QED BY <3>1, <3>2
  <2>4. CASE c # Hook
    <3>1. Same(call[Hook], call'[Hook])
      BY <1>0, <2>2, <2>4 DEF Moved
    <3>2. \A f \in Files : Clean(f) => CleanAfter(f)
      BY <1>0, <2>2, <2>4, OthersCourse
    <3> QED BY <1>2, <2>2, <3>1, <3>2
  <2> QED BY <2>3, <2>4
<1>6. CASE \E c \in Handlers, op \in {"apply", "remove"} :
             (\A d \in 1 .. c - 1 : ~At(d, "idle")) /\ Load(c, op, served)
  <2>1. PICK c \in Handlers, op \in {"apply", "remove"} : Load(c, op, served)
    BY <1>6
  <2>2. c \in Calls /\ c # Hook
    BY CallsAre
  <2>3. PICK n \in CallRecords : Turn(c, n)
    BY <1>0, <2>1, <2>2, LoadIs
  <2>4. call'[Hook] = call[Hook]
    BY <1>0, <2>2, <2>3, Turning
  <2>5. hook' = hook /\ file' = file /\ apart' = apart
    BY <2>1 DEF Load
  <2> QED BY <1>2, <1>3, <1>4, <2>4, <2>5
<1>7. CASE HookStep
  <2>1. "codex" \in Files
    BY DEF Files
  <2> QED BY <1>7, <2>1, HookLoads, HookStages DEF HookStep
<1>8. CASE \E f \in Files : Edit(f)
  <2>1. PICK f \in Files : Edit(f)
    BY <1>8
  <2>2. /\ call' = Overtaken(f) /\ apart' = apart \ {f} /\ hook' = hook
        /\ \E x : file' = [file EXCEPT ![f] = x]
    BY <2>1 DEF Edit
  <2>3. Same(call[Hook], call'[Hook])
    BY <1>0, <2>2, OvertakenOnly
  <2>4. \A g \in Files : Clean(g) => CleanAfter(g)
    BY <1>0, <2>2 DEF Clean, CleanAfter
  <2> QED BY <1>2, <2>2, <2>3, <2>4
<1>9. CASE Exit
  <2>1. call'[Hook] = call[Hook] /\ hook' = hook /\ file' = file /\ apart' = apart
    BY <1>0, <1>9 DEF Exit
  <2> QED BY <1>2, <1>3, <1>4, <2>1
<1>10. CASE UNCHANGED vars
  BY <1>2, <1>3, <1>4, <1>10 DEF vars
<1>11. CASE Next
  BY <1>5, <1>6, <1>7, <1>8, <1>9, <1>11, CallsAre DEF Next
<1> QED BY <1>10, <1>11

\* Nothing has been removed at first.
LEMMA InitHook == Init => HookInvariant
<1> SUFFICES ASSUME Init PROVE HookInvariant
  OBVIOUS
<1>1. NoCall.pc = "idle" /\ "idle" \notin Waiting
  <2>1. "failed" \in {"idle"} \cup Answers
    BY AnswersGiven
  <2> QED BY <2>1, Answered, WaitingIsNoAnswer
<1>2. call[Hook] = NoCall
  BY CallsAre DEF Init
<1>3. hook.event = "none"
  BY DEF Init
<1> QED BY <1>1, <1>2, <1>3 DEF HookInvariant, At

\* The stages of the Squirrel hook, whatever the application and others do meanwhile:
\* its call is always its stage's, and an uninstallation's stage that went well has
\* left no grant in a file nobody else wrote.
THEOREM HookIsSafe == Spec => [](TypeOK /\ CallInvariant /\ HookInvariant)
<1>1. Init => TypeOK /\ CallInvariant /\ HookInvariant
  BY InitTypes, InitCalls, InitHook
<1>2. TypeOK /\ CallInvariant /\ HookInvariant /\ [Next]_vars
        => (TypeOK /\ CallInvariant /\ HookInvariant)'
  BY TypeStep, CallInvariantStep, HookInvariantStep
<1> QED BY <1>1, <1>2, PTL DEF Spec

\* An uninstallation that recorded no failure left no grant in a file that nobody else
\* wrote (squirrel-lifecycle.ts, the stages of beginSquirrelLifecycle).
THEOREM UninstallTold == Spec => []UninstallIsTold
<1>1. TypeOK /\ HookInvariant => UninstallIsTold
  <2> SUFFICES ASSUME TypeOK, HookInvariant, hook.stage = "quit", hook.event = "uninstall",
                      hook.failed \cap Files = {}, NEW f \in apart, f \in Files
               PROVE  ~Granted(file[f])
    BY DEF UninstallIsTold, Stage, TypeOK
  <2>1. f \notin hook.failed /\ Past(f)
    BY DEF Past
  <2> QED BY <2>1, HookCall DEF Clean
<1> QED BY <1>1, HookIsSafe, PTL

-----------------------------------------------------------------------------
(* The broker: least elements and queues. *)

(* A nonempty set of naturals has a least element. *)
LEMMA LeastNatural ==
  ASSUME NEW S \in SUBSET Nat, S # {}
  PROVE  \E m \in S : \A n \in S : m <= n
<1>1. PICK m \in S : \A n \in S : ~ (<<n, m>> \in OpToRel(<, Nat))
  BY NatLessThanWellFounded, WFMin
<1>2. \A n \in S : ~(n < m)
  BY <1>1 DEF OpToRel
<1>. QED BY <1>2

(* A set of numbers that holds 0, and with a number the next one up to n,  *)
(* holds them all.                                                          *)
LEMMA UpTo ==
  ASSUME NEW n \in Nat, NEW S, 0 \in S, \A k \in 1 .. n : k - 1 \in S => k \in S
  PROVE  0 .. n \subseteq S
<1> DEFINE missing == (0 .. n) \ S
<1>. SUFFICES ASSUME missing # {} PROVE FALSE
  OBVIOUS
<1>1. missing \in SUBSET Nat
  OBVIOUS
<1>2. PICK m \in missing : \A k \in missing : m <= k
  <2> HIDE DEF missing
  <2>. QED BY <1>1, LeastNatural
<1>3. m # 0 /\ m \in 1 .. n
  OBVIOUS
<1>4. m - 1 \in 0 .. n /\ ~(m <= m - 1)
  BY <1>3
<1>5. m - 1 \in S
  BY <1>2, <1>4
<1>. QED BY <1>3, <1>5

Computed(b, step, u, m) == u[0] = b /\ \A k \in 1 .. m : u[k] = step[<<k, u[k - 1]>>]

(* What is computed from a value and one element after the other exists.   *)
LEMMA Recursion ==
  ASSUME NEW n \in Nat, NEW S, NEW b \in S, NEW step \in [(1 .. n) \X S -> S]
  PROVE  \E u \in [0 .. n -> S] : Computed(b, step, u, n)
<1> DEFINE T == {m \in 0 .. n : \E u \in [0 .. m -> S] : Computed(b, step, u, m)}
<1>1. 0 \in T
  <2> DEFINE u == [i \in 0 .. 0 |-> b]
  <2>1. u \in [0 .. 0 -> S]
    OBVIOUS
  <2>2. u[0] = b /\ 1 .. 0 = {}
    OBVIOUS
  <2>3. Computed(b, step, u, 0)
    BY <2>2 DEF Computed
  <2> HIDE DEF u
  <2>. QED BY <2>1, <2>3
<1>2. ASSUME NEW m \in 1 .. n, m - 1 \in T PROVE m \in T
  <2>1. PICK u \in [0 .. (m - 1) -> S] : Computed(b, step, u, m - 1)
    BY <1>2
  <2> DEFINE v == [i \in 0 .. m |-> IF i = m THEN step[<<m, u[m - 1]>>] ELSE u[i]]
  <2>2. v \in [0 .. m -> S]
    <3>1. step[<<m, u[m - 1]>>] \in S
      OBVIOUS
    <3>2. ASSUME NEW i \in 0 .. m, i # m PROVE u[i] \in S
      BY <3>2
    <3>. QED BY <3>1, <3>2
  <2>3. v[0] = b
    BY <2>1 DEF Computed
  <2>4. ASSUME NEW k \in 1 .. m PROVE v[k] = step[<<k, v[k - 1]>>]
    <3>1. v[k - 1] = u[k - 1]
      OBVIOUS
    <3>2. CASE k = m
      <4>1. v[m] = step[<<m, u[m - 1]>>] /\ v[m - 1] = u[m - 1]
        OBVIOUS
      <4> HIDE DEF v
      <4>. QED BY <3>2, <4>1
    <3>3. CASE k # m
      <4>1. k \in 1 .. (m - 1) /\ v[k] = u[k]
        BY <3>3
      <4>2. u[k] = step[<<k, u[k - 1]>>]
        BY <2>1, <4>1 DEF Computed
      <4>. QED BY <3>1, <4>1, <4>2
    <3>. QED BY <3>2, <3>3
  <2>5. Computed(b, step, v, m)
    BY <2>3, <2>4 DEF Computed
  <2> HIDE DEF v
  <2>. QED BY <2>2, <2>5
<1>3. 0 .. n \subseteq T
  <2> HIDE DEF T
  <2>. QED BY <1>1, <1>2, UpTo
<1>. QED BY <1>3

Alike(u, v, n) == u[0] = v[0] /\ \A k \in 1 .. n : u[k - 1] = v[k - 1] => u[k] = v[k]

(* It is the only one. *)
LEMMA RecursionUnique ==
  ASSUME NEW n \in Nat, NEW u, NEW v, Alike(u, v, n)
  PROVE  \A k \in 0 .. n : u[k] = v[k]
<1> DEFINE S == {k \in 0 .. n : u[k] = v[k]}
<1>1. 0 \in S /\ \A k \in 1 .. n : k - 1 \in S => k \in S
  BY DEF Alike
<1>2. 0 .. n \subseteq S
  <2> HIDE DEF S
  <2>. QED BY <1>1, UpTo
<1>. QED BY <1>2

-----------------------------------------------------------------------------
(* Lines of halves *)

Half == Nat \X {1, 2}
NextLines(h, k, lines) == IF h[k][2] = 2 THEN Append(lines, h[k][1]) ELSE lines
Scan(h, u) == u = [k \in 0 .. Len(h) |-> IF k = 0 THEN <<>> ELSE NextLines(h, k, u[k - 1])]

(* Lines is what a scan of the halves arrives at. *)
LEMMA LinesScanned ==
  ASSUME NEW h \in Seq(Half)
  PROVE  \E u \in [0 .. Len(h) -> Seq(Nat)] :
           /\ u[0] = <<>>
           /\ \A k \in 1 .. Len(h) : u[k] = NextLines(h, k, u[k - 1])
           /\ Lines(h) = u[Len(h)]
<1> DEFINE n == Len(h)
           S == Seq(Nat)
           step == [p \in (1 .. n) \X S |-> NextLines(h, p[1], p[2])]
<1>1. n \in Nat /\ <<>> \in S
  OBVIOUS
<1>2. step \in [(1 .. n) \X S -> S]
  <2>1. ASSUME NEW k \in 1 .. n, NEW l \in S PROVE NextLines(h, k, l) \in S
    <3>1. h[k] \in Half /\ h[k][1] \in Nat
      BY DEF Half
    <3>. QED BY <3>1 DEF NextLines
  <2>. QED BY <2>1
<1>3. PICK w \in [0 .. n -> S] : Computed(<<>>, step, w, n)
  <2> HIDE DEF n, S, step
  <2>. QED BY <1>1, <1>2, Recursion
<1>4. w[0] = <<>> /\ \A k \in 1 .. n : w[k] = step[<<k, w[k - 1]>>]
  BY <1>3 DEF Computed
<1>5. ASSUME NEW k \in 1 .. n PROVE w[k] = NextLines(h, k, w[k - 1])
  <2>1. k - 1 \in 0 .. n /\ w[k - 1] \in S /\ <<k, w[k - 1]>> \in (1 .. n) \X S
    <3>1. k - 1 \in 0 .. n
      BY <1>1
    <3> HIDE DEF S, n
    <3>. QED BY <3>1
  <2>2. w[k] = step[<<k, w[k - 1]>>]
    BY <1>4
  <2>. QED BY <2>1, <2>2
<1>6. Scan(h, w)
  <2>1. ASSUME NEW k \in 0 .. n
        PROVE  w[k] = IF k = 0 THEN <<>> ELSE NextLines(h, k, w[k - 1])
    <3>1. CASE k = 0
      BY <1>4, <3>1
    <3>2. CASE k # 0
      BY <1>5, <3>2
    <3>. QED BY <3>1, <3>2
  <2>. QED BY <2>1 DEF Scan
<1> DEFINE v == CHOOSE u : Scan(h, u)
<1>7. Scan(h, v)
  BY <1>6
<1>8. Lines(h) = v[n]
  BY DEF Lines, Scan, NextLines
<1> HIDE DEF v, step
<1>9. v[0] = <<>> /\ DOMAIN v = 0 .. n /\ v = [k \in 0 .. n |-> v[k]]
  BY <1>1, <1>7 DEF Scan
<1>10. ASSUME NEW k \in 1 .. n PROVE v[k] = NextLines(h, k, v[k - 1])
  BY <1>1, <1>7 DEF Scan
<1>11. \A k \in 0 .. n : v[k] = w[k]
  <2>1. Alike(v, w, n)
    BY <1>4, <1>5, <1>9, <1>10 DEF Alike
  <2> HIDE DEF n
  <2>. QED BY <1>1, <2>1, RecursionUnique
<1>12. v \in [0 .. n -> S]
  BY <1>9, <1>11
<1>. QED BY <1>8, <1>9, <1>10, <1>12

(* Nothing read, nothing found. *)
LEMMA LinesOfNone == Lines(<<>>) = <<>>
<1>1. <<>> \in Seq(Half) /\ Len(<<>>) = 0
  OBVIOUS
<1>2. PICK u \in [0 .. 0 -> Seq(Nat)] : u[0] = <<>> /\ Lines(<<>>) = u[0]
  BY <1>1, LinesScanned
<1>. QED BY <1>2

(* The last half of a frame completes a line, the first one does not. *)
LEMMA LinesOfAppend ==
  ASSUME NEW h \in Seq(Half), NEW x \in Half
  PROVE  Lines(Append(h, x)) = IF x[2] = 2 THEN Append(Lines(h), x[1]) ELSE Lines(h)
<1> DEFINE n == Len(h)
           g == Append(h, x)
<1>1. n \in Nat /\ g \in Seq(Half) /\ Len(g) = n + 1 /\ g[n + 1] = x
  OBVIOUS
<1>2. \A k \in 1 .. n : g[k] = h[k]
  OBVIOUS
<1>3. PICK u \in [0 .. n -> Seq(Nat)] :
        /\ u[0] = <<>>
        /\ \A k \in 1 .. n : u[k] = NextLines(h, k, u[k - 1])
        /\ Lines(h) = u[n]
  BY LinesScanned
<1>4. PICK v \in [0 .. Len(g) -> Seq(Nat)] :
        /\ v[0] = <<>>
        /\ \A k \in 1 .. Len(g) : v[k] = NextLines(g, k, v[k - 1])
        /\ Lines(g) = v[Len(g)]
  <2> HIDE DEF g
  <2>. QED BY <1>1, LinesScanned
<1> HIDE DEF n, g
<1>5. \A k \in 0 .. n : u[k] = v[k]
  <2>1. ASSUME NEW k \in 1 .. n, u[k - 1] = v[k - 1] PROVE u[k] = v[k]
    <3>1. k \in 1 .. Len(g) /\ g[k] = h[k]
      BY <1>1, <1>2
    <3>2. u[k] = NextLines(h, k, u[k - 1]) /\ v[k] = NextLines(g, k, v[k - 1])
      BY <1>3, <1>4, <3>1
    <3>. QED BY <2>1, <3>1, <3>2 DEF NextLines
  <2>2. u[0] = v[0]
    BY <1>3, <1>4
  <2>3. Alike(u, v, n)
    BY <2>1, <2>2 DEF Alike
  <2>4. n \in Nat
    BY <1>1
  <2>. QED BY <2>3, <2>4, RecursionUnique
<1>6. v[n + 1] = NextLines(g, n + 1, v[n])
  <2>1. n + 1 \in 1 .. Len(g) /\ (n + 1) - 1 = n
    BY <1>1
  <2>. QED BY <1>4, <2>1
<1>7. v[n] = Lines(h)
  BY <1>1, <1>3, <1>5
<1>8. Lines(g) = NextLines(g, n + 1, Lines(h))
  BY <1>1, <1>4, <1>6, <1>7
<1>. QED BY <1>1, <1>8 DEF NextLines, g

(* The lines are requests. *)
LEMMA LinesType ==
  ASSUME NEW h \in Seq(Half)
  PROVE  Lines(h) \in Seq(Nat)
<1>1. PICK u \in [0 .. Len(h) -> Seq(Nat)] : Lines(h) = u[Len(h)]
  BY LinesScanned
<1>2. Len(h) \in 0 .. Len(h)
  OBVIOUS
<1>. QED BY <1>1, <1>2

(* A sequence grows by an element at a time. *)
LEMMA PrefixGrows ==
  ASSUME NEW S, NEW s \in Seq(S)
  PROVE  /\ SubSeq(s, 1, 0) = <<>> /\ SubSeq(s, 1, Len(s)) = s
         /\ \A k \in 0 .. Len(s) : SubSeq(s, 1, k) \in Seq(S)
         /\ \A k \in 1 .. Len(s) : /\ s[k] \in S
                                   /\ SubSeq(s, 1, k) = Append(SubSeq(s, 1, k - 1), s[k])
<1>1. SubSeq(s, 1, 0) = <<>>
  OBVIOUS
<1>2. SubSeq(s, 1, Len(s)) = s
  OBVIOUS
<1>3. ASSUME NEW k \in 0 .. Len(s) PROVE SubSeq(s, 1, k) \in Seq(S)
  OBVIOUS
<1>4. ASSUME NEW k \in 1 .. Len(s)
      PROVE  s[k] \in S /\ SubSeq(s, 1, k) = Append(SubSeq(s, 1, k - 1), s[k])
  <2>1. s[k] \in S
    OBVIOUS
  <2>2. SubSeq(s, 1, k) = Append(SubSeq(s, 1, k - 1), s[k])
    OBVIOUS
  <2>. QED BY <2>1, <2>2
<1>. QED BY <1>1, <1>2, <1>3, <1>4

(* What is appended to the second of two sequences is appended to both. *)
LEMMA ConcatAppend ==
  ASSUME NEW S, NEW s \in Seq(S), NEW t \in Seq(S), NEW x \in S
  PROVE  s \o Append(t, x) = Append(s \o t, x)
OBVIOUS

(* So it is with requests. *)
LEMMA RequestAppended ==
  ASSUME NEW s \in Seq(Nat), NEW t \in Seq(Nat), NEW x \in Nat
  PROVE  s \o Append(t, x) = Append(s \o t, x)
<1> DEFINE S == Nat
<1>1. s \in Seq(S) /\ t \in Seq(S) /\ x \in S
  OBVIOUS
<1> HIDE DEF S
<1>. QED BY <1>1, ConcatAppend

(* The lines of two pieces are the lines of both. *)
LEMMA LinesOfConcat ==
  ASSUME NEW h \in Seq(Half), NEW g \in Seq(Half)
  PROVE  Lines(h \o g) = Lines(h) \o Lines(g)
<1> DEFINE P(k) == SubSeq(g, 1, k)
           T == {k \in 0 .. Len(g) : Lines(h \o P(k)) = Lines(h) \o Lines(P(k))}
<1>1. 0 \in T
  <2>1. P(0) = <<>> /\ h \o <<>> = h
    OBVIOUS
  <2>2. Lines(h) \o <<>> = Lines(h)
    BY LinesType
  <2>3. 0 \in 0 .. Len(g)
    OBVIOUS
  <2> HIDE DEF P
  <2>. QED BY <2>1, <2>2, <2>3, LinesOfNone
<1>2. ASSUME NEW k \in 1 .. Len(g), k - 1 \in T PROVE k \in T
  <2> DEFINE x == g[k]
             p == P(k - 1)
  <2>1. x \in Half /\ p \in Seq(Half) /\ P(k) = Append(p, x)
    <3>1. k - 1 \in 0 .. Len(g)
      OBVIOUS
    <3>. QED BY <3>1, PrefixGrows
  <2>2. Lines(h \o p) = Lines(h) \o Lines(p)
    BY <1>2
  <2> HIDE DEF x, p, P
  <2>3. h \o p \in Seq(Half) /\ h \o Append(p, x) = Append(h \o p, x)
    BY <2>1, ConcatAppend
  <2>4. Lines(Append(p, x)) = IF x[2] = 2 THEN Append(Lines(p), x[1]) ELSE Lines(p)
    BY <2>1, LinesOfAppend
  <2>5. Lines(Append(h \o p, x)) = IF x[2] = 2 THEN Append(Lines(h \o p), x[1]) ELSE Lines(h \o p)
    BY <2>1, <2>3, LinesOfAppend
  <2>6. Lines(h) \o Append(Lines(p), x[1]) = Append(Lines(h) \o Lines(p), x[1])
    <3>1. x[1] \in Nat /\ Lines(h) \in Seq(Nat) /\ Lines(p) \in Seq(Nat)
      BY <2>1, LinesType DEF Half
    <3>. QED BY <3>1, RequestAppended
  <2>7. Lines(h \o P(k)) = Lines(h) \o Lines(P(k))
    BY <2>1, <2>2, <2>3, <2>4, <2>5, <2>6
  <2>. QED BY <2>7
<1>3. 0 .. Len(g) \subseteq T
  <2>1. Len(g) \in Nat
    OBVIOUS
  <2> HIDE DEF T
  <2>. QED BY <1>1, <1>2, <2>1, UpTo
<1>4. P(Len(g)) = g /\ Len(g) \in 0 .. Len(g)
  OBVIOUS
<1>. QED BY <1>3, <1>4

(* Frames are written half by half. *)
LEMMA AllHalvesType ==
  ASSUME NEW r \in Seq(Nat)
  PROVE  AllHalves(r) \in Seq(Half) /\ Len(AllHalves(r)) = 2 * Len(r)
<1> DEFINE n == Len(r)
<1>1. n \in Nat /\ 2 * n \in Nat
  OBVIOUS
<1>2. ASSUME NEW k \in 1 .. 2 * n
      PROVE  <<r[(k + 1) \div 2], 2 - (k % 2)>> \in Half
  <2>1. (k + 1) \div 2 \in 1 .. n
    BY <1>1
  <2>2. 2 - (k % 2) \in {1, 2}
    BY <1>1
  <2>3. r[(k + 1) \div 2] \in Nat
    BY <2>1
  <2>. QED BY <2>2, <2>3 DEF Half
<1>. QED BY <1>1, <1>2 DEF AllHalves

(* Another frame adds its two halves. *)
LEMMA AllHalvesOfAppend ==
  ASSUME NEW r \in Seq(Nat), NEW x \in Nat
  PROVE  AllHalves(Append(r, x)) = Append(Append(AllHalves(r), <<x, 1>>), <<x, 2>>)
<1> DEFINE n == Len(r)
           s == Append(r, x)
           a == AllHalves(r)
           b == Append(Append(a, <<x, 1>>), <<x, 2>>)
<1>1. n \in Nat /\ s \in Seq(Nat) /\ Len(s) = n + 1 /\ s[n + 1] = x /\ \A k \in 1 .. n : s[k] = r[k]
  OBVIOUS
<1>2. a \in Seq(Half) /\ Len(a) = 2 * n /\ <<x, 1>> \in Half /\ <<x, 2>> \in Half
  BY AllHalvesType DEF Half
<1>3. AllHalves(s) \in Seq(Half) /\ Len(AllHalves(s)) = 2 * n + 2
  <2> HIDE DEF s
  <2>. QED BY <1>1, AllHalvesType
<1>4. \A k \in 1 .. 2 * n : a[k] = <<r[(k + 1) \div 2], 2 - (k % 2)>>
  BY DEF AllHalves
<1>5. \A k \in 1 .. 2 * n + 2 : AllHalves(s)[k] = <<s[(k + 1) \div 2], 2 - (k % 2)>>
  <2> HIDE DEF s
  <2>. QED BY <1>1 DEF AllHalves
<1> HIDE DEF n, s, a
<1>6. /\ b \in Seq(Half) /\ Len(b) = 2 * n + 2
      /\ b[2 * n + 1] = <<x, 1>> /\ b[2 * n + 2] = <<x, 2>>
      /\ \A k \in 1 .. 2 * n : b[k] = a[k]
  BY <1>1, <1>2
<1> HIDE DEF b
<1>7. ASSUME NEW k \in 1 .. 2 * n + 2 PROVE AllHalves(s)[k] = b[k]
  <2>1. CASE k \in 1 .. 2 * n
    <3>1. (k + 1) \div 2 \in 1 .. n
      BY <1>1, <2>1
    <3>. QED BY <1>1, <1>4, <1>5, <1>6, <2>1, <3>1
  <2>2. CASE k = 2 * n + 1
    <3>1. (k + 1) \div 2 = n + 1 /\ 2 - (k % 2) = 1
      BY <1>1, <2>2
    <3>2. AllHalves(s)[k] = <<s[n + 1], 1>>
      BY <1>5, <3>1
    <3>. QED BY <1>1, <1>6, <2>2, <3>2
  <2>3. CASE k = 2 * n + 2
    <3>1. (k + 1) \div 2 = n + 1 /\ 2 - (k % 2) = 2
      BY <1>1, <2>3
    <3>2. AllHalves(s)[k] = <<s[n + 1], 2>>
      BY <1>5, <3>1
    <3>. QED BY <1>1, <1>6, <2>3, <3>2
  <2>. QED BY <1>1, <2>1, <2>2, <2>3
<1>8. AllHalves(s) = b
  BY <1>3, <1>6, <1>7, SeqEqual
<1>. QED BY <1>8 DEF b, a, s

(* What is written frame by frame is read line by line. *)
LEMMA LinesOfAllHalves ==
  ASSUME NEW r \in Seq(Nat)
  PROVE  Lines(AllHalves(r)) = r
<1> DEFINE P(k) == SubSeq(r, 1, k)
           T == {k \in 0 .. Len(r) : Lines(AllHalves(P(k))) = P(k)}
<1>1. 0 \in T
  <2>1. P(0) = <<>>
    OBVIOUS
  <2>2. AllHalves(<<>>) = <<>>
    <3> DEFINE e == <<>>
    <3>1. e \in Seq(Nat) /\ Len(e) = 0
      OBVIOUS
    <3> HIDE DEF e
    <3>4. AllHalves(e) \in Seq(Half) /\ Len(AllHalves(e)) = 2 * Len(e)
      BY <3>1, AllHalvesType
    <3>5. 2 * Len(e) = 0
      BY <3>1
    <3>2. AllHalves(e) \in Seq(Half) /\ Len(AllHalves(e)) = 0
      BY <3>4, <3>5
    <3>3. AllHalves(e) = <<>>
      BY <3>2, EmptySeq
    <3>. QED BY <3>3 DEF e
  <2>3. 0 \in 0 .. Len(r)
    OBVIOUS
  <2> HIDE DEF P
  <2>. QED BY <2>1, <2>2, <2>3, LinesOfNone
<1>2. ASSUME NEW k \in 1 .. Len(r), k - 1 \in T PROVE k \in T
  <2> DEFINE x == r[k]
             p == P(k - 1)
  <2>1. x \in Nat /\ p \in Seq(Nat) /\ P(k) = Append(p, x)
    <3>1. k - 1 \in 0 .. Len(r)
      OBVIOUS
    <3>. QED BY <3>1, PrefixGrows
  <2>2. Lines(AllHalves(p)) = p
    BY <1>2
  <2> HIDE DEF x, p, P
  <2>3. AllHalves(p) \in Seq(Half) /\ <<x, 1>> \in Half /\ <<x, 2>> \in Half
    BY <2>1, AllHalvesType DEF Half
  <2>4. Lines(Append(AllHalves(p), <<x, 1>>)) = p
    BY <2>2, <2>3, LinesOfAppend
  <2>5. Append(AllHalves(p), <<x, 1>>) \in Seq(Half)
    BY <2>3
  <2>6. Lines(Append(Append(AllHalves(p), <<x, 1>>), <<x, 2>>)) = Append(p, x)
    BY <2>3, <2>4, <2>5, LinesOfAppend
  <2>7. Lines(AllHalves(P(k))) = P(k)
    BY <2>1, <2>6, AllHalvesOfAppend
  <2>. QED BY <2>7
<1>3. 0 .. Len(r) \subseteq T
  <2>1. Len(r) \in Nat
    OBVIOUS
  <2> HIDE DEF T
  <2>. QED BY <1>1, <1>2, <2>1, UpTo
<1>4. P(Len(r)) = r /\ Len(r) \in 0 .. Len(r)
  OBVIOUS
<1>. QED BY <1>3, <1>4

-----------------------------------------------------------------------------
(* The cache of issued documents *)

(* A sequence without its element at a position. *)
LEMMA RemovedAt ==
  ASSUME NEW S, NEW s \in Seq(S), NEW d \in 1 .. Len(s)
  PROVE  /\ RemoveAt(s, d) \in Seq(S) /\ Len(RemoveAt(s, d)) = Len(s) - 1
         /\ \A i \in 1 .. Len(s) - 1 : RemoveAt(s, d)[i] = IF i < d THEN s[i] ELSE s[i + 1]
<1> DEFINE n == Len(s)
           a == SubSeq(s, 1, d - 1)
           b == SubSeq(s, d + 1, n)
<1>1. n \in Nat /\ d \in 1 .. n
  OBVIOUS
<1>2. a \in Seq(S) /\ Len(a) = d - 1 /\ \A i \in 1 .. d - 1 : a[i] = s[i]
  OBVIOUS
<1>3. b \in Seq(S) /\ Len(b) = n - d /\ \A i \in 1 .. n - d : b[i] = s[d + i]
  OBVIOUS
<1>4. RemoveAt(s, d) = a \o b
  BY DEF RemoveAt
<1> HIDE DEF n, a, b
<1>5. /\ a \o b \in Seq(S) /\ Len(a \o b) = n - 1
      /\ \A i \in 1 .. n - 1 : (a \o b)[i] = IF i <= d - 1 THEN a[i] ELSE b[i - (d - 1)]
  <2>1. /\ a \o b \in Seq(S) /\ Len(a \o b) = Len(a) + Len(b)
        /\ \A i \in 1 .. Len(a) + Len(b) :
             (a \o b)[i] = IF i <= Len(a) THEN a[i] ELSE b[i - Len(a)]
    BY <1>2, <1>3, ConcatProperties
  <2>2. Len(a) = d - 1 /\ Len(a) + Len(b) = n - 1
    BY <1>1, <1>2, <1>3
  <2>. QED BY <2>1, <2>2
<1>6. ASSUME NEW i \in 1 .. n - 1 PROVE (a \o b)[i] = IF i < d THEN s[i] ELSE s[i + 1]
  <2>1. CASE i < d
    <3>1. i \in 1 .. d - 1 /\ i <= d - 1
      BY <1>1, <2>1
    <3>. QED BY <1>2, <1>5, <2>1, <3>1
  <2>2. CASE ~(i < d)
    <3>1. i - (d - 1) \in 1 .. n - d /\ ~(i <= d - 1) /\ d + (i - (d - 1)) = i + 1
      BY <1>1, <2>2
    <3>. QED BY <1>3, <1>5, <2>2, <3>1
  <2>. QED BY <2>1, <2>2
<1>. QED BY <1>4, <1>5, <1>6 DEF n

(* What is near the end of a sequence. *)
Near(s, x, n) == \E i \in DOMAIN s : s[i] = x /\ Len(s) - i <= n

(* A deletion removes one element at most, from one of the positions, and   *)
(* moves nothing away from the end.                                         *)
LEMMA Deleted ==
  ASSUME NEW S, NEW s \in Seq(S), NEW K \in SUBSET DOMAIN s
  PROVE  /\ Delete(s, K) \in Seq(S)
         /\ Len(Delete(s, K)) = IF K = {} THEN Len(s) ELSE Len(s) - 1
         /\ \A i \in DOMAIN s \ K : \E j \in DOMAIN Delete(s, K) :
              Delete(s, K)[j] = s[i] /\ Len(Delete(s, K)) - j <= Len(s) - i
         /\ \A j \in DOMAIN Delete(s, K) : \E i \in DOMAIN s : Delete(s, K)[j] = s[i]
<1> DEFINE t == Delete(s, K)
<1>1. CASE K = {}
  <2>1. t = s
    BY <1>1 DEF Delete
  <2>. QED BY <1>1, <2>1
<1>2. CASE K # {}
  <2> DEFINE d == CHOOSE k \in K : TRUE
  <2>1. d \in K /\ t = RemoveAt(s, d)
    BY <1>2 DEF Delete
  <2>2. d \in 1 .. Len(s) /\ DOMAIN s = 1 .. Len(s) /\ Len(s) \in Nat
    BY <2>1
  <2> HIDE DEF d, t
  <2>3. /\ t \in Seq(S) /\ Len(t) = Len(s) - 1
        /\ \A i \in 1 .. Len(s) - 1 : t[i] = IF i < d THEN s[i] ELSE s[i + 1]
    BY <2>1, <2>2, RemovedAt
  <2>4. DOMAIN t = 1 .. Len(s) - 1
    BY <2>3
  <2>5. ASSUME NEW i \in DOMAIN s \ K
        PROVE  \E j \in DOMAIN t : t[j] = s[i] /\ Len(t) - j <= Len(s) - i
    <3>1. i \in 1 .. Len(s) /\ i # d
      BY <2>1, <2>2
    <3>2. CASE i < d
      <4>1. i \in 1 .. Len(s) - 1
        BY <2>2, <3>1, <3>2
      <4>2. t[i] = s[i]
        BY <2>3, <3>2, <4>1
      <4>3. Len(t) - i <= Len(s) - i
        BY <2>2, <2>3, <4>1
      <4>. QED BY <2>4, <4>1, <4>2, <4>3
    <3>3. CASE ~(i < d)
      <4>1. i - 1 \in 1 .. Len(s) - 1 /\ ~(i - 1 < d) /\ (i - 1) + 1 = i
        BY <2>2, <3>1, <3>3
      <4>2. t[i - 1] = s[i] /\ Len(t) - (i - 1) <= Len(s) - i
        BY <2>2, <2>3, <4>1
      <4>. QED BY <2>4, <4>1, <4>2
    <3>. QED BY <3>2, <3>3
  <2>6. ASSUME NEW j \in DOMAIN t PROVE \E i \in DOMAIN s : t[j] = s[i]
    <3>1. j \in 1 .. Len(s) - 1 /\ j \in 1 .. Len(s) /\ j + 1 \in 1 .. Len(s)
      BY <2>2, <2>4
    <3>. QED BY <2>2, <2>3, <3>1
  <2>. QED BY <1>2, <2>3, <2>5, <2>6 DEF t
<1>. QED BY <1>1, <1>2

Unique(s, f) == \A i, j \in DOMAIN s : f[s[i]] = f[s[j]] => i = j
AtMostOne(K) == \A i, j \in K : i = j

(* Where the elements were different from one another they still are, and   *)
(* the one at the only position is gone.                                    *)
LEMMA DeletedDistinct ==
  ASSUME NEW S, NEW s \in Seq(S), NEW K \in SUBSET DOMAIN s, NEW f,
         Unique(s, f),
         AtMostOne(K)
  PROVE  /\ Unique(Delete(s, K), f)
         /\ \A j \in DOMAIN Delete(s, K) : \E i \in DOMAIN s \ K : Delete(s, K)[j] = s[i]
<1> DEFINE t == Delete(s, K)
<1>1. CASE K = {}
  <2>1. t = s
    BY <1>1 DEF Delete
  <2>. QED BY <1>1, <2>1
<1>2. CASE K # {}
  <2> DEFINE d == CHOOSE k \in K : TRUE
  <2>0. d \in K /\ t = RemoveAt(s, d)
    BY <1>2 DEF Delete
  <2>1. K = {d}
    BY <2>0 DEF AtMostOne
  <2>2. d \in 1 .. Len(s) /\ DOMAIN s = 1 .. Len(s) /\ Len(s) \in Nat
    BY <2>0
  <2> HIDE DEF d, t
  <2>3. /\ t \in Seq(S) /\ Len(t) = Len(s) - 1
        /\ \A i \in 1 .. Len(s) - 1 : t[i] = IF i < d THEN s[i] ELSE s[i + 1]
    <3>1. d \in 1 .. Len(s)
      BY <2>2
    <3>2. /\ RemoveAt(s, d) \in Seq(S) /\ Len(RemoveAt(s, d)) = Len(s) - 1
          /\ \A i \in 1 .. Len(s) - 1 :
               RemoveAt(s, d)[i] = IF i < d THEN s[i] ELSE s[i + 1]
      BY ONLY <3>1, s \in Seq(S), RemovedAt
    <3>. QED BY <2>0, <3>2
  <2>4. DOMAIN t = 1 .. Len(s) - 1
    BY <2>3
  <2> DEFINE From(j) == IF j < d THEN j ELSE j + 1
  <2>5. ASSUME NEW j \in DOMAIN t PROVE From(j) \in DOMAIN s \ K /\ t[j] = s[From(j)]
    <3>1. j \in 1 .. Len(s) - 1 /\ j \in 1 .. Len(s) /\ j + 1 \in 1 .. Len(s)
      BY <2>2, <2>4
    <3>. QED BY <2>1, <2>2, <2>3, <3>1
  <2>6. ASSUME NEW i \in DOMAIN t, NEW j \in DOMAIN t, From(i) = From(j) PROVE i = j
    BY <2>2, <2>4, <2>6
  <2> HIDE DEF From
  <2>7. ASSUME NEW i \in DOMAIN t, NEW j \in DOMAIN t, f[t[i]] = f[t[j]] PROVE i = j
    BY <2>5, <2>6, <2>7 DEF Unique
  <2>8. Unique(t, f)
    BY <2>7 DEF Unique
  <2>. QED BY <2>5, <2>8 DEF t
<1>. QED BY <1>1, <1>2

(* The last elements of a sequence. *)
LEMMA LastElements ==
  ASSUME NEW S, NEW s \in Seq(S), NEW n \in Nat
  PROVE  /\ LastOf(s, n) \in Seq(S)
         /\ Len(LastOf(s, n)) = IF Len(s) <= n THEN Len(s) ELSE n
         /\ \A k \in DOMAIN LastOf(s, n) :
              /\ k + (Len(s) - Len(LastOf(s, n))) \in DOMAIN s
              /\ LastOf(s, n)[k] = s[k + (Len(s) - Len(LastOf(s, n)))]
<1> DEFINE t == LastOf(s, n)
<1>1. CASE Len(s) <= n
  <2>1. t = s
    BY <1>1 DEF LastOf
  <2>. QED BY <1>1, <2>1
<1>2. CASE ~(Len(s) <= n)
  <2> DEFINE m == Len(s) - n
  <2>1. m \in Nat /\ m + 1 \in 1 .. Len(s) + 1 /\ Len(s) \in Nat
    BY <1>2
  <2>2. t = SubSeq(s, m + 1, Len(s))
    BY <1>2 DEF LastOf
  <2>3. t \in Seq(S) /\ Len(t) = n /\ \A k \in 1 .. n : t[k] = s[k + m]
    BY <2>1, <2>2
  <2> HIDE DEF t
  <2>4. DOMAIN t = 1 .. n /\ Len(s) - Len(t) = m
    BY <2>3
  <2>5. \A k \in 1 .. n : k + m \in DOMAIN s
    BY <2>1
  <2>. QED BY <1>2, <2>3, <2>4, <2>5 DEF t
<1>. QED BY <1>1, <1>2

(* What is near the end stays there when the oldest elements go. *)
LEMMA NearLast ==
  ASSUME NEW S, NEW s \in Seq(S), NEW n \in Nat, NEW x, NEW m \in Nat, m < n, Near(s, x, m)
  PROVE  Near(LastOf(s, n), x, m)
<1> DEFINE t == LastOf(s, n)
           gone == Len(s) - Len(t)
<1>1. PICK i \in DOMAIN s : s[i] = x /\ Len(s) - i <= m
  BY DEF Near
<1>2. /\ t \in Seq(S) /\ Len(t) = IF Len(s) <= n THEN Len(s) ELSE n
      /\ \A k \in DOMAIN t : t[k] = s[k + gone]
  BY LastElements
<1>3. DOMAIN t = 1 .. Len(t) /\ Len(t) \in Nat /\ Len(s) \in Nat /\ i \in 1 .. Len(s)
  BY <1>2
<1> HIDE DEF t
<1>4. i - gone \in 1 .. Len(t) /\ (i - gone) + gone = i /\ Len(t) - (i - gone) <= m
  BY <1>1, <1>2, <1>3
<1>5. t[i - gone] = x
  BY <1>1, <1>2, <1>3, <1>4
<1>. QED BY <1>3, <1>4, <1>5 DEF Near, t

(* They stay different from one another. *)
LEMMA DistinctLast ==
  ASSUME NEW S, NEW s \in Seq(S), NEW n \in Nat, NEW f,
         Unique(s, f)
  PROVE  Unique(LastOf(s, n), f)
<1> DEFINE t == LastOf(s, n)
           gone == Len(s) - Len(t)
<1>1. /\ t \in Seq(S)
      /\ \A k \in DOMAIN t : k + gone \in DOMAIN s /\ t[k] = s[k + gone]
  BY LastElements
<1>2. DOMAIN t = 1 .. Len(t) /\ Len(t) \in Nat /\ gone \in Int
  BY <1>1
<1> HIDE DEF t, gone
<1>3. ASSUME NEW i \in DOMAIN t, NEW j \in DOMAIN t, f[t[i]] = f[t[j]] PROVE i = j
  <2>1. i + gone = j + gone
    BY <1>1, <1>3 DEF Unique
  <2>. QED BY <1>2, <2>1
<1>. QED BY <1>3 DEF t, Unique

(* An element is appended that is different from the others. *)
LEMMA DistinctAppend ==
  ASSUME NEW S, NEW s \in Seq(S), NEW x \in S, NEW f,
         Unique(s, f),
         \A i \in DOMAIN s : f[s[i]] # f[x]
  PROVE  Unique(Append(s, x), f)
<1> DEFINE t == Append(s, x)
           n == Len(s)
<1>1. n \in Nat /\ DOMAIN s = 1 .. n /\ DOMAIN t = 1 .. n + 1
  OBVIOUS
<1>2. t[n + 1] = x /\ \A i \in 1 .. n : t[i] = s[i]
  OBVIOUS
<1> HIDE DEF t, n
<1>3. ASSUME NEW i \in 1 .. n + 1, NEW j \in 1 .. n + 1, f[t[i]] = f[t[j]] PROVE i = j
  <2>1. CASE i \in 1 .. n /\ j \in 1 .. n
    BY <1>1, <1>2, <1>3, <2>1 DEF Unique
  <2>2. CASE i = n + 1 /\ j \in 1 .. n
    BY <1>1, <1>2, <1>3, <2>2
  <2>3. CASE i \in 1 .. n /\ j = n + 1
    BY <1>1, <1>2, <1>3, <2>3
  <2>. QED BY <1>1, <2>1, <2>2, <2>3
<1>. QED BY <1>1, <1>3 DEF t, Unique

(* RememberChunk: the chunk is the newest, those that were recent still     *)
(* are, and no other appears.                                               *)
LEMMA ChunkRemembered ==
  ASSUME NEW C, NEW chunks \in Seq(C), Distinct(chunks), NEW c \in C, MaxChunks >= 1
  PROVE  /\ RememberChunk(chunks, c) \in Seq(C)
         /\ Len(RememberChunk(chunks, c)) \in 1 .. MaxChunks
         /\ Distinct(RememberChunk(chunks, c))
         /\ Near(RememberChunk(chunks, c), c, 0)
         /\ \A x \in C, n \in Nat : Near(chunks, x, n) /\ x # c /\ n + 1 < MaxChunks
              => Near(RememberChunk(chunks, c), x, n + 1)
         /\ \A j \in DOMAIN RememberChunk(chunks, c) :
              \/ RememberChunk(chunks, c)[j] = c
              \/ \E i \in DOMAIN chunks : RememberChunk(chunks, c)[j] = chunks[i]
<1> DEFINE K == {k \in DOMAIN chunks : chunks[k] = c}
           d == Delete(chunks, K)
           a == Append(d, c)
           r == LastOf(a, MaxChunks)
           f == [x \in C |-> x]
<1>0. MaxChunks \in Nat
  BY McpBrokerAssumption
<1>1. RememberChunk(chunks, c) = r
  BY DEF RememberChunk
<1>2. /\ K \in SUBSET DOMAIN chunks
      /\ AtMostOne(K)
      /\ \A i \in DOMAIN chunks \ K : chunks[i] # c
  BY DEF Distinct, AtMostOne
<1>3. f \in [C -> C] /\ Unique(chunks, f)
  <2>1. \A i \in DOMAIN chunks : chunks[i] \in C
    OBVIOUS
  <2>. QED BY <2>1 DEF Distinct, Unique
<1> HIDE DEF K
<1>4. /\ d \in Seq(C)
      /\ \A i \in DOMAIN chunks \ K : \E j \in DOMAIN d :
           d[j] = chunks[i] /\ Len(d) - j <= Len(chunks) - i
  BY <1>2, Deleted
<1>5. /\ Unique(d, f)
      /\ \A j \in DOMAIN d : \E i \in DOMAIN chunks \ K : d[j] = chunks[i]
  <2>1. K \in SUBSET DOMAIN chunks /\ AtMostOne(K)
    BY <1>2
  <2> HIDE DEF f
  <2>2. f \in [C -> C] /\ Unique(chunks, f)
    BY <1>3
  <2>. QED BY ONLY <2>1, <2>2, chunks \in Seq(C), DeletedDistinct DEF d
<1> HIDE DEF d
<1>6. a \in Seq(C) /\ Len(a) = Len(d) + 1 /\ a[Len(a)] = c /\ \A i \in DOMAIN d : a[i] = d[i]
  BY <1>4
<1>7. DOMAIN a = 1 .. Len(a) /\ Len(a) \in Nat /\ DOMAIN d = 1 .. Len(d) /\ Len(d) \in Nat
  BY <1>4, <1>6
<1>8. Unique(a, f)
  <2>1. \A i \in DOMAIN d : f[d[i]] # f[c]
    BY <1>2, <1>4, <1>5
  <2> HIDE DEF f
  <2>. QED BY <1>3, <1>4, <1>5, <2>1, DistinctAppend
<1>9. ASSUME NEW j \in DOMAIN a PROVE a[j] = c \/ \E i \in DOMAIN chunks : a[j] = chunks[i]
  <2>1. j = Len(a) \/ j \in DOMAIN d
    BY <1>6, <1>7
  <2>. QED BY <1>5, <1>6, <2>1
<1> HIDE DEF a
<1>10. /\ r \in Seq(C) /\ Len(r) = IF Len(a) <= MaxChunks THEN Len(a) ELSE MaxChunks
       /\ \A k \in DOMAIN r : /\ k + (Len(a) - Len(r)) \in DOMAIN a
                              /\ r[k] = a[k + (Len(a) - Len(r))]
  BY <1>0, <1>6, LastElements
<1>11. Len(r) \in 1 .. MaxChunks
  BY <1>0, <1>6, <1>7, <1>10
<1>12. Distinct(r)
  <2>1. Unique(r, f)
    <3> HIDE DEF f
    <3>. QED BY <1>0, <1>3, <1>6, <1>8, DistinctLast
  <2>2. \A i \in DOMAIN r : r[i] \in C
    BY <1>10
  <2>. QED BY <2>1, <2>2 DEF Distinct, Unique
<1>13. Near(r, c, 0)
  <2>1. Near(a, c, 0)
    <3>1. Len(a) \in DOMAIN a /\ Len(a) - Len(a) <= 0
      BY <1>6, <1>7
    <3>. QED BY <1>6, <3>1 DEF Near
  <2>. QED BY <1>0, <1>6, <2>1, NearLast
<1>14. ASSUME NEW x \in C, NEW n \in Nat, Near(chunks, x, n), x # c, n + 1 < MaxChunks
       PROVE  Near(r, x, n + 1)
  <2>1. PICK i \in DOMAIN chunks : chunks[i] = x /\ Len(chunks) - i <= n
    BY <1>14 DEF Near
  <2>2. i \in DOMAIN chunks \ K
    BY <1>14, <2>1 DEF K
  <2>3. PICK j \in DOMAIN d : d[j] = x /\ Len(d) - j <= Len(chunks) - i
    BY <1>4, <2>1, <2>2
  <2>4. j \in DOMAIN a /\ a[j] = x
    BY <1>6, <1>7, <2>3
  <2>5. Len(a) - j <= n + 1
    <3>1. Len(chunks) \in Nat /\ i \in Nat
      OBVIOUS
    <3>. QED BY <1>6, <1>7, <2>1, <2>3, <3>1
  <2>6. Near(a, x, n + 1)
    BY <2>4, <2>5 DEF Near
  <2>7. n + 1 \in Nat
    OBVIOUS
  <2>. QED BY <1>0, <1>6, <1>14, <2>6, <2>7, NearLast
<1>15. ASSUME NEW j \in DOMAIN r PROVE r[j] = c \/ \E i \in DOMAIN chunks : r[j] = chunks[i]
  BY <1>9, <1>10
<1> HIDE DEF r
<1>. QED BY <1>1, <1>10, <1>11, <1>12, <1>13, <1>14, <1>15

-----------------------------------------------------------------------------
(* Results remembered *)

Chunks == {p[2] : p \in Passages}
CacheEntries == [document : Documents, chunks : Seq(Chunks)]
DocumentOf == [e \in CacheEntries |-> e.document]
EntryOK(e) == Len(e.chunks) \in 1 .. MaxChunks /\ Distinct(e.chunks)
WellFormed(known) ==
  /\ known \in Seq(CacheEntries) /\ Unique(known, DocumentOf)
  /\ \A i \in DOMAIN known : EntryOK(known[i])
Recent(known, p, n) ==
  \E i \in DOMAIN known :
    known[i].document = p[1] /\ Len(known) - i <= n /\ Near(known[i].chunks, p[2], n)

(* The cache's invariant in the terms of the lemmas about sequences.        *)
LEMMA CacheIsWellFormed ==
  ASSUME NEW known
  PROVE  CacheOK(known) <=> WellFormed(known)
<1> DEFINE Type == known \in Seq(CacheEntries)
<1>1. Type <=> known \in Seq([document : Documents, chunks : Seq({p[2] : p \in Passages})])
  BY DEF CacheEntries, Chunks
<1>2. ASSUME Type
      PROVE  Unique(known, DocumentOf)
               <=> \A i, j \in DOMAIN known : known[i].document = known[j].document => i = j
  <2>1. \A i \in DOMAIN known : known[i] \in CacheEntries
    BY <1>2
  <2>2. \A i \in DOMAIN known : DocumentOf[known[i]] = known[i].document
    BY <2>1 DEF DocumentOf
  <2>. QED BY <2>2 DEF Unique
<1>3. (\A i \in DOMAIN known : EntryOK(known[i]))
        <=> \A i \in DOMAIN known :
              Len(known[i].chunks) \in 1 .. MaxChunks /\ Distinct(known[i].chunks)
  BY DEF EntryOK
<1> HIDE DEF Type
<1>4. CacheOK(known) <=> Type /\ Unique(known, DocumentOf) /\ \A i \in DOMAIN known : EntryOK(known[i])
  BY <1>1, <1>2, <1>3 DEF CacheOK
<1>. QED BY <1>4 DEF WellFormed, Type

(* A passage is a document and a chunk. *)
LEMMA PassageParts ==
  ASSUME NEW p \in Passages
  PROVE  p[1] \in Documents /\ p[2] \in Chunks /\ p = <<p[1], p[2]>>
BY McpBrokerAssumption DEF Documents, Chunks

PlacesOf(known, p) == {k \in DOMAIN known : known[k].document = p[1]}
OldChunks(known, p) == IF PlacesOf(known, p) = {} THEN <<>> ELSE known[CHOOSE k \in PlacesOf(known, p) : TRUE].chunks
NewEntry(known, p) ==
  [document |-> p[1], chunks |-> RememberChunk(OldChunks(known, p), p[2])]

(* What RememberResult puts at the end of the cache. *)
LEMMA ResultEntry ==
  ASSUME NEW known, WellFormed(known), NEW p \in Passages, MaxChunks >= 1
  PROVE  /\ RememberResult(known, p) = Append(Delete(known, PlacesOf(known, p)), NewEntry(known, p))
         /\ PlacesOf(known, p) \in SUBSET DOMAIN known /\ AtMostOne(PlacesOf(known, p))
         /\ OldChunks(known, p) \in Seq(Chunks) /\ Distinct(OldChunks(known, p))
         /\ \A k \in PlacesOf(known, p) : OldChunks(known, p) = known[k].chunks
         /\ PlacesOf(known, p) = {} => OldChunks(known, p) = <<>>
         /\ NewEntry(known, p) \in CacheEntries /\ EntryOK(NewEntry(known, p))
         /\ NewEntry(known, p).document = p[1]
         /\ NewEntry(known, p).chunks = RememberChunk(OldChunks(known, p), p[2])
<1> DEFINE K == PlacesOf(known, p)
           o == OldChunks(known, p)
<1>1. RememberResult(known, p) = Append(Delete(known, K), NewEntry(known, p))
  BY DEF RememberResult, PlacesOf, NewEntry, OldChunks
<1>2. known \in Seq(CacheEntries) /\ \A k \in DOMAIN known : known[k] \in CacheEntries
  BY DEF WellFormed
<1>3. K \in SUBSET DOMAIN known /\ AtMostOne(K)
  <2>1. \A i \in DOMAIN known : DocumentOf[known[i]] = known[i].document
    BY <1>2 DEF DocumentOf
  <2>. QED BY <2>1 DEF WellFormed, Unique, PlacesOf, AtMostOne
<1>4. \A k \in K : o = known[k].chunks
  BY <1>3 DEF OldChunks, AtMostOne
<1>5. K = {} => o = <<>>
  BY DEF OldChunks
<1>6. o \in Seq(Chunks) /\ Distinct(o)
  <2>1. CASE K = {}
    <3>1. <<>> \in Seq(Chunks) /\ Distinct(<<>>)
      BY DEF Distinct
    <3>. QED BY <1>5, <2>1, <3>1
  <2>2. CASE K # {}
    <3>1. PICK k \in K : TRUE
      BY <2>2
    <3>2. k \in DOMAIN known /\ known[k].chunks \in Seq(Chunks) /\ EntryOK(known[k])
      BY <1>2, <1>3, <3>1 DEF CacheEntries, WellFormed
    <3>. QED BY <1>4, <3>1, <3>2 DEF EntryOK
  <2>. QED BY <2>1, <2>2
<1>7. p[1] \in Documents /\ p[2] \in Chunks
  BY PassageParts
<1> DEFINE c == RememberChunk(o, p[2])
<1>8. c \in Seq(Chunks) /\ Len(c) \in 1 .. MaxChunks /\ Distinct(c)
  <2> HIDE DEF o, c
  <2>1. /\ RememberChunk(o, p[2]) \in Seq(Chunks)
        /\ Len(RememberChunk(o, p[2])) \in 1 .. MaxChunks
        /\ Distinct(RememberChunk(o, p[2]))
    BY <1>6, <1>7, ChunkRemembered
  <2>. QED BY <2>1 DEF c
<1>9. NewEntry(known, p) = [document |-> p[1], chunks |-> c]
  BY DEF NewEntry
<1> HIDE DEF c
<1>10. /\ NewEntry(known, p) \in CacheEntries /\ EntryOK(NewEntry(known, p))
       /\ NewEntry(known, p).document = p[1] /\ NewEntry(known, p).chunks = c
  BY <1>7, <1>8, <1>9 DEF CacheEntries, EntryOK
<1>. QED BY <1>1, <1>3, <1>4, <1>5, <1>6, <1>10 DEF c

(* RememberResult keeps a well-formed cache: a document once, a chunk of it *)
(* once, and no more chunks of it than are kept.                            *)
LEMMA ResultKeepsCache ==
  ASSUME NEW known, WellFormed(known), NEW p \in Passages, MaxChunks >= 1
  PROVE  WellFormed(RememberResult(known, p))
<1> DEFINE K == PlacesOf(known, p)
           d == Delete(known, K)
           e == NewEntry(known, p)
           r == Append(d, e)
<1>1. /\ RememberResult(known, p) = r /\ K \in SUBSET DOMAIN known /\ AtMostOne(K)
      /\ e \in CacheEntries /\ EntryOK(e) /\ e.document = p[1]
  BY ResultEntry
<1>2. known \in Seq(CacheEntries) /\ Unique(known, DocumentOf)
  BY DEF WellFormed
<1>3. \A k \in DOMAIN known \ K : known[k].document # p[1]
  BY DEF PlacesOf
<1> HIDE DEF K, e
<1>4. d \in Seq(CacheEntries)
  BY <1>1, <1>2, Deleted
<1>5. Unique(d, DocumentOf) /\ \A j \in DOMAIN d : \E i \in DOMAIN known \ K : d[j] = known[i]
  BY <1>1, <1>2, DeletedDistinct
<1> HIDE DEF d
<1>6. \A j \in DOMAIN d : d[j] \in CacheEntries /\ EntryOK(d[j]) /\ d[j].document # p[1]
  BY <1>3, <1>4, <1>5 DEF WellFormed
<1>7. \A j \in DOMAIN d : DocumentOf[d[j]] # DocumentOf[e]
  BY <1>1, <1>6 DEF DocumentOf
<1>8. Unique(r, DocumentOf)
  BY <1>1, <1>4, <1>5, <1>7, DistinctAppend
<1>9. r \in Seq(CacheEntries) /\ DOMAIN r = DOMAIN d \cup {Len(d) + 1}
      /\ r[Len(d) + 1] = e /\ \A j \in DOMAIN d : r[j] = d[j]
  BY <1>1, <1>4
<1>10. \A j \in DOMAIN r : EntryOK(r[j])
  BY <1>1, <1>6, <1>9
<1> HIDE DEF r
<1>. QED BY <1>1, <1>8, <1>9, <1>10 DEF WellFormed

(* The result is the newest, and what was recent stays it. *)
LEMMA ResultIsRecent ==
  ASSUME NEW known, WellFormed(known), NEW p \in Passages, MaxChunks >= 1
  PROVE  /\ Recent(RememberResult(known, p), p, 0)
         /\ \A q \in Passages, n \in Nat : Recent(known, q, n) /\ q # p /\ n + 1 < MaxChunks
              => Recent(RememberResult(known, p), q, n + 1)
<1> DEFINE K == PlacesOf(known, p)
           o == OldChunks(known, p)
           c == RememberChunk(o, p[2])
           d == Delete(known, K)
           e == NewEntry(known, p)
           r == Append(d, e)
<1>1. /\ RememberResult(known, p) = r /\ K \in SUBSET DOMAIN known
      /\ e \in CacheEntries /\ e.document = p[1] /\ e.chunks = c
      /\ o \in Seq(Chunks) /\ Distinct(o) /\ \A k \in K : o = known[k].chunks
  BY ResultEntry
<1>2. known \in Seq(CacheEntries)
  BY DEF WellFormed
<1>3. p[2] \in Chunks
  BY PassageParts
<1>4. /\ Near(c, p[2], 0)
      /\ \A x \in Chunks, n \in Nat : Near(o, x, n) /\ x # p[2] /\ n + 1 < MaxChunks
           => Near(c, x, n + 1)
  <2> HIDE DEF o
  <2>. QED BY <1>1, <1>3, ChunkRemembered
<1>5. \A k \in DOMAIN known : k \in K <=> known[k].document = p[1]
  BY DEF PlacesOf
<1> HIDE DEF K, e, o, c
<1>6. d \in Seq(CacheEntries)
      /\ \A i \in DOMAIN known \ K : \E j \in DOMAIN d :
           d[j] = known[i] /\ Len(d) - j <= Len(known) - i
  BY <1>1, <1>2, Deleted
<1> HIDE DEF d
<1>7. /\ r \in Seq(CacheEntries) /\ DOMAIN r = DOMAIN d \cup {Len(r)} /\ Len(r) = Len(d) + 1
      /\ r[Len(r)] = e /\ \A j \in DOMAIN d : r[j] = d[j]
  BY <1>1, <1>6
<1>8. Len(r) \in Nat /\ Len(d) \in Nat /\ Len(known) \in Nat /\ DOMAIN d = 1 .. Len(d)
  BY <1>2, <1>6, <1>7
<1> HIDE DEF r
<1>9. Recent(r, p, 0)
  <2>1. Len(r) \in DOMAIN r /\ Len(r) - Len(r) <= 0
    BY <1>7, <1>8
  <2>. QED BY <1>1, <1>4, <1>7, <2>1 DEF Recent
<1>10. ASSUME NEW q \in Passages, NEW n \in Nat, Recent(known, q, n), q # p, n + 1 < MaxChunks
       PROVE  Recent(r, q, n + 1)
  <2>1. PICK i \in DOMAIN known :
          known[i].document = q[1] /\ Len(known) - i <= n /\ Near(known[i].chunks, q[2], n)
    BY <1>10 DEF Recent
  <2>2. CASE i \in K
    <3>1. q[1] = p[1] /\ q[2] # p[2] /\ q[2] \in Chunks
      <4>1. q[1] = p[1]
        BY <1>5, <2>1, <2>2
      <4>2. q = <<q[1], q[2]>> /\ p = <<p[1], p[2]>> /\ q[2] \in Chunks
        BY PassageParts
      <4>. QED BY <1>10, <4>1, <4>2
    <3>2. Near(o, q[2], n)
      BY <1>1, <2>1, <2>2
    <3>3. Near(c, q[2], n + 1)
      BY <1>4, <1>10, <3>1, <3>2
    <3>4. Len(r) \in DOMAIN r /\ Len(r) - Len(r) <= n + 1
      BY <1>7, <1>8
    <3>. QED BY <1>1, <1>7, <3>1, <3>3, <3>4 DEF Recent
  <2>3. CASE i \notin K
    <3>1. PICK j \in DOMAIN d : d[j] = known[i] /\ Len(d) - j <= Len(known) - i
      BY <1>6, <2>3
    <3>2. j \in DOMAIN r /\ r[j] = known[i]
      BY <1>7, <3>1
    <3>3. Len(r) - j <= n + 1
      <4>1. i \in Nat /\ j \in Nat
        BY <1>2, <1>8
      <4>. QED BY <1>7, <1>8, <2>1, <3>1, <4>1
    <3>4. Near(known[i].chunks, q[2], n + 1)
      <4>1. known[i].chunks \in Seq(Chunks)
        <5>1. known[i] \in CacheEntries
          BY <1>2
        <5>. QED BY <5>1 DEF CacheEntries
      <4> DEFINE s == known[i].chunks
      <4>2. PICK k \in DOMAIN s : s[k] = q[2] /\ Len(s) - k <= n
        BY <2>1 DEF Near
      <4>3. Len(s) - k <= n + 1
        BY <4>1, <4>2
      <4>. QED BY <4>2, <4>3 DEF Near
    <3>. QED BY <2>1, <3>2, <3>3, <3>4 DEF Recent
  <2>. QED BY <2>2, <2>3
<1>. QED BY <1>1, <1>9, <1>10

(* Nothing gets into the cache but the result. *)
LEMMA ResultAddsIt ==
  ASSUME NEW known, WellFormed(known), NEW p \in Passages, MaxChunks >= 1, NEW P, Within(known, P),
         p \in P
  PROVE  Within(RememberResult(known, p), P)
<1> DEFINE K == PlacesOf(known, p)
           o == OldChunks(known, p)
           c == RememberChunk(o, p[2])
           d == Delete(known, K)
           e == NewEntry(known, p)
           r == Append(d, e)
<1>1. /\ RememberResult(known, p) = r /\ K \in SUBSET DOMAIN known
      /\ e \in CacheEntries /\ e.document = p[1] /\ e.chunks = c
      /\ o \in Seq(Chunks) /\ Distinct(o) /\ \A k \in K : o = known[k].chunks
      /\ K = {} => o = <<>>
  BY ResultEntry
<1>2. known \in Seq(CacheEntries)
  BY DEF WellFormed
<1>3. p[2] \in Chunks /\ p = <<p[1], p[2]>>
  BY PassageParts
<1>4. \A j \in DOMAIN c : c[j] = p[2] \/ \E i \in DOMAIN o : c[j] = o[i]
  <2> HIDE DEF o
  <2>. QED BY <1>1, <1>3, ChunkRemembered
<1>5. \A k \in K : known[k].document = p[1]
  BY DEF PlacesOf
<1> HIDE DEF K, e, o, c
<1>6. d \in Seq(CacheEntries) /\ \A j \in DOMAIN d : \E i \in DOMAIN known : d[j] = known[i]
  BY <1>1, <1>2, Deleted
<1> HIDE DEF d
<1>7. /\ DOMAIN r = DOMAIN d \cup {Len(d) + 1}
      /\ r[Len(d) + 1] = e /\ \A j \in DOMAIN d : r[j] = d[j]
  BY <1>1, <1>6
<1> HIDE DEF r
<1>8. ASSUME NEW j \in DOMAIN c PROVE <<p[1], c[j]>> \in P
  <2>1. CASE c[j] = p[2]
    BY <1>3, <2>1
  <2>2. CASE \E i \in DOMAIN o : c[j] = o[i]
    <3>1. PICK i \in DOMAIN o : c[j] = o[i]
      BY <2>2
    <3>2. K # {}
      BY <1>1, <3>1
    <3>3. PICK k \in K : TRUE
      BY <3>2
    <3>4. k \in DOMAIN known /\ o = known[k].chunks /\ known[k].document = p[1]
      BY <1>1, <1>5, <3>3
    <3>. QED BY <3>1, <3>4 DEF Within
  <2>. QED BY <1>4, <2>1, <2>2
<1>9. ASSUME NEW i \in DOMAIN r, NEW j \in DOMAIN r[i].chunks
      PROVE  <<r[i].document, r[i].chunks[j]>> \in P
  <2>1. CASE i \in DOMAIN d
    <3>1. PICK k \in DOMAIN known : r[i] = known[k]
      BY <1>6, <1>7, <2>1
    <3>. QED BY <1>9, <3>1 DEF Within
  <2>2. CASE i = Len(d) + 1
    BY <1>1, <1>7, <1>8, <1>9, <2>2
  <2>. QED BY <1>7, <1>9, <2>1, <2>2
<1>. QED BY <1>1, <1>9 DEF Within

PassageList(results, n) == Len(results) = n /\ \A k \in 1 .. n : results[k] \in Passages
Remembered(u, known, results, n) ==
  /\ u[0] = known /\ RememberAllResults(known, results) = u[n]
  /\ \A k \in 0 .. n : WellFormed(u[k])
  /\ \A k \in 1 .. n : u[k] = RememberResult(u[k - 1], results[k])

(* RememberAllResults is what remembering one result after the other        *)
(* arrives at.                                                              *)
LEMMA AllResultsRemembered ==
  ASSUME NEW known, WellFormed(known), NEW n \in Nat, NEW results, PassageList(results, n),
         n <= MaxChunks
  PROVE  \E u : Remembered(u, known, results, n)
<1> DEFINE S == {x \in Seq(CacheEntries) : WellFormed(x)}
           step == [q \in (1 .. n) \X S |-> RememberResult(q[2], results[q[1]])]
           Folded(u) == u = [k \in 0 .. n |->
                               IF k = 0 THEN known ELSE RememberResult(u[k - 1], results[k])]
<1>1. known \in S
  BY DEF WellFormed
<1>2. step \in [(1 .. n) \X S -> S]
  <2>1. ASSUME NEW k \in 1 .. n, NEW x \in S PROVE RememberResult(x, results[k]) \in S
    <3>1. MaxChunks >= 1 /\ results[k] \in Passages /\ WellFormed(x)
      BY McpBrokerAssumption DEF PassageList
    <3>2. WellFormed(RememberResult(x, results[k]))
      BY <3>1, ResultKeepsCache
    <3>. QED BY <3>2 DEF WellFormed
  <2>. QED BY <2>1
<1>3. PICK w \in [0 .. n -> S] : Computed(known, step, w, n)
  <2> HIDE DEF S, step
  <2>. QED BY <1>1, <1>2, Recursion
<1>4. w[0] = known
  BY <1>3 DEF Computed
<1>5. ASSUME NEW k \in 1 .. n PROVE w[k] = RememberResult(w[k - 1], results[k])
  <2>1. k - 1 \in 0 .. n
    OBVIOUS
  <2>2. w[k - 1] \in S
    <3> HIDE DEF S
    <3>. QED BY <2>1
  <2>3. w[k] = step[<<k, w[k - 1]>>]
    BY <1>3 DEF Computed
  <2> HIDE DEF S
  <2>. QED BY <2>2, <2>3
<1>6. Folded(w)
  <2>1. ASSUME NEW k \in 0 .. n
        PROVE  w[k] = IF k = 0 THEN known ELSE RememberResult(w[k - 1], results[k])
    <3>1. CASE k = 0
      BY <1>4, <3>1
    <3>2. CASE k # 0
      BY <1>5, <3>2
    <3>. QED BY <3>1, <3>2
  <2> HIDE DEF S
  <2>. QED BY <2>1
<1> DEFINE v == CHOOSE u : Folded(u)
<1>7. Folded(v)
  <2> HIDE DEF Folded
  <2>. QED BY <1>6
<1>8. RememberAllResults(known, results) = v[n]
  BY DEF RememberAllResults, PassageList
<1> HIDE DEF v, step
<1>9. v[0] = known
  BY <1>7
<1>10. ASSUME NEW k \in 1 .. n PROVE v[k] = RememberResult(v[k - 1], results[k])
  BY <1>7
<1>11. \A k \in 0 .. n : v[k] = w[k]
  <2>1. Alike(v, w, n)
    BY <1>4, <1>5, <1>9, <1>10 DEF Alike
  <2>. QED BY <2>1, RecursionUnique
<1>12. \A k \in 0 .. n : WellFormed(v[k])
  BY <1>11
<1>. QED BY <1>8, <1>9, <1>10, <1>12 DEF Remembered

(* The results of a search are different passages of current documents of   *)
(* the granted collection, no more of them than the cache keeps.            *)
LEMMA ResultsOfSearch ==
  ASSUME NEW results \in Results
  PROVE  /\ Len(results) \in Nat /\ DOMAIN results = 1 .. Len(results)
         /\ Len(results) <= MaxChunks /\ Len(results) <= MaxDocuments
         /\ \A k \in DOMAIN results : results[k] \in InScope /\ results[k] \in Passages
         /\ \A j, k \in DOMAIN results : results[j] = results[k] => j = k
         /\ Range(results) = {results[k] : k \in DOMAIN results}
<1>1. results \in UNION {[1 .. m -> InScope] : m \in 0 .. SearchLimit} /\ IsInjective(results)
  BY DEF Results, BoundedSeq, SeqOf
<1>2. PICK m \in 0 .. SearchLimit : results \in [1 .. m -> InScope]
  BY <1>1
<1>3. m \in Nat /\ m <= MaxChunks /\ m <= MaxDocuments
  BY McpBrokerAssumption
<1>4. results \in Seq(InScope) /\ Len(results) = m /\ DOMAIN results = 1 .. m
  BY <1>2, <1>3
<1>5. \A k \in 1 .. m : results[k] \in InScope
  BY <1>2
<1>6. InScope \subseteq Passages
  BY DEF InScope, GrantedPassages
<1>7. \A j, k \in DOMAIN results : results[j] = results[k] => j = k
  BY <1>1 DEF IsInjective
<1>8. Range(results) = {results[k] : k \in DOMAIN results}
  BY DEF Range
<1>. QED BY <1>3, <1>4, <1>5, <1>6, <1>7, <1>8

(* What a search leaves in the cache: it is well formed, within the limits, *)
(* holds every result, and nothing but them and what it held before.        *)
LEMMA SearchRemembers ==
  ASSUME WellFormed(cache), NEW results \in Results, NEW P, Within(cache, P), Range(results) \subseteq P
  PROVE  /\ WellFormed(RememberIssuedResults(cache, results))
         /\ Len(RememberIssuedResults(cache, results)) <= MaxDocuments
         /\ Within(RememberIssuedResults(cache, results), P)
         /\ \A p \in Range(results) : \E n \in Nat : Recent(RememberIssuedResults(cache, results), p, n)
<1> DEFINE n == Len(results)
           all == RememberAllResults(cache, results)
           r == LastOf(all, MaxDocuments)
<1>1. /\ n \in Nat /\ DOMAIN results = 1 .. n /\ n <= MaxChunks /\ n <= MaxDocuments
      /\ \A k \in 1 .. n : results[k] \in Passages /\ results[k] \in P
      /\ \A j, k \in 1 .. n : results[j] = results[k] => j = k
      /\ Range(results) = {results[k] : k \in 1 .. n}
  BY ResultsOfSearch
<1>2. MaxDocuments \in Nat /\ MaxChunks \in Nat
  BY McpBrokerAssumption
<1>0. PICK u : Remembered(u, cache, results, n)
  <2>1. PassageList(results, n)
    BY <1>1 DEF PassageList
  <2> HIDE DEF n
  <2>. QED BY <1>1, <2>1, AllResultsRemembered
<1>3. /\ u[0] = cache /\ all = u[n]
      /\ \A k \in 0 .. n : WellFormed(u[k])
      /\ \A k \in 1 .. n : u[k] = RememberResult(u[k - 1], results[k])
  BY <1>0 DEF Remembered
<1> HIDE DEF n, all
<1>4. Within(all, P)
  <2> DEFINE T == {k \in 0 .. n : Within(u[k], P)}
  <2>1. 0 \in T
    BY <1>1, <1>3
  <2>2. ASSUME NEW k \in 1 .. n, k - 1 \in T PROVE k \in T
    <3>1. k - 1 \in 0 .. n /\ MaxChunks >= 1
      BY <1>1, <1>2
    <3>2. WellFormed(u[k - 1]) /\ Within(u[k - 1], P) /\ results[k] \in Passages /\ results[k] \in P
      BY <1>1, <1>3, <2>2, <3>1
    <3>3. Within(RememberResult(u[k - 1], results[k]), P)
      BY <3>1, <3>2, ResultAddsIt
    <3>. QED BY <1>1, <1>3, <3>3
  <2>3. 0 .. n \subseteq T
    <3> HIDE DEF T
    <3>. QED BY <1>1, <2>1, <2>2, UpTo
  <2>. QED BY <1>1, <1>3, <2>3
<1>5. ASSUME NEW j \in 1 .. n PROVE Recent(all, results[j], n - j)
  <2> DEFINE T == {i \in 0 .. n - j : Recent(u[j + i], results[j], i)}
  <2>1. 0 \in T
    <3>1. j - 1 \in 0 .. n /\ MaxChunks >= 1 /\ j + 0 = j /\ 0 \in 0 .. n - j
      BY <1>1, <1>2
    <3>2. WellFormed(u[j - 1]) /\ u[j] = RememberResult(u[j - 1], results[j]) /\ results[j] \in Passages
      BY <1>1, <1>3, <3>1
    <3>3. Recent(RememberResult(u[j - 1], results[j]), results[j], 0)
      BY <3>1, <3>2, ResultIsRecent
    <3>. QED BY <3>1, <3>2, <3>3
  <2>2. ASSUME NEW i \in 1 .. n - j, i - 1 \in T PROVE i \in T
    <3> DEFINE k == j + i
               m == i - 1
    <3>1. /\ k \in 1 .. n /\ k - 1 \in 0 .. n /\ k - 1 = j + m /\ k # j /\ MaxChunks >= 1
          /\ m \in Nat /\ m + 1 = i /\ m + 1 < MaxChunks /\ i \in 0 .. n - j
      BY <1>1, <1>2
    <3>2. Recent(u[j + m], results[j], m)
      BY <2>2
    <3> HIDE DEF k, m
    <3>3. /\ WellFormed(u[k - 1]) /\ u[k] = RememberResult(u[k - 1], results[k])
          /\ results[k] \in Passages /\ results[j] \in Passages /\ results[j] # results[k]
      BY <1>1, <1>3, <3>1
    <3>4. Recent(u[k - 1], results[j], m)
      BY <3>1, <3>2
    <3>5. Recent(RememberResult(u[k - 1], results[k]), results[j], m + 1)
      BY <3>1, <3>3, <3>4, ResultIsRecent
    <3>6. Recent(u[k], results[j], i)
      BY <3>1, <3>3, <3>5
    <3>. QED BY <3>1, <3>6 DEF k
  <2>3. n - j \in Nat /\ n - j \in 0 .. n - j /\ j + (n - j) = n
    BY <1>1
  <2>4. 0 .. n - j \subseteq T
    <3> HIDE DEF T
    <3>. QED BY <2>1, <2>2, <2>3, UpTo
  <2>5. Recent(u[j + (n - j)], results[j], n - j)
    BY <2>3, <2>4
  <2>. QED BY <1>3, <2>3, <2>5
<1>6. WellFormed(all)
  BY <1>1, <1>3
<1>7. all \in Seq(CacheEntries) /\ Unique(all, DocumentOf) /\ \A i \in DOMAIN all : EntryOK(all[i])
  BY <1>6 DEF WellFormed
<1>8. /\ r \in Seq(CacheEntries)
      /\ Len(r) = IF Len(all) <= MaxDocuments THEN Len(all) ELSE MaxDocuments
      /\ \A k \in DOMAIN r : /\ k + (Len(all) - Len(r)) \in DOMAIN all
                             /\ r[k] = all[k + (Len(all) - Len(r))]
  BY <1>2, <1>7, LastElements
<1>9. Unique(r, DocumentOf)
  BY <1>2, <1>7, DistinctLast
<1>10. ASSUME NEW j \in 1 .. n PROVE Recent(r, results[j], n - j)
  <2>1. PICK i \in DOMAIN all :
          /\ all[i].document = results[j][1] /\ Len(all) - i <= n - j
          /\ Near(all[i].chunks, results[j][2], n - j)
    BY <1>5 DEF Recent
  <2> DEFINE x == all[i]
  <2>2. Near(all, x, n - j)
    BY <2>1 DEF Near
  <2>3. n - j \in Nat /\ n - j < MaxDocuments
    BY <1>1, <1>2
  <2> HIDE DEF x
  <2>4. Near(r, x, n - j)
    BY <1>2, <1>7, <2>2, <2>3, NearLast
  <2>. QED BY <2>1, <2>4 DEF Near, Recent, x
<1>11. RememberIssuedResults(cache, results) = r
  BY DEF RememberIssuedResults, all
<1> HIDE DEF r
<1>12. WellFormed(r)
  BY <1>7, <1>8, <1>9 DEF WellFormed
<1>13. Len(r) <= MaxDocuments
  BY <1>2, <1>7, <1>8
<1>14. Within(r, P)
  BY <1>4, <1>8 DEF Within
<1>15. ASSUME NEW p \in Range(results) PROVE \E m \in Nat : Recent(r, p, m)
  <2>1. PICK j \in 1 .. n : p = results[j]
    BY <1>1
  <2>2. n - j \in Nat
    BY <1>1
  <2>. QED BY <1>10, <2>1, <2>2
<1>. QED BY <1>11, <1>12, <1>13, <1>14, <1>15

-----------------------------------------------------------------------------
(* Sessions *)

(* A step leaves the session as it is, ends or starts one, or handles a     *)
(* request of one.                                                          *)
SessionStays == UNCHANGED <<active, sessionVars>> /\ (link = "serving") = (link' = "serving")
SessionEnds ==
  /\ link' = "closed" /\ active' = FALSE /\ cache' = cache
  /\ handled' = 0 /\ issued' = {} /\ disclosed' = Nothing
SessionStarts ==
  /\ link = "greeted" /\ link' = "serving" /\ active' = TRUE /\ cache' = <<>>
  /\ UNCHANGED <<handled, issued, disclosed>>
Served == link = "serving" /\ link' = "serving" /\ UNCHANGED active
Searched == Served /\ \E results \in Results :
  /\ cache' = RememberIssuedResults(cache, results)
  /\ issued' = issued \cup Range(results)
  /\ disclosed' = [by |-> "search", found |-> Range(results)]
Fetched == Served /\ UNCHANGED <<cache, issued>> /\ \E p \in Passages, c \in Chunks \cup {Whole} :
  IsIssued(p[1], c) /\ disclosed' = [by |-> "fetch", document |-> p[1], chunk |-> c]
Refused == Served /\ UNCHANGED <<cache, issued>> /\ disclosed' = Nothing
SessionCourse ==
  /\ link' \in {"none", "handshake", "greeted", "serving", "closed"}
  /\ SessionStays \/ SessionEnds \/ SessionStarts \/ Searched \/ Fetched \/ Refused

(* There is no other course a step may take. *)
LEMMA SessionCourses ==
  ASSUME SessionInvariant, [BrokerNext]_brokerVars
  PROVE  SessionCourse
<1> USE DEF SessionCourse
<1>0. link \in {"none", "handshake", "greeted", "serving", "closed"} /\ active = (link = "serving")
  BY DEF SessionInvariant
<1>1. ASSUME Close PROVE SessionCourse
  BY <1>1 DEF Close, SessionEnds
<1>2. CASE Connect
  BY <1>0, <1>2 DEF Connect, SessionStays, sessionVars
<1>3. CASE Request
  BY <1>0, <1>3 DEF Request, SessionStays, sessionVars
<1>4. CASE Ready
  BY <1>0, <1>4 DEF Ready, SessionStays, sessionVars
<1>5. CASE Disconnect
  BY <1>1, <1>5 DEF Disconnect
<1>6. CASE Chunk
  <2>1. PICK n \in 1 .. Len(wire) : Greet(n) \/ Receive(n)
    BY <1>6 DEF Chunk
  <2>2. CASE Greet(n)
    <3>1. /\ link = "handshake" /\ link' \in {"handshake", "greeted"}
          /\ UNCHANGED <<active, sessionVars>>
      BY <2>2 DEF Greet
    <3>. QED BY <3>1 DEF SessionStays
  <2>3. CASE Receive(n)
    <3>1. Close \/ UNCHANGED <<link, active, sessionVars>>
      BY <2>3 DEF Receive
    <3>. QED BY <1>0, <1>1, <3>1 DEF SessionStays
  <2>. QED BY <2>1, <2>2, <2>3
<1>7. CASE Adopt
  <2>1. Close \/ SessionStarts
    BY <1>7 DEF Adopt, SessionStarts, NewServer
  <2>. QED BY <1>1, <2>1 DEF SessionStarts
<1>8. ASSUME NextRequest PROVE Served
  BY <1>8 DEF NextRequest, Served
<1>9. CASE Handle
  <2>1. CASE Search
    <3>1. Searched
      BY <1>8, <2>1 DEF Search, Searched
    <3>. QED BY <3>1 DEF Searched, Served
  <2>2. CASE Refuse
    <3>1. Refused
      BY <1>8, <2>2 DEF Refuse, Refused
    <3>. QED BY <3>1 DEF Refused, Served
  <2>3. CASE \E p \in Passages, c \in {q[2] : q \in Passages} \cup {Whole} : Fetch(p[1], c)
    <3>1. Fetched
      BY <1>8, <2>3 DEF Fetch, Fetched, Chunks
    <3>. QED BY <3>1 DEF Fetched, Served
  <2>. QED BY <1>9, <2>1, <2>2, <2>3 DEF Handle
<1>10. CASE ChangeVault \/ CloseVault
  BY <1>0, <1>10 DEF ChangeVault, CloseVault, Changed, SessionStays, sessionVars, pipe
<1>11. CASE StopMcpBroker
  <2>1. Close \/ UNCHANGED <<link, active, sessionVars>>
    BY <1>11 DEF StopMcpBroker, pipe
  <2>. QED BY <1>0, <1>1, <2>1 DEF SessionStays
<1>12. CASE UNCHANGED brokerVars
  BY <1>0, <1>12 DEF brokerVars, SessionStays, sessionVars, pipe
<1>. QED BY <1>2, <1>3, <1>4, <1>5, <1>6, <1>7, <1>9, <1>10, <1>11, <1>12 DEF BrokerNext

(* The session's invariant holds at the start and is kept by every step.    *)
LEMMA SessionInit == BrokerInit => SessionInvariant
<1>. SUFFICES ASSUME BrokerInit PROVE SessionInvariant
  OBVIOUS
<1>1. CacheOK(<<>>) /\ Len(<<>>) <= MaxDocuments
  BY McpBrokerAssumption DEF CacheOK
<1>2. LatestIsFetchable
  BY DEF BrokerInit, LatestIsFetchable, Nothing
<1>. QED BY <1>1, <1>2 DEF BrokerInit, SessionInvariant

(* Every course keeps it. *)
LEMMA SessionStep == SessionInvariant /\ [BrokerNext]_brokerVars => SessionInvariant'
<1>. SUFFICES ASSUME SessionInvariant, [BrokerNext]_brokerVars PROVE SessionInvariant'
  OBVIOUS
<1>1. SessionCourse
  BY SessionCourses
<1>2. /\ active = (link = "serving") /\ CacheOK(cache) /\ Len(cache) <= MaxDocuments
      /\ issued \subseteq GrantedPassages /\ (link = "serving" => Within(cache, issued))
      /\ (link # "serving" => handled = 0 /\ issued = {} /\ disclosed = Nothing)
      /\ LatestIsFetchable
  BY DEF SessionInvariant
<1>3. CASE SessionStays
  <2>1. LatestIsFetchable'
    BY <1>2, <1>3 DEF SessionStays, sessionVars, LatestIsFetchable, IsIssued
  <2>. QED BY <1>1, <1>2, <1>3, <2>1 DEF SessionStays, sessionVars, SessionInvariant, SessionCourse
<1>4. CASE SessionEnds
  <2>1. LatestIsFetchable'
    BY <1>4 DEF SessionEnds, LatestIsFetchable, Nothing
  <2>. QED BY <1>2, <1>4, <2>1 DEF SessionEnds, SessionInvariant
<1>5. CASE SessionStarts
  <2>1. disclosed' = Nothing /\ issued' = {}
    BY <1>2, <1>5 DEF SessionStarts
  <2>2. LatestIsFetchable'
    BY <2>1 DEF LatestIsFetchable, Nothing
  <2>3. CacheOK(cache') /\ Len(cache') <= MaxDocuments /\ Within(cache', {})
    BY <1>5, McpBrokerAssumption DEF SessionStarts, CacheOK, Within
  <2>. QED BY <1>5, <2>1, <2>2, <2>3 DEF SessionStarts, SessionInvariant
<1>6. CASE Searched
  <2>1. PICK results \in Results :
          /\ cache' = RememberIssuedResults(cache, results)
          /\ issued' = issued \cup Range(results)
          /\ disclosed' = [by |-> "search", found |-> Range(results)]
    BY <1>6 DEF Searched
  <2>2. Range(results) \subseteq GrantedPassages
    <3>1. \A k \in DOMAIN results : results[k] \in InScope
      BY ResultsOfSearch
    <3>2. Range(results) = {results[k] : k \in DOMAIN results}
      BY ResultsOfSearch
    <3>. QED BY <3>1, <3>2 DEF InScope
  <2> DEFINE P == issued \cup Range(results)
  <2>3. WellFormed(cache) /\ Within(cache, P) /\ Range(results) \subseteq P
    BY <1>2, <1>6, CacheIsWellFormed DEF Searched, Served, Within
  <2> HIDE DEF P
  <2>4. /\ WellFormed(cache') /\ Len(cache') <= MaxDocuments /\ Within(cache', P)
        /\ \A p \in Range(results) : \E n \in Nat : Recent(cache', p, n)
    BY <2>1, <2>3, SearchRemembers
  <2>5. WellFormed(cache)' /\ \A p \in Range(results) : \E n \in Nat : Recent(cache, p, n)'
    BY <2>4 DEF WellFormed, Recent
  <2>6. \A p \in Range(results) : IsIssued(p[1], p[2])' /\ IsIssued(p[1], Whole)'
    <3>1. ASSUME NEW p \in Range(results) PROVE IsIssued(p[1], p[2])' /\ IsIssued(p[1], Whole)'
      <4>1. PICK n \in Nat : Recent(cache, p, n)'
        BY <2>5
      <4>2. PICK i \in DOMAIN cache' : cache'[i].document = p[1] /\ Near(cache'[i].chunks, p[2], n)
        BY <4>1 DEF Recent
      <4>3. cache'[i] \in Range(cache')
        BY DEF Range
      <4>4. p[2] \in Range(cache'[i].chunks)
        BY <4>2 DEF Near, Range
      <4>. QED BY <4>2, <4>3, <4>4 DEF IsIssued
    <3>. QED BY <3>1
  <2>7. LatestIsFetchable'
    BY <2>1, <2>6 DEF LatestIsFetchable
  <2>8. CacheOK(cache')
    BY <2>4, CacheIsWellFormed
  <2>9. issued' = P
    BY <2>1 DEF P
  <2>10. link = "serving" /\ link' = "serving" /\ active' = active /\ issued' \subseteq GrantedPassages
    BY <1>2, <1>6, <2>1, <2>2 DEF Searched, Served
  <2>. QED BY <1>2, <2>4, <2>7, <2>8, <2>9, <2>10 DEF SessionInvariant
<1>7. CASE Fetched
  <2>1. LatestIsFetchable'
    BY <1>7 DEF Fetched, LatestIsFetchable
  <2>. QED BY <1>2, <1>7, <2>1 DEF Fetched, Served, SessionInvariant
<1>8. CASE Refused
  <2>1. LatestIsFetchable'
    BY <1>8 DEF Refused, LatestIsFetchable, Nothing
  <2>. QED BY <1>2, <1>8, <2>1 DEF Refused, Served, SessionInvariant
<1>. QED BY <1>1, <1>3, <1>4, <1>5, <1>6, <1>7, <1>8 DEF SessionCourse

(* The cache is in order in every state, within its limits, and what a      *)
(* session may fetch its own searches have returned.                        *)
THEOREM SessionInvariantHolds == BrokerSpec => []SessionInvariant
BY SessionInit, SessionStep, PTL DEF BrokerSpec

(* Every result of the latest search can be fetched (server.ts, whose cache *)
(* forgets the oldest documents and chunks), whatever the limits are that a *)
(* search keeps to.                                                         *)
THEOREM LatestAlwaysFetchable == BrokerSpec => []LatestIsFetchable
<1>1. SessionInvariant => LatestIsFetchable
  BY DEF SessionInvariant
<1>. QED BY <1>1, SessionInvariantHolds, PTL

(* What is issued names a passage the session has searched. *)
LEMMA IssuedIsSearched ==
  ASSUME SessionInvariant, link = "serving", NEW d, NEW c, IsIssued(d, c)
  PROVE  \E p \in issued : p[1] = d /\ c \in {Whole, p[2]}
<1>1. CacheOK(cache) /\ Within(cache, issued)
  BY DEF SessionInvariant
<1>2. PICK e \in Range(cache) : e.document = d /\ (c = Whole \/ c \in Range(e.chunks))
  BY DEF IsIssued
<1>3. PICK i \in DOMAIN cache : e = cache[i]
  BY <1>2 DEF Range
<1>4. e.chunks \in Seq(Chunks) /\ Len(e.chunks) >= 1
  <2>1. WellFormed(cache)
    BY <1>1, CacheIsWellFormed
  <2>2. e \in CacheEntries /\ EntryOK(e)
    BY <1>3, <2>1 DEF WellFormed
  <2>3. Len(e.chunks) \in 1 .. MaxChunks
    BY <2>2 DEF EntryOK
  <2>. QED BY <2>2, <2>3, McpBrokerAssumption DEF CacheEntries
<1>5. \A j \in DOMAIN e.chunks : <<d, e.chunks[j]>> \in issued
  BY <1>1, <1>2, <1>3 DEF Within
<1>6. CASE c = Whole
  <2>1. 1 \in DOMAIN e.chunks
    BY <1>4
  <2>. QED BY <1>5, <1>6, <2>1
<1>7. CASE c \in Range(e.chunks)
  <2>1. PICK j \in DOMAIN e.chunks : c = e.chunks[j]
    BY <1>7 DEF Range
  <2>. QED BY <1>5, <2>1
<1>. QED BY <1>2, <1>6, <1>7

(* The connection implements IssuedContext: a session serves nothing that   *)
(* was issued to another one, and discloses by a fetch only what one of its *)
(* own searches has returned, from the granted collection.                  *)
THEOREM IssuedContextImplemented == BrokerSpec => ImplementsIssuedContext
<1>1. BrokerInit => Context!Init
  BY DEF BrokerInit, Context!Init, Nothing, Context!Nothing
<1>2. SessionInvariant /\ [BrokerNext]_brokerVars => [Context!Next]_(Context!vars)
  <2>. SUFFICES ASSUME SessionInvariant, [BrokerNext]_brokerVars PROVE [Context!Next]_(Context!vars)
    OBVIOUS
  <2>1. SessionCourse
    BY SessionCourses
  <2>2. link # "serving" => issued = {} /\ disclosed = Nothing
    BY DEF SessionInvariant
  <2>3. CASE SessionStays
    BY <2>3 DEF SessionStays, sessionVars, Context!vars
  <2>4. CASE SessionEnds
    <3>1. CASE link = "serving"
      <4>1. Context!End
        BY <2>4, <3>1 DEF SessionEnds, Context!End, Nothing, Context!Nothing
      <4>. QED BY <4>1 DEF Context!Next
    <3>2. CASE link # "serving"
      BY <2>2, <2>4, <3>2 DEF SessionEnds, Context!vars
    <3>. QED BY <3>1, <3>2
  <2>5. CASE SessionStarts
    <3>1. Context!Serve
      BY <2>2, <2>5 DEF SessionStarts, Context!Serve, Nothing, Context!Nothing
    <3>. QED BY <3>1 DEF Context!Next
  <2>6. CASE Searched
    <3>1. PICK results \in Results :
            /\ issued' = issued \cup Range(results)
            /\ disclosed' = [by |-> "search", found |-> Range(results)]
      BY <2>6 DEF Searched
    <3>2. Range(results) \in SUBSET GrantedPassages
      <4>1. \A k \in DOMAIN results : results[k] \in InScope
        BY ResultsOfSearch
      <4>2. Range(results) = {results[k] : k \in DOMAIN results}
        BY ResultsOfSearch
      <4>. QED BY <4>1, <4>2 DEF InScope
    <3>3. Context!Search
      BY <2>6, <3>1, <3>2 DEF Searched, Served, Context!Search
    <3>. QED BY <3>3 DEF Context!Next
  <2>7. CASE Fetched
    <3>1. PICK p \in Passages, c \in Chunks \cup {Whole} :
            IsIssued(p[1], c) /\ disclosed' = [by |-> "fetch", document |-> p[1], chunk |-> c]
      BY <2>7 DEF Fetched
    <3>2. link = "serving" /\ link' = "serving" /\ issued' = issued
      BY <2>7 DEF Fetched, Served
    <3>3. PICK g \in issued : g[1] = p[1] /\ c \in {Whole, g[2]}
      BY <3>1, <3>2, IssuedIsSearched
    <3>4. g \in GrantedPassages /\ c \in {q[2] : q \in GrantedPassages} \cup {Whole}
      BY <3>3 DEF SessionInvariant
    <3>5. Context!Fetch(g[1], c)
      BY <3>1, <3>2, <3>3 DEF Context!Fetch
    <3>. QED BY <3>4, <3>5 DEF Context!Next
  <2>8. CASE Refused
    <3>1. Context!Withhold
      BY <2>8 DEF Refused, Served, Context!Withhold, Nothing, Context!Nothing
    <3>. QED BY <3>1 DEF Context!Next
  <2>. QED BY <2>1, <2>3, <2>4, <2>5, <2>6, <2>7, <2>8 DEF SessionCourse
<1>. QED BY <1>1, <1>2, SessionInvariantHolds, PTL DEF BrokerSpec, ImplementsIssuedContext, Context!Spec

-----------------------------------------------------------------------------
(* Frames *)

(* The numbers of the requests that are under way. *)
LEMMA NumberedType ==
  ASSUME NEW a \in Nat, NEW n \in Nat
  PROVE  /\ Numbered(a, n) \in Seq(Nat) /\ Len(Numbered(a, n)) = n
         /\ \A k \in 1 .. n : Numbered(a, n)[k] = a + k
<1>1. \A k \in 1 .. n : a + k \in Nat
  OBVIOUS
<1>. QED BY <1>1 DEF Numbered

(* Another request is the next number. *)
LEMMA NumberedAppend ==
  ASSUME NEW a \in Nat, NEW n \in Nat
  PROVE  Append(Numbered(a, n), a + n + 1) = Numbered(a, n + 1)
<1> DEFINE s == Append(Numbered(a, n), a + n + 1)
           t == Numbered(a, n + 1)
<1>1. /\ Numbered(a, n) \in Seq(Nat) /\ Len(Numbered(a, n)) = n
      /\ \A k \in 1 .. n : Numbered(a, n)[k] = a + k
  BY NumberedType
<1>2. /\ s \in Seq(Nat) /\ Len(s) = n + 1 /\ s[n + 1] = a + n + 1
      /\ \A k \in 1 .. n : s[k] = a + k
  BY <1>1
<1>3. t \in Seq(Nat) /\ Len(t) = n + 1 /\ \A k \in 1 .. n + 1 : t[k] = a + k
  <2>1. n + 1 \in Nat
    OBVIOUS
  <2>. QED BY <2>1, NumberedType
<1> HIDE DEF s, t
<1>4. \A k \in 1 .. n + 1 : s[k] = t[k]
  <2>1. \A k \in 1 .. n + 1 : k \in 1 .. n \/ k = n + 1
    OBVIOUS
  <2>. QED BY <1>2, <1>3, <2>1
<1>5. s = t
  BY <1>2, <1>3, <1>4, SeqEqual
<1>. QED BY <1>5 DEF s, t

(* The first is taken off. *)
LEMMA NumberedTail ==
  ASSUME NEW a \in Nat, NEW n \in Nat, n >= 1
  PROVE  Tail(Numbered(a, n)) = Numbered(a + 1, n - 1)
<1> DEFINE s == Numbered(a, n)
           t == Numbered(a + 1, n - 1)
<1>1. s \in Seq(Nat) /\ Len(s) = n /\ \A k \in 1 .. n : s[k] = a + k
  BY NumberedType
<1>2. t \in Seq(Nat) /\ Len(t) = n - 1 /\ \A k \in 1 .. n - 1 : t[k] = a + 1 + k
  <2>1. a + 1 \in Nat /\ n - 1 \in Nat
    OBVIOUS
  <2>. QED BY <2>1, NumberedType
<1> HIDE DEF s, t
<1>3. s # <<>>
  BY <1>1
<1>4. Tail(s) \in Seq(Nat) /\ Len(Tail(s)) = n - 1 /\ \A k \in 1 .. n - 1 : Tail(s)[k] = s[k + 1]
  BY <1>1, <1>3, HeadTailProperties
<1>5. \A k \in 1 .. n - 1 : Tail(s)[k] = t[k]
  <2>1. \A k \in 1 .. n - 1 : k + 1 \in 1 .. n /\ a + (k + 1) = a + 1 + k
    OBVIOUS
  <2>. QED BY <1>1, <1>2, <1>4, <2>1
<1>6. Tail(s) = t
  BY <1>2, <1>4, <1>5, SeqEqual
<1>. QED BY <1>6 DEF s, t

(* Whole frames follow whole frames. *)
LEMMA PairedConcat ==
  ASSUME NEW h \in Seq(Half), NEW g \in Seq(Half), Paired(h), Paired(g)
  PROVE  Paired(h \o g)
<1> DEFINE s == h \o g
           n == Len(h)
           m == Len(g)
<1>1. n \in Nat /\ m \in Nat /\ DOMAIN h = 1 .. n /\ DOMAIN g = 1 .. m
  OBVIOUS
<1>2. DOMAIN s = 1 .. n + m /\ \A k \in 1 .. n + m : s[k] = IF k <= n THEN h[k] ELSE g[k - n]
  <2>1. /\ s \in Seq(Half) /\ Len(s) = n + m
        /\ \A k \in 1 .. n + m : s[k] = IF k <= n THEN h[k] ELSE g[k - n]
    BY ConcatProperties
  <2>. QED BY <2>1
<1> HIDE DEF s, n, m
<1>3. ASSUME NEW k \in 1 .. n + m, s[k][2] = 2 PROVE k > 1 /\ s[k - 1][2] = 1
  <2>1. CASE k <= n
    <3>1. k \in 1 .. n /\ s[k] = h[k]
      BY <1>1, <1>2, <2>1
    <3>2. k > 1 /\ h[k - 1][2] = 1
      BY <1>1, <1>3, <3>1 DEF Paired
    <3>3. k - 1 \in 1 .. n + m /\ k - 1 <= n
      BY <1>1, <2>1, <3>2
    <3>. QED BY <1>2, <3>2, <3>3
  <2>2. CASE ~(k <= n)
    <3>1. k - n \in 1 .. m /\ s[k] = g[k - n]
      BY <1>1, <1>2, <2>2
    <3>2. k - n > 1 /\ g[(k - n) - 1][2] = 1
      BY <1>1, <1>3, <3>1 DEF Paired
    <3>3. k - 1 \in 1 .. n + m /\ ~(k - 1 <= n) /\ (k - 1) - n = (k - n) - 1 /\ k > 1
      BY <1>1, <2>2, <3>2
    <3>. QED BY <1>2, <3>2, <3>3
  <2>. QED BY <2>1, <2>2
<1>. QED BY <1>2, <1>3 DEF Paired, s

(* What is written of whole requests is whole frames. *)
LEMMA PairedAllHalves ==
  ASSUME NEW r \in Seq(Nat)
  PROVE  Paired(AllHalves(r))
<1> DEFINE n == Len(r)
           a == AllHalves(r)
<1>1. n \in Nat /\ DOMAIN a = 1 .. 2 * n /\ \A k \in 1 .. 2 * n : a[k][2] = 2 - (k % 2)
  <2>1. n \in Nat
    OBVIOUS
  <2>. QED BY <2>1 DEF AllHalves
<1> HIDE DEF n, a
<1>2. ASSUME NEW k \in 1 .. 2 * n, a[k][2] = 2 PROVE k > 1 /\ a[k - 1][2] = 1
  <2>1. 2 - (k % 2) = 2
    BY <1>1, <1>2
  <2>2. k > 1 /\ k - 1 \in 1 .. 2 * n /\ 2 - ((k - 1) % 2) = 1
    <3>1. k \in Nat /\ k >= 1 /\ k <= 2 * n
      BY <1>1
    <3>2. k % 2 = 0
      BY <2>1, <3>1
    <3>3. k # 1 /\ (k - 1) % 2 = 1
      BY <3>1, <3>2
    <3>. QED BY <1>1, <3>1, <3>3
  <2>3. a[k - 1][2] = 2 - ((k - 1) % 2)
    BY <1>1, <2>2
  <2>. QED BY <2>2, <2>3
<1>. QED BY <1>1, <1>2 DEF Paired, a

(* What Left keeps of a chunk is no line, and completes the rest.           *)
LEMMA LeftCompletes ==
  ASSUME NEW h \in Seq(Half), NEW g \in Seq(Half), h # <<>>, Paired(h \o g)
  PROVE  /\ Left(h) \in Seq(Half) /\ Lines(Left(h)) = <<>>
         /\ Paired(Left(h) \o g)
<1> DEFINE s == h \o g
           n == Len(h)
           m == Len(g)
           x == h[n]
           l == Left(h)
           t == l \o g
<1>1. n \in Nat /\ n >= 1 /\ m \in Nat /\ DOMAIN h = 1 .. n /\ DOMAIN g = 1 .. m /\ x \in Half
  BY EmptySeq
<1>2. s \in Seq(Half) /\ \A k \in 1 .. n + m : s[k] = IF k <= n THEN h[k] ELSE g[k - n]
  BY ConcatProperties
<1>3. DOMAIN s = 1 .. n + m
  <2>1. Len(s) = n + m
    BY ConcatProperties
  <2>. QED BY <1>2, <2>1
<1>4. l = IF x[2] = 1 THEN <<x>> ELSE <<>>
  BY DEF Left, Last
<1>5. l \in Seq(Half) /\ Lines(l) = <<>>
  <2>1. CASE x[2] = 1
    <3> DEFINE e == <<>>
    <3>1. l = Append(e, x) /\ e \in Seq(Half)
      BY <1>4, <2>1
    <3>2. Lines(Append(e, x)) = Lines(e)
      <4> HIDE DEF e, l, x
      <4>. QED BY <1>1, <2>1, <3>1, LinesOfAppend
    <3>3. l \in Seq(Half)
      BY <1>1, <1>4, <2>1
    <3>. QED BY <3>1, <3>2, <3>3, LinesOfNone
  <2>2. CASE x[2] # 1
    <3>1. l = <<>>
      BY <1>4, <2>2
    <3>. QED BY <3>1, LinesOfNone
  <2>. QED BY <2>1, <2>2
<1>6. Paired(g) \/ (x[2] = 1 /\ m >= 1 /\ \A k \in 2 .. m : g[k][2] = 2 => g[k - 1][2] = 1)
  <2>1. ASSUME NEW k \in 2 .. m, g[k][2] = 2 PROVE g[k - 1][2] = 1
    <3>1. n + k \in 1 .. n + m /\ ~(n + k <= n) /\ (n + k) - n = k
      BY <1>1
    <3>2. (n + k) - 1 \in 1 .. n + m /\ ~((n + k) - 1 <= n) /\ ((n + k) - 1) - n = k - 1
      BY <1>1
    <3>3. s[n + k] = g[k] /\ s[(n + k) - 1] = g[k - 1]
      BY <1>2, <3>1, <3>2
    <3> HIDE DEF s, n, m
    <3>. QED BY <1>3, <2>1, <3>1, <3>3 DEF Paired, s
  <2>2. CASE m = 0
    BY <1>1, <2>2 DEF Paired
  <2>3. CASE m >= 1 /\ g[1][2] # 2
    <3>1. \A k \in 1 .. m : k = 1 \/ k \in 2 .. m
      BY <1>1
    <3>. QED BY <1>1, <2>1, <2>3, <3>1 DEF Paired
  <2>4. CASE m >= 1 /\ g[1][2] = 2
    <3>1. n + 1 \in 1 .. n + m /\ ~(n + 1 <= n) /\ (n + 1) - n = 1 /\ n \in 1 .. n + m /\ n <= n
          /\ (n + 1) - 1 = n
      BY <1>1, <2>4
    <3>2. s[n + 1] = g[1] /\ s[n] = x
      BY <1>2, <3>1
    <3> HIDE DEF s, n, m, x
    <3>3. x[2] = 1
      BY <1>3, <2>4, <3>1, <3>2 DEF Paired, s
    <3>. QED BY <2>1, <2>4, <3>3
  <2>. QED BY <1>1, <2>2, <2>3, <2>4
<1>7. Paired(t)
  <2>1. CASE Paired(g)
    <3>1. Paired(l)
      BY <1>1, <1>4 DEF Paired
    <3> HIDE DEF l
    <3>. QED BY <1>5, <2>1, <3>1, PairedConcat
  <2>2. CASE x[2] = 1 /\ m >= 1 /\ \A k \in 2 .. m : g[k][2] = 2 => g[k - 1][2] = 1
    <3>1. l = <<x>>
      BY <1>4, <2>2
    <3>2. l \in Seq(Half) /\ Len(l) = 1 /\ l[1] = x
      BY <1>1, <3>1
    <3> HIDE DEF l
    <3>3. /\ t \in Seq(Half) /\ Len(t) = 1 + m
          /\ \A k \in 1 .. 1 + m : t[k] = IF k <= 1 THEN l[k] ELSE g[k - 1]
      <4>1. /\ t \in Seq(Half) /\ Len(t) = Len(l) + m
            /\ \A k \in 1 .. Len(l) + m : t[k] = IF k <= Len(l) THEN l[k] ELSE g[k - Len(l)]
        BY <3>2, ConcatProperties
      <4> HIDE DEF t, m
      <4>. QED BY <3>2, <4>1
    <3> HIDE DEF t, m
    <3>4. DOMAIN t = 1 .. 1 + m /\ t[1] = x /\ \A k \in 2 .. 1 + m : t[k] = g[k - 1]
      BY <1>1, <3>2, <3>3
    <3> HIDE DEF x
    <3>5. ASSUME NEW k \in 1 .. 1 + m, t[k][2] = 2 PROVE k > 1 /\ t[k - 1][2] = 1
      <4>1. k # 1
        BY <2>2, <3>4, <3>5
      <4>2. CASE k = 2
        BY <2>2, <3>4, <4>2
      <4>3. CASE k # 2
        <5>1. k - 1 \in 2 .. m /\ k \in 2 .. 1 + m /\ k - 1 \in 2 .. 1 + m
          BY <1>1, <4>1, <4>3
        <5>2. t[k] = g[k - 1] /\ t[k - 1] = g[(k - 1) - 1]
          BY <3>4, <5>1
        <5>3. g[(k - 1) - 1][2] = 1
          BY <2>2, <3>5, <5>1, <5>2
        <5>. QED BY <5>1, <5>2, <5>3
      <4>. QED BY <1>1, <4>1, <4>2, <4>3
    <3>. QED BY <3>4, <3>5 DEF Paired
  <2>. QED BY <1>6, <2>1, <2>2
<1>. QED BY <1>5, <1>7

(* Three sequences may be put together from either end. *)
LEMMA Reassociated ==
  ASSUME NEW S, NEW s \in Seq(S), NEW t \in Seq(S), NEW u \in Seq(S)
  PROVE  s \o (t \o u) = (s \o t) \o u /\ (s \o t) \o u \in Seq(S)
<1>1. (s \o t) \o u = s \o (t \o u)
  BY ConcatAssociative
<1>2. (s \o t) \o u \in Seq(S)
  OBVIOUS
<1>. QED BY <1>1, <1>2

(* So may three sequences of requests. *)
LEMMA ReassociatedRequests ==
  ASSUME NEW s \in Seq(Nat), NEW t \in Seq(Nat), NEW u \in Seq(Nat)
  PROVE  s \o (t \o u) = (s \o t) \o u /\ (s \o t) \o u \in Seq(Nat)
<1> DEFINE S == Nat
<1>1. s \in Seq(S) /\ t \in Seq(S) /\ u \in Seq(S)
  OBVIOUS
<1> HIDE DEF S
<1>2. s \o (t \o u) = (s \o t) \o u /\ (s \o t) \o u \in Seq(S)
  BY <1>1, Reassociated
<1>. QED BY <1>2 DEF S

(* And of halves. *)
LEMMA ReassociatedHalves ==
  ASSUME NEW s \in Seq(Half), NEW t \in Seq(Half), NEW u \in Seq(Half)
  PROVE  s \o (t \o u) = (s \o t) \o u /\ (s \o t) \o u \in Seq(Half)
BY Reassociated

(* The tail of two sequences is the first one's, then the second. *)
LEMMA TailOfConcat ==
  ASSUME NEW S, NEW s \in Seq(S), s # <<>>, NEW t \in Seq(S)
  PROVE  Tail(s \o t) = Tail(s) \o t
<1> DEFINE n == Len(s)
           m == Len(t)
           u == Tail(s)
           v == s \o t
<1>1. n \in Nat /\ n >= 1 /\ m \in Nat
  BY EmptySeq
<1>2. /\ v \in Seq(S) /\ Len(v) = n + m
      /\ \A i \in 1 .. n + m : v[i] = IF i <= n THEN s[i] ELSE t[i - n]
  BY ConcatProperties
<1>3. u \in Seq(S) /\ Len(u) = n - 1 /\ \A i \in 1 .. n - 1 : u[i] = s[i + 1]
  BY HeadTailProperties
<1> HIDE DEF u, v
<1>4. /\ u \o t \in Seq(S) /\ Len(u \o t) = Len(u) + m
      /\ \A i \in 1 .. Len(u) + m : (u \o t)[i] = IF i <= Len(u) THEN u[i] ELSE t[i - Len(u)]
  BY <1>3, ConcatProperties
<1> DEFINE w == u \o t
<1>5. v # <<>>
  BY <1>1, <1>2
<1>6. Tail(v) \in Seq(S) /\ Len(Tail(v)) = (n + m) - 1
      /\ \A i \in 1 .. (n + m) - 1 : Tail(v)[i] = v[i + 1]
  BY <1>1, <1>2, <1>5, HeadTailProperties
<1> HIDE DEF n, m, w
<1>7. /\ w \in Seq(S) /\ Len(w) = (n - 1) + m
      /\ \A i \in 1 .. (n - 1) + m : w[i] = IF i <= n - 1 THEN u[i] ELSE t[i - (n - 1)]
  BY <1>3, <1>4 DEF w
<1>8. ASSUME NEW i \in 1 .. (n + m) - 1 PROVE Tail(v)[i] = w[i]
  <2>1. i + 1 \in 1 .. n + m /\ i \in 1 .. (n - 1) + m /\ (i + 1) - n = i - (n - 1)
    BY <1>1
  <2>2. CASE i <= n - 1
    <3>1. i + 1 <= n /\ i \in 1 .. n - 1
      BY <1>1, <2>2
    <3>. QED BY <1>2, <1>3, <1>6, <1>7, <2>1, <2>2, <3>1
  <2>3. CASE ~(i <= n - 1)
    <3>1. ~(i + 1 <= n)
      BY <1>1, <2>3
    <3>. QED BY <1>2, <1>6, <1>7, <2>1, <2>3, <3>1
  <2>. QED BY <2>2, <2>3
<1>9. (n + m) - 1 = (n - 1) + m
  BY <1>1
<1>10. Tail(v) = w
  BY <1>6, <1>7, <1>8, <1>9, SeqEqual
<1>. QED BY <1>10 DEF u, v, w

(* A request's two halves are a whole frame, and its line. *)
LEMMA HalvesOfOne ==
  ASSUME NEW i \in Nat
  PROVE  Halves(i) \in Seq(Half) /\ Lines(Halves(i)) = <<i>> /\ Paired(Halves(i))
<1> DEFINE r == <<i>>
           s == AllHalves(r)
           t == Halves(i)
<1>1. r \in Seq(Nat) /\ Len(r) = 1 /\ r[1] = i
  OBVIOUS
<1> HIDE DEF r
<1>2. s \in Seq(Half) /\ Len(s) = 2
  <2>1. s \in Seq(Half) /\ Len(s) = 2 * Len(r)
    BY <1>1, AllHalvesType
  <2>. QED BY <1>1, <2>1
<1>3. t \in Seq(Half) /\ Len(t) = 2 /\ t[1] = <<i, 1>> /\ t[2] = <<i, 2>>
  BY DEF Halves, Half
<1>4. s[1] = <<i, 1>> /\ s[2] = <<i, 2>>
  <2>1. \A k \in 1 .. 2 * 1 : s[k] = <<r[(k + 1) \div 2], 2 - (k % 2)>>
    BY <1>1 DEF AllHalves
  <2>2. (1 + 1) \div 2 = 1 /\ (2 + 1) \div 2 = 1 /\ 2 - (1 % 2) = 1 /\ 2 - (2 % 2) = 2
    OBVIOUS
  <2> HIDE DEF s
  <2>3. s[1] = <<r[1], 1>> /\ s[2] = <<r[1], 2>>
    <3>1. s[1] = <<r[(1 + 1) \div 2], 2 - (1 % 2)>> /\ s[2] = <<r[(2 + 1) \div 2], 2 - (2 % 2)>>
      <4>1. 1 \in 1 .. 2 * 1 /\ 2 \in 1 .. 2 * 1
        OBVIOUS
      <4>. QED BY <2>1, <4>1
    <3>. QED BY <2>2, <3>1
  <2>. QED BY <1>1, <2>3
<1> HIDE DEF s, t
<1>5. s = t
  <2>1. \A k \in 1 .. 2 : k = 1 \/ k = 2
    OBVIOUS
  <2>. QED BY <1>2, <1>3, <1>4, <2>1, SeqEqual
<1>6. Paired(s) /\ Lines(s) = r
  BY <1>1, PairedAllHalves, LinesOfAllHalves DEF s
<1>. QED BY <1>3, <1>5, <1>6 DEF r, t

\* Between the client and the tools: what is parsed, what crosses the pipe, what is
\* held back.
InOrder(parsed, halves, back, a, n) ==
  Paired(halves) /\ parsed \o Lines(halves) \o back = Numbered(a, n)

(* A request written behind the others is the next in order. *)
LEMMA RequestWritten ==
  ASSUME NEW parsed \in Seq(Nat), NEW h \in Seq(Half), NEW back \in Seq(Nat), back = <<>>,
         NEW a \in Nat, NEW n \in Nat, InOrder(parsed, h, back, a, n)
  PROVE  InOrder(parsed, h \o Halves(a + n + 1), back, a, n + 1)
<1> DEFINE i == a + n + 1
           g == Halves(i)
           l == Lines(h)
<1>1. i \in Nat
  OBVIOUS
<1> HIDE DEF i
<1>2. g \in Seq(Half) /\ Lines(g) = <<i>> /\ Paired(g) /\ l \in Seq(Nat)
  BY <1>1, HalvesOfOne, LinesType
<1> HIDE DEF g
<1>3. Paired(h \o g) /\ Lines(h \o g) = l \o <<i>>
  BY <1>2, PairedConcat, LinesOfConcat DEF InOrder
<1> HIDE DEF l
<1>4. parsed \o l \in Seq(Nat) /\ (parsed \o l) \o back = parsed \o l
  BY <1>2
<1>5. parsed \o (l \o <<i>>) \o back = Append(parsed \o l, i)
  <2>1. l \o <<i>> = Append(l, i) /\ Append(l, i) \in Seq(Nat)
    BY <1>1, <1>2
  <2>2. parsed \o Append(l, i) = Append(parsed \o l, i)
    BY <1>1, <1>2, RequestAppended
  <2>3. Append(parsed \o l, i) \in Seq(Nat)
    BY <1>1, <1>4
  <2>. QED BY <2>1, <2>2, <2>3, ConcatEmptySeq
<1>6. parsed \o l = Numbered(a, n)
  BY <1>4 DEF InOrder, l
<1>7. Append(Numbered(a, n), i) = Numbered(a, n + 1)
  BY NumberedAppend DEF i
<1>. QED BY <1>3, <1>5, <1>6, <1>7 DEF InOrder, g, i

(* So is one that the bridge holds back. *)
LEMMA RequestHeldBack ==
  ASSUME NEW parsed \in Seq(Nat), NEW h \in Seq(Half), NEW back \in Seq(Nat),
         NEW a \in Nat, NEW n \in Nat, InOrder(parsed, h, back, a, n)
  PROVE  InOrder(parsed, h, Append(back, a + n + 1), a, n + 1)
<1> DEFINE x == parsed \o Lines(h)
           i == a + n + 1
<1>1. x \in Seq(Nat) /\ i \in Nat
  BY LinesType, ConcatProperties
<1>2. x \o back = Numbered(a, n)
  BY DEF InOrder
<1>3. Append(Numbered(a, n), i) = Numbered(a, n + 1)
  BY NumberedAppend
<1> HIDE DEF x, i
<1>4. x \o Append(back, i) = Append(x \o back, i)
  BY <1>1, RequestAppended
<1>. QED BY <1>2, <1>3, <1>4 DEF InOrder, x, i

(* What was held back is written in its order, behind what was written. *)
LEMMA RequestsReleased ==
  ASSUME NEW parsed \in Seq(Nat), NEW h \in Seq(Half), NEW back \in Seq(Nat),
         NEW a \in Nat, NEW n \in Nat, InOrder(parsed, h, back, a, n)
  PROVE  InOrder(parsed, h \o AllHalves(back), <<>>, a, n)
<1> DEFINE g == AllHalves(back)
           l == Lines(h)
<1>1. g \in Seq(Half) /\ Paired(g) /\ Lines(g) = back /\ l \in Seq(Nat)
  BY AllHalvesType, PairedAllHalves, LinesOfAllHalves, LinesType
<1> HIDE DEF g
<1>2. Paired(h \o g) /\ Lines(h \o g) = l \o back
  BY <1>1, PairedConcat, LinesOfConcat DEF InOrder
<1>3. (parsed \o l) \o back = Numbered(a, n)
  BY DEF InOrder
<1> HIDE DEF l
<1>4. parsed \o (l \o back) = (parsed \o l) \o back /\ (parsed \o l) \o back \in Seq(Nat)
  BY <1>1, ReassociatedRequests
<1>5. parsed \o (l \o back) \o <<>> = Numbered(a, n)
  BY <1>3, <1>4, ConcatEmptySeq
<1>. QED BY <1>2, <1>5 DEF InOrder, g

(* A chunk arrives: its lines are parsed, and what it leaves begins the rest. *)
LEMMA HalvesArrive ==
  ASSUME NEW parsed \in Seq(Nat), NEW x \in Seq(Half), x # <<>>, NEW y \in Seq(Half),
         NEW back \in Seq(Nat), NEW a \in Nat, NEW n \in Nat, InOrder(parsed, x \o y, back, a, n)
  PROVE  /\ ~Torn(x) /\ Left(x) \in Seq(Half)
         /\ parsed \o Lines(x) \in Seq(Nat)
         /\ InOrder(parsed \o Lines(x), Left(x) \o y, back, a, n)
<1> DEFINE l == Lines(x)
           r == Lines(y)
           k == Left(x)
<1>1. l \in Seq(Nat) /\ r \in Seq(Nat) /\ Paired(x \o y)
  BY LinesType DEF InOrder
<1>2. k \in Seq(Half) /\ Lines(k) = <<>> /\ Paired(k \o y)
  BY <1>1, LeftCompletes
<1>3. ~Torn(x)
  <2>1. Len(x) \in Nat /\ Len(x) >= 1 /\ Len(y) \in Nat
    BY EmptySeq
  <2>2. 1 \in DOMAIN (x \o y) /\ (x \o y)[1] = x[1]
    <3>1. /\ x \o y \in Seq(Half) /\ Len(x \o y) = Len(x) + Len(y)
          /\ \A j \in 1 .. Len(x) + Len(y) :
               (x \o y)[j] = IF j <= Len(x) THEN x[j] ELSE y[j - Len(x)]
      BY ConcatProperties
    <3>2. 1 \in 1 .. Len(x) + Len(y) /\ 1 <= Len(x)
      BY <2>1
    <3>. QED BY <3>1, <3>2
  <2> DEFINE z == x \o y
  <2> HIDE DEF z
  <2>3. Paired(z) /\ 1 \in DOMAIN z /\ z[1] = x[1]
    BY <1>1, <2>2 DEF z
  <2>4. z[1][2] = 2 => 1 > 1
    BY <2>3 DEF Paired
  <2>5. x[1][2] # 2
    BY <2>3, <2>4
  <2>. QED BY <2>5 DEF Torn
<1>4. Lines(x \o y) = l \o r
  BY LinesOfConcat
<1> HIDE DEF k
<1>5. Lines(k \o y) = r
  <2>1. Lines(k \o y) = Lines(k) \o r
    BY <1>2, LinesOfConcat
  <2> HIDE DEF r
  <2>. QED BY <1>1, <1>2, <2>1, ConcatEmptySeq
<1>6. parsed \o (l \o r) \o back = Numbered(a, n)
  BY <1>4 DEF InOrder
<1> HIDE DEF l, r
<1>7. parsed \o (l \o r) = (parsed \o l) \o r
  BY <1>1, ReassociatedRequests
<1>8. parsed \o l \in Seq(Nat)
  BY <1>1
<1>. QED BY <1>2, <1>3, <1>5, <1>6, <1>7, <1>8 DEF InOrder, k, l, r

(* The first of those parsed is handled; the others stay in order. *)
LEMMA RequestTaken ==
  ASSUME NEW parsed \in Seq(Nat), parsed # <<>>, NEW h \in Seq(Half), NEW back \in Seq(Nat),
         NEW a \in Nat, NEW n \in Nat, InOrder(parsed, h, back, a, n)
  PROVE  n >= 1 /\ Tail(parsed) \in Seq(Nat) /\ InOrder(Tail(parsed), h, back, a + 1, n - 1)
<1> DEFINE l == Lines(h)
           s == parsed \o l \o back
<1>1. l \in Seq(Nat) /\ s = Numbered(a, n)
  BY LinesType DEF InOrder
<1> HIDE DEF l
<1>2. Len(parsed) \in Nat /\ Len(parsed) >= 1 /\ Len(l) \in Nat /\ Len(back) \in Nat
  BY <1>1, EmptySeq
<1>3. Len(parsed \o l) = Len(parsed) + Len(l) /\ parsed \o l \in Seq(Nat)
  BY <1>1
<1>4. Len(s) = Len(parsed) + Len(l) + Len(back)
  BY <1>1, <1>3
<1>5. n >= 1
  BY <1>1, <1>2, <1>4, NumberedType
<1>6. Tail(parsed) \in Seq(Nat)
  BY HeadTailProperties
<1>7. Tail(s) = Tail(parsed) \o l \o back
  <2>1. Tail(parsed \o l) = Tail(parsed) \o l
    BY <1>1, <1>2, TailOfConcat
  <2> DEFINE p == parsed \o l
  <2>2. p \in Seq(Nat) /\ p # <<>>
    BY <1>2, <1>3
  <2> HIDE DEF p
  <2>3. Tail(p \o back) = Tail(p) \o back
    BY <2>2, TailOfConcat
  <2>. QED BY <2>1, <2>3 DEF p
<1>8. Tail(Numbered(a, n)) = Numbered(a + 1, n - 1)
  BY <1>5, NumberedTail
<1>. QED BY <1>1, <1>5, <1>6, <1>7, <1>8 DEF InOrder, l

(* What arrives and what is left of the wire are what was there. *)
LEMMA WireSplit ==
  ASSUME NEW h \in Seq(Half), NEW w \in Seq(Half), NEW n \in 1 .. Len(w)
  PROVE  /\ h \o SubSeq(w, 1, n) \in Seq(Half) /\ h \o SubSeq(w, 1, n) # <<>>
         /\ SubSeq(w, n + 1, Len(w)) \in Seq(Half)
         /\ h \o w = (h \o SubSeq(w, 1, n)) \o SubSeq(w, n + 1, Len(w))
         /\ Len(h \o SubSeq(w, 1, n)) = Len(h) + n
         /\ Len(SubSeq(w, n + 1, Len(w))) = Len(w) - n
<1> DEFINE x == SubSeq(w, 1, n)
           y == SubSeq(w, n + 1, Len(w))
<1>1. Len(w) \in Nat /\ n \in Nat /\ n >= 1 /\ n <= Len(w) /\ Len(h) \in Nat
  OBVIOUS
<1>2. x \in Seq(Half) /\ Len(x) = n
  BY <1>1
<1>3. y \in Seq(Half) /\ Len(y) = Len(w) - n
  <2>1. y \in Seq(Half) /\ Len(y) = IF n + 1 <= Len(w) THEN Len(w) - (n + 1) + 1 ELSE 0
    BY <1>1, SubSeqProperties
  <2> HIDE DEF y
  <2>. QED BY <1>1, <2>1
<1>4. w = x \o y
  <2>1. 1 \in 1 .. Len(w) + 1 /\ n \in 1 - 1 .. Len(w) /\ Len(w) \in n .. Len(w)
    BY <1>1
  <2>2. SubSeq(w, 1, n) \o SubSeq(w, n + 1, Len(w)) = SubSeq(w, 1, Len(w))
    BY <2>1, ConcatAdjacentSubSeq
  <2>3. SubSeq(w, 1, Len(w)) = w
    BY SubSeqFull
  <2>. QED BY <2>2, <2>3
<1> HIDE DEF x, y
<1>5. h \o x \in Seq(Half) /\ Len(h \o x) = Len(h) + n
  BY <1>2
<1>6. h \o x # <<>>
  BY <1>1, <1>5, EmptySeq
<1>7. h \o (x \o y) = (h \o x) \o y
  BY <1>2, <1>3, ReassociatedHalves
<1>. QED BY <1>3, <1>4, <1>5, <1>6, <1>7 DEF x, y

(* The hello in one piece, or its first half before the second. *)
LEMMA HelloSplit ==
  ASSUME NEW x \in Seq(Half), x # <<>>, NEW y \in Seq(Half), x \o y = Halves(Hello)
  PROVE  \/ Lines(x) = <<>> /\ Left(x) = x
         \/ Len(Lines(x)) = 1 /\ y = <<>>
<1> DEFINE n == Len(x)
           m == Len(y)
           z == x \o y
<1>1. n \in Nat /\ n >= 1 /\ m \in Nat
  BY EmptySeq
<1>2. /\ z \in Seq(Half) /\ Len(z) = n + m
      /\ \A i \in 1 .. n + m : z[i] = IF i <= n THEN x[i] ELSE y[i - n]
  BY ConcatProperties
<1>3. Len(z) = 2 /\ z[1][2] = 1 /\ z[2][2] = 2
  BY DEF Halves
<1> HIDE DEF z
<1>4. x[1][2] = 1
  BY <1>1, <1>2, <1>3
<1>5. n + m = 2
  BY <1>2, <1>3
<1>6. CASE n = 1
  <2>1. Last(x) = x[1] /\ x[1] \in Half
    BY <1>6 DEF Last
  <2>2. x = <<x[1]>>
    BY <1>6
  <2> DEFINE f == x[1]
             e == <<>>
  <2>3. x = Append(e, f) /\ f \in Half /\ e \in Seq(Half) /\ Lines(e) = <<>> /\ f[2] # 2
    BY <1>4, <2>1, <2>2, LinesOfNone
  <2> HIDE DEF e, f
  <2>4. Lines(x) = <<>>
    BY <2>3, LinesOfAppend
  <2>5. Left(x) = x
    BY <1>4, <2>1, <2>2 DEF Left
  <2>. QED BY <2>4, <2>5
<1>7. CASE n = 2
  <2>1. y = <<>>
    BY <1>1, <1>5, <1>7, EmptySeq
  <2>2. x = Halves(Hello)
    BY <2>1, ConcatEmptySeq
  <2>3. Lines(Halves(Hello)) = <<Hello>>
    BY HalvesOfOne DEF Hello
  <2>4. Len(<<Hello>>) = 1
    OBVIOUS
  <2>. QED BY <2>1, <2>2, <2>3, <2>4
<1>8. n = 1 \/ n = 2
  <2> HIDE DEF n, m
  <2>. QED BY <1>1, <1>5
<1>. QED BY <1>6, <1>7, <1>8

(* What the invariant says of a connection that is sessionVars. *)
ServedInOrder == InOrder(inbox, held \o wire, pending, handled, sent - handled)
FrameTypes ==
  /\ {sent, handled} \subseteq Nat /\ handled <= sent
  /\ {pending, inbox} \subseteq Seq(Nat) /\ {held, wire} \subseteq Seq(Half)
Unserved ==
  /\ inbox = <<>>
  /\ link = "handshake" => held \o wire = Halves(Hello)
  /\ link = "greeted" => held = <<>> /\ wire = <<>>
  /\ link \in {"handshake", "greeted"} => pending = Numbered(0, sent)

(* The invariant in these terms. *)
LEMMA FramesParts ==
  FramesInvariant <=>
    /\ FrameTypes
    /\ bridge \in {"none", "waiting", "ready"} /\ (bridge = "none") = (link \in {"none", "closed"})
    /\ bridge = "ready" => link = "serving" /\ pending = <<>>
    /\ link # "serving" => Unserved
    /\ link = "serving" => ServedInOrder
BY DEF FramesInvariant, FrameTypes, Unserved, ServedInOrder, InOrder, Half

(* Without a connection nothing is under way. *)
LEMMA FramesInit == BrokerInit => FramesInvariant
<1>. SUFFICES ASSUME BrokerInit PROVE FramesInvariant
  OBVIOUS
<1>1. <<>> \in Seq(Nat) /\ <<>> \in Seq(Half) /\ 0 \in Nat /\ 0 <= 0
  OBVIOUS
<1>. QED BY <1>1 DEF BrokerInit, FramesInvariant, Half

(* The steps that leave the connection's frames and its counts alone. *)
LEMMA FramesKept ==
  ASSUME FramesInvariant, UNCHANGED <<link, bridge, sent, pending, wire, held, inbox, handled>>
  PROVE  FramesInvariant'
BY DEF FramesInvariant

(* The end of a connection leaves nothing under way. *)
LEMMA FramesEnd ==
  ASSUME Close
  PROVE  FramesInvariant'
<1>1. <<>> \in Seq(Nat) /\ <<>> \in Seq(Half) /\ 0 \in Nat /\ 0 <= 0
  OBVIOUS
<1>. QED BY <1>1 DEF Close, FramesInvariant, Half

(* The hello is all that crosses a new connection's pipe. *)
LEMMA FramesConnect ==
  ASSUME SessionInvariant, FramesInvariant, Connect
  PROVE  FramesInvariant'
<1>1. handled' = 0 /\ sent' = 0 /\ link' = "handshake" /\ bridge' = "waiting"
      /\ pending' = <<>> /\ inbox' = <<>> /\ held' = <<>> /\ wire' = Halves(Hello)
  BY DEF Connect, sessionVars, SessionInvariant
<1>2. Halves(Hello) \in Seq(Half)
  BY HalvesOfOne DEF Hello
<1>3. FrameTypes'
  BY <1>1, <1>2 DEF FrameTypes
<1>4. Numbered(0, 0) = <<>>
  <2> DEFINE z == Numbered(0, 0)
  <2>1. z \in Seq(Nat) /\ Len(z) = 0
    BY NumberedType
  <2> HIDE DEF z
  <2>2. z = <<>>
    BY <2>1, EmptySeq
  <2>. QED BY <2>2 DEF z
<1>5. <<>> \o Halves(Hello) = Halves(Hello)
  BY <1>2, ConcatEmptySeq
<1>6. Unserved'
  BY <1>1, <1>4, <1>5 DEF Unserved
<1>. QED BY <1>1, <1>3, <1>6 DEF FramesInvariant, FrameTypes, Unserved, Half

(* A request is the next in order, on the wire or held back. *)
LEMMA FramesRequest ==
  ASSUME ~Pipelining, SessionInvariant, FramesInvariant, Request
  PROVE  FramesInvariant'
<1>1. /\ FrameTypes
      /\ bridge \in {"none", "waiting", "ready"} /\ (bridge = "none") = (link \in {"none", "closed"})
      /\ bridge = "ready" => link = "serving" /\ pending = <<>>
      /\ link # "serving" => Unserved
      /\ link = "serving" => ServedInOrder
  BY FramesParts
<1>2. /\ bridge \in {"waiting", "ready"} /\ sent' = sent + 1
      /\ UNCHANGED <<link, bridge, held, inbox, handled>>
  BY DEF Request, sessionVars
<1>3. sent \in Nat /\ handled \in Nat /\ handled <= sent
      /\ pending \in Seq(Nat) /\ inbox \in Seq(Nat) /\ held \in Seq(Half) /\ wire \in Seq(Half)
  BY <1>1 DEF FrameTypes
<1>4. sent - handled \in Nat /\ handled + (sent - handled) + 1 = sent + 1
      /\ (sent - handled) + 1 = (sent + 1) - handled /\ sent + 1 \in Nat /\ handled <= sent + 1
  BY <1>3
<1>5. CASE bridge = "ready"
  <2>1. wire' = wire \o Halves(sent + 1) /\ pending' = pending /\ pending = <<>> /\ link = "serving"
    BY <1>1, <1>2, <1>5 DEF Request
  <2> DEFINE g == Halves(sent + 1)
             h == held \o wire
  <2>2. g \in Seq(Half) /\ h \in Seq(Half)
    BY <1>3, <1>4, HalvesOfOne
  <2>3. InOrder(inbox, h, pending, handled, sent - handled)
    BY <1>1, <2>1 DEF ServedInOrder
  <2> HIDE DEF h
  <2>4. InOrder(inbox, h \o g, pending, handled, (sent + 1) - handled)
    <3> DEFINE n == sent - handled
    <3>1. n \in Nat /\ InOrder(inbox, h, pending, handled, n)
      BY <1>4, <2>3
    <3> HIDE DEF n
    <3>2. InOrder(inbox, h \o Halves(handled + n + 1), pending, handled, n + 1)
      BY <1>3, <2>1, <2>2, <3>1, RequestWritten
    <3>. QED BY <1>4, <3>2 DEF n
  <2> HIDE DEF g
  <2>5. held \o (wire \o g) = h \o g /\ wire \o g \in Seq(Half)
    <3>1. held \o (wire \o g) = (held \o wire) \o g
      BY <1>3, <2>2, ReassociatedHalves
    <3>. QED BY <1>3, <2>2, <3>1 DEF h
  <2>6. ServedInOrder'
    BY <1>2, <2>1, <2>4, <2>5 DEF ServedInOrder, g
  <2>7. FrameTypes'
    BY <1>2, <1>3, <1>4, <2>1, <2>5 DEF FrameTypes, g
  <2>. QED BY <1>1, <1>2, <2>1, <2>6, <2>7 DEF FramesInvariant, FrameTypes, ServedInOrder, InOrder, Half
<1>6. CASE bridge = "waiting"
  <2>1. pending' = Append(pending, sent + 1) /\ wire' = wire
    BY <1>6 DEF Request, HeldBack
  <2>2. FrameTypes'
    BY <1>2, <1>3, <1>4, <2>1 DEF FrameTypes
  <2>3. ASSUME link = "serving" PROVE ServedInOrder'
    <3> DEFINE n == sent - handled
               h == held \o wire
    <3>1. n \in Nat /\ h \in Seq(Half) /\ InOrder(inbox, h, pending, handled, n)
      BY <1>1, <1>3, <1>4, <2>3 DEF ServedInOrder
    <3> HIDE DEF n, h
    <3>2. InOrder(inbox, h, Append(pending, handled + n + 1), handled, n + 1)
      BY <1>3, <3>1, RequestHeldBack
    <3>. QED BY <1>2, <1>4, <2>1, <3>2 DEF ServedInOrder, n, h
  <2>4. ASSUME link # "serving" PROVE Unserved'
    <3>1. ASSUME link \in {"handshake", "greeted"} PROVE pending' = Numbered(0, sent + 1)
      <4>1. pending = Numbered(0, sent)
        BY <1>1, <2>4, <3>1 DEF Unserved
      <4>2. Append(Numbered(0, sent), 0 + sent + 1) = Numbered(0, sent + 1)
        BY <1>3, NumberedAppend
      <4>. QED BY <1>3, <2>1, <4>1, <4>2
    <3>. QED BY <1>1, <1>2, <2>1, <2>4, <3>1 DEF Unserved
  <2>. QED BY <1>1, <1>2, <1>6, <2>2, <2>3, <2>4
       DEF FramesInvariant, FrameTypes, ServedInOrder, Unserved, InOrder, Half
<1>. QED BY <1>2, <1>5, <1>6

(* What was held back follows the hello, which the broker has read. *)
LEMMA FramesReady ==
  ASSUME FramesInvariant, Ready
  PROVE  FramesInvariant'
<1>1. FrameTypes /\ ServedInOrder /\ link = "serving"
  BY FramesParts DEF Ready
<1>2. /\ bridge' = "ready" /\ pending' = <<>> /\ wire' = wire \o AllHalves(pending)
      /\ UNCHANGED <<link, sent, held, inbox, handled>>
  BY DEF Ready, sessionVars
<1>3. sent \in Nat /\ handled \in Nat /\ handled <= sent
      /\ pending \in Seq(Nat) /\ inbox \in Seq(Nat) /\ held \in Seq(Half) /\ wire \in Seq(Half)
  BY <1>1 DEF FrameTypes
<1> DEFINE g == AllHalves(pending)
           h == held \o wire
           n == sent - handled
<1>4. g \in Seq(Half) /\ h \in Seq(Half) /\ n \in Nat
  BY <1>3, AllHalvesType
<1>5. InOrder(inbox, h, pending, handled, n)
  BY <1>1 DEF ServedInOrder
<1> HIDE DEF h, n
<1>6. InOrder(inbox, h \o g, <<>>, handled, n)
  BY <1>3, <1>4, <1>5, RequestsReleased
<1> HIDE DEF g
<1>7. held \o (wire \o g) = h \o g /\ wire \o g \in Seq(Half)
  <2>1. held \o (wire \o g) = (held \o wire) \o g
    BY <1>3, <1>4, ReassociatedHalves
  <2>. QED BY <1>3, <1>4, <2>1 DEF h
<1>8. ServedInOrder'
  BY <1>2, <1>6, <1>7 DEF ServedInOrder, g, n
<1>9. FrameTypes'
  BY <1>2, <1>3, <1>7 DEF FrameTypes, g
<1>. QED BY <1>1, <1>2, <1>8, <1>9 DEF FramesInvariant, FrameTypes, ServedInOrder, InOrder, Half

(* A chunk before the hello is complete keeps its half; one that completes  *)
(* it leaves nothing on the wire, for nothing was written behind it.        *)
LEMMA FramesGreet ==
  ASSUME SessionInvariant, FramesInvariant, NEW n \in 1 .. Len(wire), Greet(n)
  PROVE  FramesInvariant'
<1> DEFINE x == held \o SubSeq(wire, 1, n)
           y == SubSeq(wire, n + 1, Len(wire))
<1>1. /\ FrameTypes /\ link = "handshake" /\ Unserved
      /\ bridge \in {"none", "waiting", "ready"} /\ (bridge = "none") = (link \in {"none", "closed"})
      /\ bridge = "ready" => link = "serving"
  BY FramesParts DEF Greet
<1>2. /\ IF Lines(x) = <<>> THEN held' = Left(x) /\ UNCHANGED <<link, inbox>>
         ELSE held' = <<>> /\ link' = "greeted" /\ inbox' = Tail(Lines(x))
      /\ wire' = y /\ UNCHANGED <<bridge, sent, pending, handled>>
  BY DEF Greet, sessionVars
<1>3. sent \in Nat /\ handled \in Nat /\ handled <= sent
      /\ pending \in Seq(Nat) /\ inbox \in Seq(Nat) /\ held \in Seq(Half) /\ wire \in Seq(Half)
  BY <1>1 DEF FrameTypes
<1>4. inbox = <<>> /\ held \o wire = Halves(Hello) /\ pending = Numbered(0, sent)
  BY <1>1 DEF Unserved
<1>5. x \in Seq(Half) /\ x # <<>> /\ y \in Seq(Half) /\ held \o wire = x \o y
  BY <1>3, WireSplit
<1> HIDE DEF x, y
<1>6. Lines(x) \in Seq(Nat)
  BY <1>5, LinesType
<1>7. CASE Lines(x) = <<>> /\ Left(x) = x
  <2>1. held' = x /\ link' = link /\ inbox' = inbox
    BY <1>2, <1>7
  <2>2. Unserved'
    BY <1>1, <1>2, <1>4, <1>5, <2>1 DEF Unserved
  <2>3. FrameTypes'
    BY <1>2, <1>3, <1>5, <2>1 DEF FrameTypes
  <2>. QED BY <1>1, <1>2, <2>1, <2>2, <2>3 DEF FramesInvariant, FrameTypes, Unserved, Half
<1>8. CASE Len(Lines(x)) = 1 /\ y = <<>>
  <2> DEFINE l == Lines(x)
  <2>0. l \in Seq(Nat) /\ Len(l) = 1
    BY <1>6, <1>8
  <2> HIDE DEF l
  <2>1. l \in Seq(Nat) /\ Len(l) = 1 /\ l # <<>>
    <3>1. Len(<<>>) = 0
      OBVIOUS
    <3>. QED BY <2>0, <3>1
  <2>2. Tail(l) = <<>>
    <3>1. Tail(l) \in Seq(Nat) /\ Len(Tail(l)) = Len(l) - 1
      BY <2>1, HeadTailProperties
    <3> DEFINE t == Tail(l)
    <3>2. t \in Seq(Nat) /\ Len(t) = 0
      BY <2>1, <3>1
    <3> HIDE DEF t
    <3>3. t = <<>>
      BY <3>2, EmptySeq
    <3>. QED BY <3>3 DEF t
  <2>3. held' = <<>> /\ wire' = <<>> /\ link' = "greeted" /\ inbox' = <<>>
    BY <1>2, <1>8, <2>1, <2>2 DEF l
  <2>4. <<>> \in Seq(Nat) /\ <<>> \in Seq(Half)
    OBVIOUS
  <2>5. FrameTypes'
    BY <1>2, <1>3, <2>3, <2>4 DEF FrameTypes
  <2>6. Unserved'
    BY <1>2, <1>4, <2>3 DEF Unserved
  <2>. QED BY <1>1, <1>2, <2>3, <2>5, <2>6 DEF FramesInvariant, FrameTypes, Unserved, Half
<1>9. (Lines(x) = <<>> /\ Left(x) = x) \/ (Len(Lines(x)) = 1 /\ y = <<>>)
  BY <1>4, <1>5, HelloSplit
<1>. QED BY <1>7, <1>8, <1>9

(* A chunk for the transport moves whole requests to the parsed ones. *)
LEMMA FramesReceive ==
  ASSUME FramesInvariant, NEW n \in 1 .. Len(wire), Receive(n)
  PROVE  FramesInvariant'
<1> DEFINE x == held \o SubSeq(wire, 1, n)
           y == SubSeq(wire, n + 1, Len(wire))
           m == sent - handled
<1>1. /\ FrameTypes /\ link = "serving" /\ ServedInOrder
      /\ bridge \in {"none", "waiting", "ready"} /\ (bridge = "none") = (link \in {"none", "closed"})
      /\ bridge = "ready" => pending = <<>>
  BY FramesParts DEF Receive
<1>2. sent \in Nat /\ handled \in Nat /\ handled <= sent
      /\ pending \in Seq(Nat) /\ inbox \in Seq(Nat) /\ held \in Seq(Half) /\ wire \in Seq(Half)
  BY <1>1 DEF FrameTypes
<1>3. m \in Nat
  BY <1>2
<1>4. IF Torn(x) THEN Close
      ELSE /\ inbox' = inbox \o Lines(x) /\ held' = Left(x) /\ wire' = y
           /\ UNCHANGED <<link, bridge, sent, pending, handled>>
  BY DEF Receive, sessionVars
<1>5. x \in Seq(Half) /\ x # <<>> /\ y \in Seq(Half) /\ held \o wire = x \o y
  BY <1>2, WireSplit
<1> HIDE DEF x, y
<1>6. InOrder(inbox, x \o y, pending, handled, m)
  BY <1>1, <1>5 DEF ServedInOrder
<1> HIDE DEF m
<1>7. /\ ~Torn(x) /\ Left(x) \in Seq(Half)
      /\ inbox \o Lines(x) \in Seq(Nat)
      /\ InOrder(inbox \o Lines(x), Left(x) \o y, pending, handled, m)
  BY <1>2, <1>3, <1>5, <1>6, HalvesArrive
<1>8. /\ inbox' = inbox \o Lines(x) /\ held' = Left(x) /\ wire' = y
      /\ UNCHANGED <<link, bridge, sent, pending, handled>>
  BY <1>4, <1>7
<1>9. ServedInOrder'
  BY <1>7, <1>8 DEF ServedInOrder, m
<1>10. FrameTypes'
  BY <1>2, <1>5, <1>7, <1>8 DEF FrameTypes
<1>. QED BY <1>1, <1>8, <1>9, <1>10 DEF FramesInvariant, FrameTypes, ServedInOrder, InOrder, Half

(* A server starts with nothing parsed and everything held back. *)
LEMMA FramesAdopt ==
  ASSUME SessionInvariant, FramesInvariant, Adopt
  PROVE  FramesInvariant'
<1>1. CASE vault.open
  <2>1. /\ FrameTypes /\ link = "greeted" /\ Unserved /\ handled = 0
        /\ bridge \in {"none", "waiting", "ready"} /\ (bridge = "none") = (link \in {"none", "closed"})
        /\ bridge = "ready" => link = "serving"
    BY FramesParts DEF Adopt, SessionInvariant
  <2>2. link' = "serving" /\ UNCHANGED <<bridge, sent, pending, wire, held, inbox, handled>>
    BY <1>1 DEF Adopt
  <2>3. inbox = <<>> /\ held = <<>> /\ wire = <<>> /\ pending = Numbered(0, sent)
    BY <2>1 DEF Unserved
  <2>4. sent \in Nat /\ pending \in Seq(Nat)
    BY <2>1 DEF FrameTypes
  <2>5. <<>> \o <<>> = <<>>
    BY EmptySeq, ConcatEmptySeq
  <2>6. Paired(<<>>)
    BY DEF Paired
  <2>7. <<>> \o Lines(<<>>) \o pending = pending
    BY <2>4, <2>5, LinesOfNone, ConcatEmptySeq
  <2>8. sent - 0 = sent
    BY <2>4
  <2>9. InOrder(<<>>, <<>>, pending, 0, sent - 0)
    BY <2>3, <2>6, <2>7, <2>8 DEF InOrder
  <2>10. ServedInOrder'
    BY <2>1, <2>2, <2>3, <2>5, <2>9 DEF ServedInOrder
  <2>11. FrameTypes'
    BY <2>1, <2>2 DEF FrameTypes
  <2>. QED BY <2>1, <2>2, <2>10, <2>11 DEF FramesInvariant, FrameTypes, ServedInOrder, InOrder, Half
<1>2. CASE ~vault.open
  BY <1>2, FramesEnd DEF Adopt
<1>. QED BY <1>1, <1>2

(* Handling a request takes the first of those parsed. *)
LEMMA FramesHandle ==
  ASSUME FramesInvariant, NextRequest
  PROVE  FramesInvariant'
<1> DEFINE h == held \o wire
           n == sent - handled
<1>1. /\ FrameTypes /\ link = "serving" /\ ServedInOrder
      /\ bridge \in {"none", "waiting", "ready"} /\ (bridge = "none") = (link \in {"none", "closed"})
      /\ bridge = "ready" => pending = <<>>
  BY FramesParts DEF NextRequest
<1>2. inbox # <<>> /\ inbox' = Tail(inbox) /\ handled' = handled + 1
      /\ UNCHANGED <<link, bridge, sent, pending, wire, held>>
  BY DEF NextRequest
<1>3. sent \in Nat /\ handled \in Nat /\ handled <= sent
      /\ pending \in Seq(Nat) /\ inbox \in Seq(Nat) /\ held \in Seq(Half) /\ wire \in Seq(Half)
  BY <1>1 DEF FrameTypes
<1>4. h \in Seq(Half) /\ n \in Nat /\ InOrder(inbox, h, pending, handled, n)
  BY <1>1, <1>3 DEF ServedInOrder
<1> HIDE DEF h, n
<1>5. n >= 1 /\ Tail(inbox) \in Seq(Nat) /\ InOrder(Tail(inbox), h, pending, handled + 1, n - 1)
  BY <1>2, <1>3, <1>4, RequestTaken
<1>6. n - 1 = sent - (handled + 1) /\ handled + 1 <= sent /\ handled + 1 \in Nat
  BY <1>3, <1>5 DEF n
<1>7. ServedInOrder'
  BY <1>2, <1>5, <1>6 DEF ServedInOrder, h
<1>8. FrameTypes'
  BY <1>2, <1>3, <1>5, <1>6 DEF FrameTypes
<1>. QED BY <1>1, <1>2, <1>7, <1>8 DEF FramesInvariant, FrameTypes, ServedInOrder, InOrder, Half

(* Every step keeps the frames in order, when the bridge waits for the      *)
(* broker before it writes a request.                                       *)
LEMMA FramesStep ==
  ASSUME ~Pipelining
  PROVE  SessionInvariant /\ FramesInvariant /\ [BrokerNext]_brokerVars => FramesInvariant'
<1>. SUFFICES ASSUME SessionInvariant, FramesInvariant, [BrokerNext]_brokerVars PROVE FramesInvariant'
  OBVIOUS
<1>1. CASE Connect
  BY <1>1, FramesConnect
<1>2. CASE Request
  BY <1>2, FramesRequest
<1>3. CASE Ready
  BY <1>3, FramesReady
<1>4. CASE Disconnect
  BY <1>4, FramesEnd DEF Disconnect
<1>5. CASE Chunk
  BY <1>5, FramesGreet, FramesReceive DEF Chunk
<1>6. CASE Adopt
  BY <1>6, FramesAdopt
<1>7. CASE Handle
  <2>1. NextRequest
    BY <1>7 DEF Handle, Search, Refuse, Fetch
  <2>. QED BY <2>1, FramesHandle
<1>8. CASE ChangeVault \/ CloseVault
  <2>1. UNCHANGED <<link, bridge, sent, pending, wire, held, inbox, handled>>
    BY <1>8 DEF ChangeVault, CloseVault, Changed, pipe, sessionVars
  <2>. QED BY <2>1, FramesKept
<1>9. CASE StopMcpBroker
  <2>1. Close \/ UNCHANGED <<link, bridge, sent, pending, wire, held, inbox, handled>>
    BY <1>9 DEF StopMcpBroker, pipe, sessionVars
  <2>. QED BY <2>1, FramesEnd, FramesKept
<1>10. CASE UNCHANGED brokerVars
  <2>1. UNCHANGED <<link, bridge, sent, pending, wire, held, inbox, handled>>
    BY <1>10 DEF brokerVars, pipe, sessionVars
  <2>. QED BY <2>1, FramesKept
<1>. QED BY <1>1, <1>2, <1>3, <1>4, <1>5, <1>6, <1>7, <1>8, <1>9, <1>10 DEF BrokerNext

(* The frames' invariant tells FramesInOrder. *)
LEMMA FramesTellOrder ==
  ASSUME SessionInvariant, FramesInvariant
  PROVE  FramesInOrder
<1>1. /\ FrameTypes
      /\ link # "serving" => Unserved
      /\ link = "serving" => ServedInOrder
  BY FramesParts
<1>2. sent \in Nat /\ handled \in Nat /\ pending \in Seq(Nat) /\ held \in Seq(Half) /\ wire \in Seq(Half)
  BY <1>1 DEF FrameTypes
<1>3. CASE link = "serving"
  <2> DEFINE h == held \o wire
  <2>1. Paired(h) /\ inbox \o Lines(h) \o pending = Numbered(handled, sent - handled)
    BY <1>1, <1>3 DEF ServedInOrder, InOrder
  <2>2. h \in Seq(Half)
    BY <1>2
  <2> HIDE DEF h
  <2>3. ~Torn(h)
    <3>1. SUFFICES ASSUME h # <<>>, h[1][2] = 2 PROVE FALSE
      BY DEF Torn
    <3>2. 1 \in DOMAIN h
      <4>1. Len(h) \in Nat /\ Len(h) >= 1
        BY <2>2, <3>1, EmptySeq
      <4>. QED BY <2>2, <4>1
    <3>3. 1 > 1
      BY <2>1, <3>1, <3>2 DEF Paired
    <3>. QED BY <3>3
  <2>. QED BY <2>1, <2>3 DEF h, FramesInOrder, Numbered
<1>4. CASE link = "greeted"
  <2>1. inbox = <<>> /\ held = <<>> /\ wire = <<>> /\ pending = Numbered(0, sent)
    BY <1>1, <1>4 DEF Unserved
  <2>2. <<>> \o <<>> = <<>> /\ <<>> \o pending = pending
    BY <1>2, EmptySeq, ConcatEmptySeq
  <2>3. handled = 0 /\ sent - 0 = sent
    BY <1>2, <1>4 DEF SessionInvariant
  <2>4. ~Torn(<<>>) /\ <<>> \o Lines(<<>>) \o pending = Numbered(0, sent - 0)
    BY <2>1, <2>2, <2>3, LinesOfNone DEF Torn
  <2>. QED BY <2>1, <2>2, <2>3, <2>4 DEF FramesInOrder, Numbered
<1>. QED BY <1>3, <1>4 DEF FramesInOrder

(* In every state of a connection whose bridge waits. *)
LEMMA FramesInvariantHolds ==
  ASSUME ~Pipelining
  PROVE  BrokerSpec => []FramesInvariant
<1>1. SessionInvariant /\ FramesInvariant /\ [BrokerNext]_brokerVars => FramesInvariant'
  BY FramesStep
<1>. QED BY <1>1, FramesInit, SessionInvariantHolds, PTL DEF BrokerSpec

(* Between the client and the tools no request is lost, doubled or          *)
(* overtaken, in chunks of any size and for any number of requests, as long *)
(* as nothing is written before the broker is ready (broker.ts, whose line  *)
(* reader and transport share the socket).                                  *)
THEOREM FramesAlwaysInOrder ==
  ASSUME ~Pipelining
  PROVE  BrokerSpec => []FramesInOrder
<1>1. SessionInvariant /\ FramesInvariant => FramesInOrder
  BY FramesTellOrder
<1>. QED BY <1>1, SessionInvariantHolds, FramesInvariantHolds, PTL

(* The vault's documents and its two states. *)
VaultType == vault \in [open : BOOLEAN, busy : BOOLEAN, current : SUBSET Documents]

(* A step changes one of them. *)
LEMMA VaultTyped == BrokerSpec => []VaultType
<1>1. BrokerInit => VaultType
  BY DEF BrokerInit, VaultType
<1>2. VaultType /\ [BrokerNext]_brokerVars => VaultType'
  <2>. SUFFICES ASSUME VaultType, [BrokerNext]_brokerVars PROVE VaultType'
    OBVIOUS
  <2>1. CASE ChangeVault
    <3>1. CASE \E d \in Documents :
            vault' = [vault EXCEPT !.current = IF d \in @ THEN @ \ {d} ELSE @ \cup {d}]
      BY <3>1 DEF VaultType
    <3>2. CASE vault' = [vault EXCEPT !.busy = ~@]
      BY <3>2 DEF VaultType
    <3>. QED BY <2>1, <3>1, <3>2 DEF ChangeVault
  <2>2. CASE CloseVault
    BY <2>2 DEF CloseVault, VaultType
  <2>3. CASE Handle
    BY <2>3 DEF Handle, Search, Refuse, Fetch, NextRequest, VaultType
  <2>4. CASE Chunk
    BY <2>4 DEF Chunk, Greet, Receive, VaultType
  <2>. QED BY <2>1, <2>2, <2>3, <2>4
       DEF BrokerNext, Connect, Request, Ready, Disconnect, Adopt, StopMcpBroker, VaultType, brokerVars
<1>. QED BY <1>1, <1>2, PTL DEF BrokerSpec

(* The variables keep their types, the cache its limits and its order, and  *)
(* the counts of the requests their relation.                               *)
THEOREM McpBrokerTypes ==
  ASSUME ~Pipelining
  PROVE  BrokerSpec => []BrokerTypeOK
<1>1. SessionInvariant /\ FramesInvariant /\ VaultType => BrokerTypeOK
  <2>. SUFFICES ASSUME SessionInvariant, FramesInvariant, VaultType PROVE BrokerTypeOK
    OBVIOUS
  <2>1. /\ link \in {"none", "handshake", "greeted", "serving", "closed"}
        /\ active = (link = "serving") /\ Len(cache) <= MaxDocuments /\ WellFormed(cache)
        /\ link = "serving" => Within(cache, issued)
    BY CacheIsWellFormed DEF SessionInvariant
  <2>2. /\ FrameTypes /\ bridge \in {"none", "waiting", "ready"}
        /\ link # "serving" => Unserved
        /\ link = "serving" => ServedInOrder
    BY FramesParts
  <2>3. sent \in Nat /\ handled \in Nat /\ handled <= sent /\ inbox \in Seq(Nat)
        /\ pending \in Seq(Nat) /\ held \in Seq(Half) /\ wire \in Seq(Half)
    BY <2>2 DEF FrameTypes
  <2>4. handled + Len(inbox) <= sent
    <3>1. CASE link # "serving"
      BY <2>2, <2>3, <3>1, EmptySeq DEF Unserved
    <3>2. CASE link = "serving"
      <4> DEFINE l == Lines(held \o wire)
                 n == sent - handled
      <4>1. inbox \o l \o pending = Numbered(handled, n)
        BY <2>2, <3>2 DEF ServedInOrder, InOrder
      <4>2. l \in Seq(Nat) /\ n \in Nat
        <5> DEFINE h == held \o wire
        <5>1. h \in Seq(Half)
          BY <2>3
        <5> HIDE DEF h
        <5>2. Lines(h) \in Seq(Nat)
          BY <5>1, LinesType
        <5>3. n \in Nat
          BY <2>3
        <5>. QED BY <5>2, <5>3 DEF h
      <4> HIDE DEF l, n
      <4>3. Len(Numbered(handled, n)) = n
        BY <2>3, <4>2, NumberedType
      <4>4. Len(inbox \o l) = Len(inbox) + Len(l) /\ inbox \o l \in Seq(Nat)
        BY <2>3, <4>2
      <4>5. Len((inbox \o l) \o pending) = Len(inbox \o l) + Len(pending)
        BY <2>3, <4>4
      <4>6. Len(inbox) \in Nat /\ Len(l) \in Nat /\ Len(pending) \in Nat
        BY <2>3, <4>2
      <4>7. Len(inbox) <= n
        BY <4>1, <4>3, <4>4, <4>5, <4>6
      <4>. QED BY <2>3, <4>6, <4>7 DEF n
    <3>. QED BY <3>1, <3>2
  <2>5. vault.current \subseteq Documents
    BY DEF VaultType
  <2>6. IsInjective([k \in DOMAIN cache |-> cache[k].document])
    <3> DEFINE f == [k \in DOMAIN cache |-> cache[k].document]
    <3>1. DOMAIN f = DOMAIN cache /\ \A k \in DOMAIN cache : f[k] = cache[k].document
      OBVIOUS
    <3> HIDE DEF f
    <3>2. CacheOK(cache)
      BY DEF SessionInvariant
    <3>3. \A i, j \in DOMAIN f : f[i] = f[j] => i = j
      BY <3>1, <3>2 DEF CacheOK
    <3>. QED BY <3>3 DEF IsInjective, f
  <2>7. ASSUME NEW e \in Range(cache)
        PROVE  /\ Len(e.chunks) \in 1 .. MaxChunks /\ IsInjective(e.chunks)
               /\ link = "serving" => \A c \in Range(e.chunks) : <<e.document, c>> \in issued
    <3>1. PICK i \in DOMAIN cache : e = cache[i]
      BY DEF Range
    <3>2. EntryOK(e)
      BY <2>1, <3>1 DEF WellFormed
    <3>3. Len(e.chunks) \in 1 .. MaxChunks /\ IsInjective(e.chunks)
      BY <3>2 DEF EntryOK, Distinct, IsInjective
    <3>4. ASSUME link = "serving", NEW c \in Range(e.chunks) PROVE <<e.document, c>> \in issued
      <4>1. PICK j \in DOMAIN e.chunks : c = e.chunks[j]
        BY DEF Range
      <4>. QED BY <2>1, <3>1, <3>4, <4>1 DEF Within
    <3>. QED BY <3>3, <3>4
  <2>. QED BY <2>1, <2>2, <2>4, <2>5, <2>6, <2>7 DEF BrokerTypeOK
<1>. QED BY <1>1, SessionInvariantHolds, FramesInvariantHolds, VaultTyped, PTL
=============================================================================
