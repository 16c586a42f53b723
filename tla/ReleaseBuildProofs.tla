-------------------------- MODULE ReleaseBuildProofs --------------------------
(***************************************************************************)
(* Why a verified bundle is what was built.  The steps of ReleaseBuild are *)
(* first given as effects on the fields they change (StepEffect); each     *)
(* inductive invariant is then proved against the effects: the phases of   *)
(* the build, the maker's evidence, what a command has read, its outputs,  *)
(* and what a lone verification began with.                                *)
(***************************************************************************)
EXTENDS ReleaseBuild, TLAPS

-----------------------------------------------------------------------------
(* The steps of the build and of the bundle's commands.                    *)

\* The steps of a verification.
LEMMA VerifySteps ==
  /\ Len(Steps("verify")) = 14
  /\ Steps("verify")[1] = "present" /\ Steps("verify")[2] = "lock"
  /\ Steps("verify")[3] = "project" /\ Steps("verify")[4] = "evidence"
  /\ Steps("verify")[5] = "setup" /\ Steps("verify")[6] = "package"
  /\ Steps("verify")[7] = "commit" /\ Steps("verify")[8] = "resetup"
  /\ Steps("verify")[9] = "reevidence" /\ Steps("verify")[10] = "lockcopy"
  /\ Steps("verify")[11] = "keys" /\ Steps("verify")[12] = "sbom"
  /\ Steps("verify")[13] = "sums" /\ Steps("verify")[14] = "compare"
BY DEF Steps, Render

\* The steps of a generation.
LEMMA GenerateSteps ==
  /\ Len(Steps("generate")) = 17
  /\ Steps("generate")[1] = "absent" /\ Steps("generate")[2] = "copy"
  /\ Steps("generate")[3] = "project" /\ Steps("generate")[4] = "evidence"
  /\ Steps("generate")[5] = "setup" /\ Steps("generate")[6] = "package"
  /\ Steps("generate")[7] = "commit" /\ Steps("generate")[8] = "resetup"
  /\ Steps("generate")[9] = "reevidence" /\ Steps("generate")[10] = "lockcopy"
  /\ Steps("generate")[11] = "keys" /\ Steps("generate")[12] = "sbom"
  /\ Steps("generate")[13] = "sums" /\ Steps("generate")[14] = "checksums"
  /\ Steps("generate")[15] = "fill-checksums" /\ Steps("generate")[16] = "manifest"
  /\ Steps("generate")[17] = "fill-manifest"
BY DEF Steps, Render

\* Where a command compares or fills, it is at its last step, and everything a
\* manifest lists has been read.
LEMMA LastSteps ==
  ASSUME NEW c \in {"generate", "verify"}, NEW a \in 1 .. Len(Steps(c))
  PROVE  /\ Steps(c)[a] = "compare" => c = "verify" /\ a = 14
         /\ Steps(c)[a] = "fill-manifest" => c = "generate" /\ a = 17
         /\ Steps(c)[a] \notin {"compare", "fill-manifest"} => a + 1 \in 1 .. Len(Steps(c))
<1>1. CASE c = "verify"
  <2>1. a \in 1 .. 14
    BY <1>1, VerifySteps
  <2> QED BY <1>1, <2>1, VerifySteps
<1>2. CASE c = "generate"
  <2>1. a \in 1 .. 17
    BY <1>2, GenerateSteps
  <2> QED BY <1>2, <2>1, GenerateSteps, SMTT(30)
<1> QED BY <1>1, <1>2

\* A verification has read everything that a manifest lists.
LEMMA ReadAll ==
  ASSUME NEW x \in Listed
  PROVE  \E i \in 1 .. 13 : Steps("verify")[i] = x
BY VerifySteps DEF Listed

\* The evidence is read before what it is compared with.
LEMMA EvidenceFirst ==
  ASSUME NEW c \in {"generate", "verify"}, NEW a \in 1 .. Len(Steps(c)),
         Steps(c)[a] \in {"setup", "package"}
  PROVE  \E i \in 1 .. a - 1 : Steps(c)[i] = "evidence"
<1>1. CASE c = "verify"
  <2>1. a \in 1 .. 14
    BY <1>1, VerifySteps
  <2>2. a \in {5, 6}
    <3>1. a \in {1, 2, 3, 4, 5, 6, 7, 8, 9, 10, 11, 12, 13, 14}
      BY <2>1
    <3> QED BY <1>1, <3>1, VerifySteps
  <2>3. 4 \in 1 .. a - 1
    BY <2>2
  <2> QED BY <1>1, <2>3, VerifySteps
<1>2. CASE c = "generate"
  <2>1. a \in 1 .. 17
    BY <1>2, GenerateSteps
  <2>2. a \in {5, 6}
    <3>1. a \in {1, 2, 3, 4, 5, 6, 7, 8, 9, 10, 11, 12, 13, 14, 15, 16, 17}
      BY <2>1
    <3> QED BY <1>2, <3>1, GenerateSteps
  <2>3. 4 \in 1 .. a - 1
    BY <2>2
  <2> QED BY <1>2, <2>3, GenerateSteps
<1> QED BY <1>1, <1>2

\* Where a command writes its outputs it generates, at these positions.
LEMMA WritingSteps ==
  ASSUME NEW c \in {"generate", "verify"}, NEW a \in 1 .. Len(Steps(c))
  PROVE  /\ Steps(c)[a] = "copy" => c = "generate" /\ a = 2
         /\ Steps(c)[a] = "checksums" => c = "generate" /\ a = 14
         /\ Steps(c)[a] = "fill-checksums" => c = "generate" /\ a = 15
         /\ Steps(c)[a] = "manifest" => c = "generate" /\ a = 16
         /\ Steps(c)[a] = "fill-manifest" => c = "generate" /\ a = 17
<1>1. CASE c = "verify"
  <2>1. a \in 1 .. 14
    BY <1>1, VerifySteps
  <2>2. a \in {1, 2, 3, 4, 5, 6, 7, 8, 9, 10, 11, 12, 13, 14}
    BY <2>1
  <2>3. Steps(c)[a] \notin {"copy", "checksums", "fill-checksums"}
    BY <1>1, <2>2, VerifySteps
  <2>4. Steps(c)[a] \notin {"manifest", "fill-manifest"}
    BY <1>1, <2>2, VerifySteps
  <2> QED BY <2>3, <2>4
<1>2. CASE c = "generate"
  <2>1. a \in 1 .. 17
    BY <1>2, GenerateSteps
  <2>2. a \in {1, 2, 3, 4, 5, 6, 7, 8, 9, 10, 11, 12, 13, 14, 15, 16, 17}
    BY <2>1
  <2>3. Steps(c)[a] = "copy" => a = 2
    BY <1>2, <2>2, GenerateSteps
  <2>4. Steps(c)[a] = "checksums" => a = 14
    BY <1>2, <2>2, GenerateSteps
  <2>5. Steps(c)[a] = "fill-checksums" => a = 15
    BY <1>2, <2>2, GenerateSteps
  <2>6. Steps(c)[a] = "manifest" => a = 16
    BY <1>2, <2>2, GenerateSteps
  <2>7. Steps(c)[a] = "fill-manifest" => a = 17
    BY <1>2, <2>2, GenerateSteps
  <2> QED BY <1>2, <2>3, <2>4, <2>5, <2>6, <2>7
<1> QED BY <1>1, <1>2

\* The order of the build's steps.
LEMMA PipelineOrder ==
  /\ Following("inputs") = "package" /\ Following("package") = "comply"
  /\ Following("comply") = "comply-sums" /\ Following("comply-sums") = "attest"
  /\ Following("attest") = "attest-sums" /\ Following("attest-sums") = "reinputs"
  /\ Following("reinputs") = "make" /\ Following("make") = "smoke-package"
  /\ Following("smoke-package") = "smoke-payload"
  /\ Following("smoke-payload") = "provenance-inputs"
  /\ Following("provenance-inputs") = "provenance-setup"
  /\ Following("provenance-setup") = "provenance-package"
  /\ Following("provenance-package") = "evidence" /\ Following("evidence") = "runtime"
  /\ Following("runtime") = "smoke-attest" /\ Following("smoke-attest") = "smoke-sums"
  /\ Following("smoke-sums") = "keys" /\ Following("keys") = "generate"
  /\ Following("generate") = "verify" /\ Following("verify") = "done"
BY DEF Following, Pipeline

\* The build's steps, by name.
LEMMA PipelineSets ==
  /\ Early = {"inputs", "package", "comply", "comply-sums", "attest", "attest-sums",
              "reinputs", "make", "smoke-package", "smoke-payload", "provenance-inputs",
              "provenance-setup", "provenance-package", "evidence", "runtime",
              "smoke-attest", "smoke-sums", "keys"}
  /\ Installed = {"smoke-package", "smoke-payload", "provenance-inputs",
                  "provenance-setup", "provenance-package", "evidence", "runtime",
                  "smoke-attest", "smoke-sums", "keys", "generate", "verify", "done"}
  /\ Witnessed = {"runtime", "smoke-attest", "smoke-sums", "keys", "generate", "verify",
                  "done"}
  /\ Attested = {"smoke-sums", "keys", "generate", "verify", "done"}
  /\ {Pipeline[i] : i \in 1 .. Len(Pipeline)} = Early \cup {"generate", "verify", "done"}
  /\ Pipeline[1] = "inputs"
BY DEF Early, Installed, Witnessed, Attested, Pipeline

-----------------------------------------------------------------------------
(* Types.                                                                  *)

\* What each file may contain.
LEMMA ContentIs ==
  ASSUME NEW e
  PROVE  /\ \A x \in Sources \cup {"payload", "lockcopy"} : Content(x, e) = Marks(e)
         /\ Content("setup", e) = Setups(e) /\ Content("package", e) = Packages(e)
         /\ Content("sbom", e) = Boms(e) /\ Content("sums", e) = SumFiles(e)
         /\ Content("evidence", e) = Evidences(e) /\ Content("keys", e) = {0}
         /\ Content("checksums", e) = {Partial} \cup Checksums(e)
<1>1. \A x \in Sources \cup {"payload", "lockcopy"} : Content(x, e) = Marks(e)
  BY DEF Content, Sources
<1>2. Content("setup", e) = Setups(e)
  BY DEF Content, Sources
<1>3. Content("package", e) = Packages(e)
  BY DEF Content, Sources
<1>4. Content("sbom", e) = Boms(e)
  BY DEF Content, Sources
<1>5. Content("sums", e) = SumFiles(e)
  BY DEF Content, Sources
<1>6. Content("evidence", e) = Evidences(e)
  BY DEF Content, Sources
<1>7. Content("keys", e) = {0}
  BY DEF Content, Sources
<1>8. Content("checksums", e) = {Partial} \cup Checksums(e)
  BY DEF Content, Sources
<1> QED BY <1>1, <1>2, <1>3, <1>4, <1>5, <1>6, <1>7, <1>8

\* The names of the files.
LEMMA FileNames ==
  /\ Files = {"project", "commit", "inputs", "payload", "setup", "package", "sbom", "sums",
              "evidence", "keys", "lockcopy", "checksums", "manifest"}
  /\ Sources = {"project", "commit", "inputs"}
  /\ Outputs = {"lockcopy", "checksums", "manifest"}
  /\ Listed = {"project", "commit", "setup", "package", "evidence", "lockcopy", "keys",
               "sbom", "sums"}
BY DEF Files, Sources, Built, Records, Outputs, Listed

\* What is possible after some edits is possible after one more.
LEMMA ContentGrows ==
  ASSUME NEW e \in Nat, NEW d, d = e + 1
  PROVE  \A x \in Files \ {"manifest"} : Content(x, e) \subseteq Content(x, d)
<1>1. Marks(e) \subseteq Marks(d)
  BY DEF Marks
<1>2. OrNone(Marks(e)) \subseteq OrNone(Marks(d))
  BY <1>1 DEF OrNone
<1>3. Boms(e) \subseteq Boms(d) /\ OrNone(Boms(e)) \subseteq OrNone(Boms(d))
  <2>1. Boms(e) \subseteq Boms(d)
    BY <1>2 DEF Boms
  <2> QED BY <2>1 DEF OrNone
<1>4. SumFiles(e) \subseteq SumFiles(d) /\ OrNone(SumFiles(e)) \subseteq OrNone(SumFiles(d))
  <2>1. SumFiles(e) \subseteq SumFiles(d)
    BY <1>2, <1>3 DEF SumFiles
  <2> QED BY <2>1 DEF OrNone
<1>5. EntrySets(e) \subseteq EntrySets(d)
  BY <1>2, <1>3, <1>4 DEF EntrySets
<1>6. Packages(e) \subseteq Packages(d) /\ OrNone(Packages(e)) \subseteq OrNone(Packages(d))
  <2>1. Packages(e) \subseteq Packages(d)
    BY <1>1, <1>5 DEF Packages
  <2> QED BY <2>1 DEF OrNone
<1>7. Setups(e) \subseteq Setups(d) /\ OrNone(Setups(e)) \subseteq OrNone(Setups(d))
  <2>1. Setups(e) \subseteq Setups(d)
    BY <1>1, <1>6 DEF Setups
  <2> QED BY <2>1 DEF OrNone
<1>8. Evidences(e) \subseteq Evidences(d) /\ OrNone(Evidences(e)) \subseteq OrNone(Evidences(d))
  <2>1. Evidences(e) \subseteq Evidences(d)
    BY <1>6, <1>7 DEF Evidences
  <2> QED BY <2>1 DEF OrNone
<1>9. Checksums(e) \subseteq Checksums(d)
  BY <1>2, <1>3, <1>4, <1>6, <1>7, <1>8 DEF Checksums
<1> QED BY <1>1, <1>3, <1>4, <1>6, <1>7, <1>8, <1>9, ContentIs, FileNames

\* So is what a manifest holds or a command has seen.
LEMMA ListingGrows ==
  ASSUME NEW e \in Nat, NEW d, d = e + 1, NEW s, Listing(s, e)
  PROVE  Listing(s, d)
<1>1. \A x \in Listed : x \in Files \ {"manifest"}
  BY FileNames
<1>2. \A x \in Listed : s[x] \in OrNone(Content(x, d))
  BY <1>1, ContentGrows DEF Listing, OrNone
<1> QED BY <1>2 DEF Listing

\* The same of a command.
LEMMA CommandGrows ==
  ASSUME NEW e \in Nat, NEW d, d = e + 1, NEW r, Command(r, e)
  PROVE  Command(r, d)
BY ListingGrows DEF Command

\* The same of the directory.
LEMMA DirectoryGrows ==
  ASSUME NEW e \in Nat, NEW d, d = e + 1, NEW f, Directory(f, e)
  PROVE  Directory(f, d)
<1>1. \A x \in Sources : f[x] \in Content(x, d)
  BY ContentGrows, FileNames DEF Directory
<1>2. \A x \in Files \ {"manifest"} : f[x] \in OrNone(Content(x, d))
  BY ContentGrows DEF Directory, OrNone
<1>3. f["manifest"] \in {None, Partial} \/ Listing(f["manifest"], d)
  BY ListingGrows DEF Directory
<1> QED BY <1>1, <1>2, <1>3 DEF Directory

\* A content that a file can have.
Fitting(x, v, e) ==
  /\ x \in Files
  /\ x \in Sources => v \in Content(x, e)
  /\ x # "manifest" => v \in OrNone(Content(x, e))
  /\ x = "manifest" => v \in {None, Partial} \/ Listing(v, e)

\* The directory after it is written.
Put(f, x, v, g) == g = [f EXCEPT ![x] = v]

\* A file that is written.
LEMMA DirectorySet ==
  ASSUME NEW e, NEW f, Directory(f, e), NEW x, NEW v, Fitting(x, v, e),
         NEW g, Put(f, x, v, g)
  PROVE  /\ Directory(g, e) /\ g[x] = v
         /\ \A y \in Files : y # x => g[y] = f[y]
<1>1. f = [y \in Files |-> f[y]]
  BY DEF Directory
<1>2. g = [y \in Files |-> g[y]] /\ \A y \in Files : g[y] = IF y = x THEN v ELSE f[y]
  BY <1>1 DEF Put, Fitting
<1>3. \A y \in Sources : g[y] \in Content(y, e)
  BY <1>2, FileNames DEF Directory, Fitting
<1>4. \A y \in Files \ {"manifest"} : g[y] \in OrNone(Content(y, e))
  BY <1>2 DEF Directory, Fitting
<1>5. g["manifest"] \in {None, Partial} \/ Listing(g["manifest"], e)
  BY <1>2, FileNames DEF Directory, Fitting
<1> QED BY <1>2, <1>3, <1>4, <1>5 DEF Directory, Fitting

-----------------------------------------------------------------------------
(* The records of the bundle's commands.                                   *)

\* What every change of a command's record but those of one field keeps.
Same(r, q, changed) ==
  /\ "cmd" \notin changed => q.cmd = r.cmd
  /\ "at" \notin changed => q.at = r.at
  /\ "seen" \notin changed => q.seen = r.seen
  /\ "mine" \notin changed => q.mine = r.mine
  /\ "start" \notin changed => q.start = r.start
  /\ "alone" \notin changed => q.alone = r.alone

\* Nothing is seen before anything is read.
LEMMA BlankIs ==
  ASSUME NEW e
  PROVE  Listing(Blank, e) /\ \A x \in Listed : Blank[x] = None
BY DEF Listing, Blank, OrNone

\* No command.
LEMMA NoProcIs ==
  ASSUME NEW e
  PROVE  /\ Command(NoProc, e)
         /\ NoProc.cmd = None /\ NoProc.at = 0 /\ NoProc.mine = {}
<1>1. /\ NoProc.cmd = None /\ NoProc.at = 0 /\ NoProc.mine = {} /\ NoProc.alone = TRUE
      /\ NoProc.seen = Blank /\ NoProc.start = Blank
  BY DEF NoProc
<1>2. NoProc = [cmd |-> NoProc.cmd, at |-> NoProc.at, seen |-> NoProc.seen,
                mine |-> NoProc.mine, start |-> NoProc.start, alone |-> NoProc.alone]
  BY DEF NoProc
<1>3. Len(Steps(None)) \in Nat
  <2>1. Steps(None) = Steps("verify")
    BY NoneAssumption DEF Steps
  <2> QED BY <2>1, VerifySteps
<1>4. NoProc.at \in 0 .. Len(Steps(NoProc.cmd))
  BY <1>1, <1>3
<1>5. Listing(NoProc.seen, e) /\ Listing(NoProc.start, e)
  BY <1>1, BlankIs
<1> HIDE DEF NoProc
<1>6. NoProc.cmd \in {None, "generate", "verify"} /\ NoProc.mine \subseteq Outputs
      /\ NoProc.alone \in BOOLEAN
  BY <1>1
<1> QED BY <1>1, <1>2, <1>4, <1>5, <1>6 DEF Command

\* A command moves to another step.
LEMMA CommandAt ==
  ASSUME NEW e, NEW r, Command(r, e), r.cmd # None, NEW n, n \in 0 .. Len(Steps(r.cmd)),
         NEW q, q = [r EXCEPT !.at = n]
  PROVE  Command(q, e) /\ q.at = n /\ Same(r, q, {"at"})
<1>1. r = [cmd |-> r.cmd, at |-> r.at, seen |-> r.seen, mine |-> r.mine,
           start |-> r.start, alone |-> r.alone]
  BY DEF Command
<1>2. q = [cmd |-> r.cmd, at |-> n, seen |-> r.seen, mine |-> r.mine,
           start |-> r.start, alone |-> r.alone]
  BY <1>1
<1>3. /\ q.cmd = r.cmd /\ q.at = n /\ q.seen = r.seen /\ q.mine = r.mine
      /\ q.start = r.start /\ q.alone = r.alone
  BY <1>2
<1>4. q = [cmd |-> q.cmd, at |-> q.at, seen |-> q.seen, mine |-> q.mine,
           start |-> q.start, alone |-> q.alone]
  BY <1>2, <1>3
<1> QED BY <1>3, <1>4 DEF Command, Same

\* A command creates or removes outputs.
LEMMA CommandMine ==
  ASSUME NEW e, NEW r, Command(r, e), r.cmd # None, NEW M, M \subseteq Outputs,
         NEW q, q = [r EXCEPT !.mine = M]
  PROVE  Command(q, e) /\ q.mine = M /\ Same(r, q, {"mine"})
<1>1. r = [cmd |-> r.cmd, at |-> r.at, seen |-> r.seen, mine |-> r.mine,
           start |-> r.start, alone |-> r.alone]
  BY DEF Command
<1>2. q = [cmd |-> r.cmd, at |-> r.at, seen |-> r.seen, mine |-> M,
           start |-> r.start, alone |-> r.alone]
  BY <1>1
<1>3. /\ q.cmd = r.cmd /\ q.at = r.at /\ q.seen = r.seen /\ q.mine = M
      /\ q.start = r.start /\ q.alone = r.alone
  BY <1>2
<1>4. q = [cmd |-> q.cmd, at |-> q.at, seen |-> q.seen, mine |-> q.mine,
           start |-> q.start, alone |-> q.alone]
  BY <1>2, <1>3
<1> QED BY <1>3, <1>4 DEF Command, Same

\* A command runs beside others, or alone.
LEMMA CommandAlone ==
  ASSUME NEW e, NEW r, Command(r, e), r.cmd # None, NEW b \in BOOLEAN,
         NEW q, q = [r EXCEPT !.alone = b]
  PROVE  Command(q, e) /\ q.alone = b /\ Same(r, q, {"alone"})
<1>1. r = [cmd |-> r.cmd, at |-> r.at, seen |-> r.seen, mine |-> r.mine,
           start |-> r.start, alone |-> r.alone]
  BY DEF Command
<1>2. q = [cmd |-> r.cmd, at |-> r.at, seen |-> r.seen, mine |-> r.mine,
           start |-> r.start, alone |-> b]
  BY <1>1
<1>3. /\ q.cmd = r.cmd /\ q.at = r.at /\ q.seen = r.seen /\ q.mine = r.mine
      /\ q.start = r.start /\ q.alone = b
  BY <1>2
<1>4. q = [cmd |-> q.cmd, at |-> q.at, seen |-> q.seen, mine |-> q.mine,
           start |-> q.start, alone |-> q.alone]
  BY <1>2, <1>3
<1> QED BY <1>3, <1>4 DEF Command, Same

\* A command's record after it has read the content `v` of a file.
Sees(r, x, v, q) == q = [r EXCEPT !.seen[x] = v]

\* A command reads a file.
LEMMA CommandSeen ==
  ASSUME NEW e, NEW r, Command(r, e), r.cmd # None, NEW x, x \in Listed,
         NEW v, v \in OrNone(Content(x, e)), NEW q, Sees(r, x, v, q)
  PROVE  /\ Command(q, e) /\ Same(r, q, {"seen"})
         /\ q.seen[x] = v /\ \A y \in Listed : y # x => q.seen[y] = r.seen[y]
<1> DEFINE s == [r.seen EXCEPT ![x] = v]
<1>1. r = [cmd |-> r.cmd, at |-> r.at, seen |-> r.seen, mine |-> r.mine,
           start |-> r.start, alone |-> r.alone]
  BY DEF Command
<1>2. q = [cmd |-> r.cmd, at |-> r.at, seen |-> s, mine |-> r.mine,
           start |-> r.start, alone |-> r.alone]
  BY <1>1 DEF Sees
<1>3. /\ s = [y \in Listed |-> s[y]]
      /\ \A y \in Listed : s[y] = IF y = x THEN v ELSE r.seen[y]
  BY DEF Command, Listing
<1> HIDE DEF s
<1>4. Listing(s, e)
  BY <1>3 DEF Command, Listing
<1>5. /\ q.cmd = r.cmd /\ q.at = r.at /\ q.seen = s /\ q.mine = r.mine
      /\ q.start = r.start /\ q.alone = r.alone
  BY <1>2
<1>6. q = [cmd |-> q.cmd, at |-> q.at, seen |-> q.seen, mine |-> q.mine,
           start |-> q.start, alone |-> q.alone]
  BY <1>2, <1>5
<1> QED BY <1>3, <1>4, <1>5, <1>6 DEF Command, Same

\* One command changes and the others stay.
LEMMA ProcSet ==
  ASSUME NEW P, P = [i \in Procs |-> P[i]], NEW p \in Procs, NEW q,
         NEW Q, Q = [P EXCEPT ![p] = q]
  PROVE  /\ Q = [i \in Procs |-> Q[i]] /\ Q[p] = q
         /\ \A i \in Procs : i # p => Q[i] = P[i]
OBVIOUS

-----------------------------------------------------------------------------
(* What the steps of a bundle command do, in the fields they change.       *)

Step(p) == Steps(proc[p].cmd)[proc[p].at]
Positions(p) == 1 .. Len(Steps(proc[p].cmd))

\* The command of p changes in these fields only, and the others not at all.
Turn(p, changed) ==
  /\ proc' = [i \in Procs |-> proc'[i]]
  /\ \A i \in Procs : i # p => proc'[i] = proc[i]
  /\ Command(proc'[p], edits) /\ Same(proc[p], proc'[p], changed)

\* It goes on.
Onward(p, changed) ==
  /\ Running(p) /\ proc[p].at \in Positions(p)
  /\ Turn(p, changed \cup {"at"}) /\ proc'[p].at = proc[p].at + 1

\* The file x changes, and no other.
Rewrites(x) ==
  /\ Directory(file', edits)
  /\ \A y \in Files : y # x => file'[y] = file[y]

\* It ends, and the build goes to `step` if the command was its own.
Leaves(p, step) ==
  /\ Running(p)
  /\ proc' = [i \in Procs |-> proc'[i]] /\ proc'[p] = NoProc
  /\ \A i \in Procs : i # p => proc'[i] = proc[i]
  /\ p # "make" => make' = make
  /\ p = "make" => make' = [make EXCEPT !.at = step]

Writing == {"copy", "checksums", "fill-checksums", "manifest", "fill-manifest"}

Stops(p) ==
  /\ Running(p) /\ Turn(p, {"at"}) /\ proc'[p].at = 0
  /\ UNCHANGED <<file, owner, make, verdict>>

Moves(p) ==
  /\ Onward(p, {}) /\ Step(p) \notin Listed \cup Writing \cup {"compare"}
  /\ Step(p) = "present" => file["manifest"] # None
  /\ UNCHANGED <<file, owner, make, verdict>>

Reads(p, x) ==
  /\ x \in Listed /\ Onward(p, {"seen"}) /\ Step(p) = x
  /\ proc'[p].seen[x] = file[x]
  /\ \A y \in Listed : y # x => proc'[p].seen[y] = proc[p].seen[y]
  /\ x \in {"setup", "package"} => file[x] = proc[p].seen["evidence"][x]
  /\ UNCHANGED <<file, owner, make, verdict>>

Writes(p, x) ==
  /\ x \in Outputs /\ Onward(p, {"mine"})
  /\ Step(p) = IF x = "lockcopy" THEN "copy" ELSE x
  /\ proc'[p].mine = proc[p].mine \cup {x}
  /\ file[x] = None /\ Rewrites(x) /\ (x = "lockcopy" => file'[x] # None)
  /\ owner' \in [Outputs -> Procs \cup {None}] /\ owner'[x] = p
  /\ \A y \in Outputs : y # x => owner'[y] = owner[y]
  /\ UNCHANGED <<make, verdict>>

Fills(p) ==
  /\ Onward(p, {}) /\ Step(p) = "fill-checksums"
  /\ Rewrites("checksums") /\ file'["checksums"] \notin {None, Partial}
  /\ UNCHANGED <<owner, make, verdict>>

Generates(p) ==
  /\ proc[p].at \in Positions(p) /\ Step(p) = "fill-manifest"
  /\ Leaves(p, Following(make.at))
  /\ Rewrites("manifest") /\ file'["manifest"] = proc[p].seen
  /\ UNCHANGED <<owner, verdict>>

Verifies(p) ==
  /\ proc[p].at \in Positions(p) /\ Step(p) = "compare"
  /\ file["manifest"] = proc[p].seen
  /\ Leaves(p, Following(make.at))
  /\ verdict'.manifest = proc[p].seen /\ verdict'.start = proc[p].start
  /\ verdict'.alone = proc[p].alone /\ verdict'.by = p
  /\ UNCHANGED <<file, owner>>

Drops(p) ==
  /\ Leaves(p, "failed")
  /\ UNCHANGED <<file, owner, verdict>>

Removes(p, x) ==
  /\ Failing(p) /\ x \in Outputs /\ x = NextToUndo(proc[p].mine) /\ proc[p].mine # {}
  /\ Turn(p, {"mine"}) /\ proc'[p].mine = proc[p].mine \ {x}
  /\ Rewrites(x) /\ file'[x] = None
  /\ owner' \in [Outputs -> Procs \cup {None}] /\ owner'[x] = None
  /\ \A y \in Outputs : y # x => owner'[y] = owner[y]
  /\ UNCHANGED <<make, verdict>>

\* A command at one of its steps is under way.
LEMMA AtIs ==
  ASSUME TypeOK, NEW p \in Procs, NEW step, At(p, step)
  PROVE  /\ Running(p) /\ proc[p].at \in Positions(p) /\ Step(p) = step
         /\ proc[p].cmd \in {"generate", "verify"}
<1>1. Command(proc[p], edits) /\ proc[p].at # 0 /\ Step(p) = step
  BY DEF TypeOK, At, Step
<1>2. proc[p].at \in 0 .. Len(Steps(proc[p].cmd)) /\ proc[p].cmd \in {None, "generate", "verify"}
      /\ (proc[p].cmd = None => proc[p] = NoProc)
  BY <1>1 DEF Command
<1>3. proc[p].cmd # None
  BY <1>1, <1>2, NoProcIs
<1>4. Len(Steps(proc[p].cmd)) \in Nat
  BY <1>2, <1>3, VerifySteps, GenerateSteps
<1> QED BY <1>1, <1>2, <1>3, <1>4 DEF Running, Positions

\* A command moves on, after what it has changed in its record.
LEMMA GoesOn ==
  ASSUME TypeOK, NEW p \in Procs, Running(p), proc[p].at \in Positions(p),
         Step(p) \notin {"compare", "fill-manifest"},
         NEW r, NEW changed, "cmd" \notin changed, "at" \notin changed,
         Command(r, edits), Same(proc[p], r, changed), Goes(p, r)
  PROVE  /\ Onward(p, changed)
         /\ proc'[p].seen = r.seen /\ proc'[p].mine = r.mine
<1>1. r.cmd = proc[p].cmd /\ r.at = proc[p].at
  BY DEF Same
<1>2. proc[p].cmd \in {"generate", "verify"}
  BY DEF TypeOK, Command, Running
<1> DEFINE n == r.at + 1
<1>3. n \in 1 .. Len(Steps(r.cmd)) /\ n = proc[p].at + 1
  BY <1>1, <1>2, LastSteps DEF Positions, Step
<1>4. n \in 0 .. Len(Steps(r.cmd))
  <2>1. Len(Steps(r.cmd)) \in Nat
    BY <1>1, <1>2, VerifySteps, GenerateSteps
  <2> QED BY <1>3, <2>1
<1>5. r.cmd # None
  BY <1>1 DEF Running
<1> DEFINE q == [r EXCEPT !.at = n]
<1>6. proc' = [proc EXCEPT ![p] = q]
  BY DEF Goes
<1> HIDE DEF n
<1>7. q = [r EXCEPT !.at = n]
  OBVIOUS
<1> HIDE DEF q
<1>8. Command(q, edits) /\ q.at = n /\ Same(r, q, {"at"})
  BY <1>4, <1>5, <1>7, CommandAt
<1>9. proc = [i \in Procs |-> proc[i]]
  BY DEF TypeOK
<1>10. /\ proc' = [i \in Procs |-> proc'[i]] /\ proc'[p] = q
       /\ \A i \in Procs : i # p => proc'[i] = proc[i]
  BY <1>6, <1>9, ProcSet
<1>11. Same(proc[p], q, changed \cup {"at"})
  BY <1>8 DEF Same
<1>12. q.seen = r.seen /\ q.mine = r.mine
  BY <1>8 DEF Same
<1> QED BY <1>3, <1>8, <1>10, <1>11, <1>12 DEF Onward, Turn

\* A command fails.
LEMMA FailsIs ==
  ASSUME TypeOK, NEW p \in Procs, Running(p), BundleFails(p)
  PROVE  Stops(p)
<1>1. Command(proc[p], edits) /\ proc[p].cmd # None /\ proc = [i \in Procs |-> proc[i]]
  BY DEF TypeOK, Running
<1> DEFINE r == proc[p]
<1> DEFINE q == [r EXCEPT !.at = 0]
<1>2. r = [cmd |-> r.cmd, at |-> r.at, seen |-> r.seen, mine |-> r.mine,
           start |-> r.start, alone |-> r.alone]
  BY <1>1 DEF Command
<1>3. [r EXCEPT !.at = 0, !.mine = r.mine] = q
  <2> HIDE DEF r
  <2> QED BY <1>2
<1>4. proc' = [proc EXCEPT ![p] = q]
  <2>1. proc' = [proc EXCEPT ![p] = [r EXCEPT !.at = 0, !.mine = r.mine]]
    BY DEF BundleFails, Created
  <2> QED BY <1>3, <2>1
<1>5. 0 \in 0 .. Len(Steps(r.cmd))
  <2>1. r.cmd \in {"generate", "verify"}
    BY <1>1 DEF Command
  <2>2. Len(Steps(r.cmd)) \in Nat
    BY <2>1, VerifySteps, GenerateSteps
  <2> QED BY <2>2
<1> DEFINE n == 0
<1>6. n \in 0 .. Len(Steps(r.cmd)) /\ q = [r EXCEPT !.at = n]
  BY <1>5
<1> HIDE DEF n, q
<1>7. Command(q, edits) /\ q.at = n /\ Same(proc[p], q, {"at"})
  BY <1>1, <1>6, CommandAt
<1>8. /\ proc' = [i \in Procs |-> proc'[i]] /\ proc'[p] = q
      /\ \A i \in Procs : i # p => proc'[i] = proc[i]
  BY <1>1, <1>4, ProcSet
<1> QED BY <1>7, <1>8 DEF Stops, Turn, BundleFails, n

\* A command's record is unchanged where nothing of it changes.
LEMMA SameRecord ==
  ASSUME NEW r, NEW changed
  PROVE  Same(r, r, changed)
BY DEF Same

\* The names of steps and files differ.
LEMMA StepNames ==
  /\ {"absent", "present", "lock", "resetup", "reevidence"}
        \cap (Listed \cup Writing \cup {"compare"}) = {}
  /\ Listed \cap (Writing \cup {"compare"}) = {}
  /\ Writing \cap {"compare"} = {}
BY FileNames DEF Writing

\* The first two checks of a command.
LEMMA RequireIs ==
  ASSUME TypeOK, NEW p \in Procs, RequireAbsent(p) \/ RequirePresent(p) \/ RequireSameLock(p)
  PROVE  Moves(p) \/ Stops(p)
<1>1. PICK step \in {"absent", "present", "lock"}, b \in {TRUE, FALSE} :
         At(p, step) /\ Check(p, b, proc[p]) /\ (step = "present" /\ b => file["manifest"] # None)
  <2>1. CASE RequireAbsent(p)
    BY <2>1 DEF RequireAbsent
  <2>2. CASE RequirePresent(p)
    BY <2>2, FileNames DEF RequirePresent
  <2>3. CASE RequireSameLock(p)
    BY <2>3 DEF RequireSameLock
  <2> QED BY <2>1, <2>2, <2>3
<1>2. Running(p) /\ proc[p].at \in Positions(p) /\ Step(p) = step
  BY <1>1, AtIs
<1>3. CASE b
  <2>1. Goes(p, proc[p]) /\ UNCHANGED <<file, owner, make, verdict>>
    BY <1>1, <1>3 DEF Check
  <2>2. Command(proc[p], edits) /\ Same(proc[p], proc[p], {})
    BY SameRecord DEF TypeOK
  <2>3. Step(p) \notin Listed \cup Writing \cup {"compare"}
    BY <1>2, StepNames
  <2>4. Step(p) \notin {"compare", "fill-manifest"}
    BY <2>3 DEF Writing
  <2>5. Onward(p, {})
    BY <1>2, <2>1, <2>2, <2>4, GoesOn
  <2> QED BY <1>1, <1>2, <1>3, <2>1, <2>3, <2>5 DEF Moves
<1>4. CASE ~b
  BY <1>1, <1>2, <1>4, FailsIs DEF Check
<1> QED BY <1>3, <1>4

\* What an output can hold.
LEMMA OutputTypes ==
  ASSUME TypeOK
  PROVE  /\ file["project"] \in Marks(edits) /\ file["project"] # None
         /\ Content("lockcopy", edits) = Marks(edits)
         /\ Partial \in OrNone(Content("checksums", edits))
<1>1. Content("project", edits) = Marks(edits) /\ Content("lockcopy", edits) = Marks(edits)
      /\ Content("checksums", edits) = {Partial} \cup Checksums(edits)
  BY ContentIs, FileNames
<1>2. file["project"] \in Marks(edits)
  BY <1>1, FileNames DEF TypeOK, Directory
<1>3. None \notin Marks(edits)
  BY NoneAssumption DEF TypeOK
<1> QED BY <1>1, <1>2, <1>3 DEF OrNone

\* An exclusive creation.
LEMMA CreatesIs ==
  ASSUME TypeOK, NEW p \in Procs, NEW x \in Outputs, NEW v,
         At(p, IF x = "lockcopy" THEN "copy" ELSE x), Creates(p, x, v),
         x = "lockcopy" => v = file["project"], x # "lockcopy" => v = Partial
  PROVE  Writes(p, x) \/ Stops(p)
<1> DEFINE step == IF x = "lockcopy" THEN "copy" ELSE x
<1>0. x \in {"lockcopy", "checksums", "manifest"}
  BY FileNames
<1>1. Running(p) /\ proc[p].at \in Positions(p) /\ Step(p) = step
  BY AtIs
<1>2. CASE file[x] # None
  BY <1>1, <1>2, FailsIs DEF Creates
<1>3. CASE file[x] = None
  <2>1. /\ file' = [file EXCEPT ![x] = v] /\ owner' = [owner EXCEPT ![x] = p]
        /\ Goes(p, [proc[p] EXCEPT !.mine = @ \cup {x}])
        /\ UNCHANGED <<make, verdict>>
    BY <1>3 DEF Creates
  <2> DEFINE M == proc[p].mine \cup {x}
  <2> DEFINE r == [proc[p] EXCEPT !.mine = M]
  <2>2. Command(proc[p], edits) /\ proc[p].cmd # None
    BY <1>1 DEF TypeOK, Running
  <2>3. M \subseteq Outputs
    BY <2>2 DEF Command
  <2>4. Goes(p, r)
    BY <2>1
  <2>5. M = proc[p].mine \cup {x} /\ r = [proc[p] EXCEPT !.mine = M]
    OBVIOUS
  <2> HIDE DEF M, r
  <2>6. Command(r, edits) /\ r.mine = M /\ Same(proc[p], r, {"mine"})
    BY <2>2, <2>3, <2>5, CommandMine
  <2>7. Step(p) \notin {"compare", "fill-manifest"}
    BY <1>0, <1>1
  <2>8. Onward(p, {"mine"}) /\ proc'[p].mine = proc[p].mine \cup {x}
    BY <1>1, <2>4, <2>5, <2>6, <2>7, GoesOn
  <2>9. Directory(file, edits) /\ x \in Files /\ x \notin Sources
    BY FileNames DEF TypeOK
  <2>10. x # "manifest" => v \in OrNone(Content(x, edits))
    <3>1. CASE x = "lockcopy"
      BY <3>1, OutputTypes DEF OrNone
    <3>2. CASE x = "checksums"
      BY <3>2, OutputTypes
    <3> QED BY <1>0, <3>1, <3>2
  <2>11. x = "manifest" => v \in {None, Partial}
    OBVIOUS
  <2>12. Directory(file', edits) /\ file'[x] = v /\ \A y \in Files : y # x => file'[y] = file[y]
    <3> DEFINE g == [file EXCEPT ![x] = v]
    <3>1. Fitting(x, v, edits)
      BY <2>9, <2>10, <2>11 DEF Fitting
    <3>2. Put(file, x, v, g) /\ file' = g
      BY <2>1 DEF Put
    <3> HIDE DEF g
    <3>3. Directory(g, edits) /\ g[x] = v /\ \A y \in Files : y # x => g[y] = file[y]
      BY <2>9, <3>1, <3>2, DirectorySet
    <3> QED BY <3>2, <3>3
  <2>13. x = "lockcopy" => file'[x] # None
    BY <2>12, OutputTypes
  <2>14. /\ owner' \in [Outputs -> Procs \cup {None}] /\ owner'[x] = p
         /\ \A y \in Outputs : y # x => owner'[y] = owner[y]
    BY <2>1 DEF TypeOK
  <2> QED BY <1>1, <1>3, <2>1, <2>8, <2>12, <2>13, <2>14 DEF Writes, Rewrites
<1> QED BY <1>2, <1>3

\* The creation of the copied lockfile, and of the files that are then filled.
LEMMA CreationIs ==
  ASSUME TypeOK, NEW p \in Procs, CopySourceLock(p) \/ OpenOutput(p)
  PROVE  (\E x \in Outputs : Writes(p, x)) \/ Stops(p)
<1>0. "lockcopy" \in Outputs /\ "checksums" \in Outputs /\ "manifest" \in Outputs
  BY FileNames
<1>1. CASE CopySourceLock(p)
  <2>1. At(p, "copy") /\ Creates(p, "lockcopy", file["project"])
    BY <1>1 DEF CopySourceLock
  <2> DEFINE x == "lockcopy"
  <2>2. x \in Outputs /\ At(p, IF x = "lockcopy" THEN "copy" ELSE x)
        /\ Creates(p, x, file["project"])
    BY <1>0, <2>1
  <2> QED BY <2>2, CreatesIs
<1>2. CASE OpenOutput(p)
  <2>1. PICK x \in {"checksums", "manifest"} : At(p, x) /\ Creates(p, x, Partial)
    BY <1>2 DEF OpenOutput
  <2>2. x \in Outputs /\ x # "lockcopy"
    BY <1>0, <2>1
  <2> QED BY <2>1, <2>2, CreatesIs
<1> QED BY <1>1, <1>2

\* The end of a command.
LEMMA EndsIs ==
  ASSUME TypeOK, NEW p \in Procs, Running(p), NEW step,
         proc' = [proc EXCEPT ![p] = NoProc],
         make' = IF p = "make" THEN [make EXCEPT !.at = step] ELSE make
  PROVE  Leaves(p, step)
<1>1. proc = [i \in Procs |-> proc[i]]
  BY DEF TypeOK
<1> HIDE DEF NoProc
<1>2. /\ proc' = [i \in Procs |-> proc'[i]] /\ proc'[p] = NoProc
      /\ \A i \in Procs : i # p => proc'[i] = proc[i]
  BY <1>1, ProcSet
<1> QED BY <1>2 DEF Leaves

\* What a command renders from what it has seen fits the file it is written to.
LEMMA RenderedIs ==
  ASSUME NEW e, NEW s, Listing(s, e)
  PROVE  ChecksumsOf(s) \in Checksums(e) /\ ChecksumsOf(s) # Partial
<1>1. /\ s["setup"] \in OrNone(Setups(e)) /\ s["package"] \in OrNone(Packages(e))
      /\ s["evidence"] \in OrNone(Evidences(e)) /\ s["lockcopy"] \in OrNone(Marks(e))
      /\ s["keys"] \in OrNone({0}) /\ s["sbom"] \in OrNone(Boms(e))
      /\ s["sums"] \in OrNone(SumFiles(e))
  BY ContentIs, FileNames DEF Listing
<1>2. ChecksumsOf(s) \in Checksums(e)
  BY <1>1 DEF ChecksumsOf, Checksums
<1>3. ChecksumsOf(s) # Partial
  <2>1. "setup" \in DOMAIN ChecksumsOf(s) /\ "setup" \notin DOMAIN Partial
    BY DEF ChecksumsOf, Partial
  <2> QED BY <2>1
<1> QED BY <1>2, <1>3

\* The filling of an output.
LEMMA FillIs ==
  ASSUME TypeOK, NEW p \in Procs, FillOutput(p)
  PROVE  Fills(p) \/ Generates(p)
<1>0. "checksums" \in Files \ Sources /\ "manifest" \in Files \ Sources
  BY FileNames
<1>1. CASE At(p, "fill-checksums") /\ Goes(p, proc[p])
           /\ file' = [file EXCEPT !["checksums"] = ChecksumsOf(proc[p].seen)]
           /\ UNCHANGED make
  <2>1. Running(p) /\ proc[p].at \in Positions(p) /\ Step(p) = "fill-checksums"
    BY <1>1, AtIs
  <2>2. Command(proc[p], edits) /\ Same(proc[p], proc[p], {})
    BY SameRecord DEF TypeOK
  <2>3. Onward(p, {})
    BY <1>1, <2>1, <2>2, GoesOn
  <2> DEFINE v == ChecksumsOf(proc[p].seen)
  <2> DEFINE x == "checksums"
  <2>4. v \in Checksums(edits) /\ v # Partial
    BY <2>2, RenderedIs DEF Command
  <2>5. v # None
    BY <2>4, NoneAssumption DEF TypeOK
  <2>6. x \in Files /\ x \notin Sources /\ x = "checksums"
    BY <1>0
  <2>7. file' = [file EXCEPT ![x] = v] /\ Directory(file, edits)
    BY <1>1 DEF TypeOK
  <2> HIDE DEF v, x
  <2>8. v \in OrNone(Content(x, edits))
    BY <2>4, <2>6, ContentIs DEF OrNone
  <2> DEFINE g == [file EXCEPT ![x] = v]
  <2>9. Put(file, x, v, g) /\ file' = g /\ Fitting(x, v, edits)
    BY <2>6, <2>7, <2>8 DEF Put, Fitting
  <2> HIDE DEF g
  <2>10. Directory(g, edits) /\ g[x] = v /\ \A y \in Files : y # x => g[y] = file[y]
    BY <2>7, <2>9, DirectorySet
  <2>11. Rewrites("checksums") /\ file'["checksums"] \notin {None, Partial}
    BY <2>4, <2>5, <2>6, <2>9, <2>10 DEF Rewrites
  <2>12. UNCHANGED <<owner, make, verdict>>
    BY <1>1 DEF FillOutput
  <2> QED BY <2>1, <2>3, <2>11, <2>12 DEF Fills
<1>2. CASE At(p, "fill-manifest") /\ Ends(p)
           /\ file' = [file EXCEPT !["manifest"] = ManifestOf(proc[p].seen)]
  <2>1. Running(p) /\ proc[p].at \in Positions(p) /\ Step(p) = "fill-manifest"
    BY <1>2, AtIs
  <2>2. Command(proc[p], edits)
    BY DEF TypeOK
  <2>3. Leaves(p, Following(make.at))
    BY <1>2, <2>1, EndsIs DEF Ends
  <2> DEFINE v == proc[p].seen
  <2> DEFINE x == "manifest"
  <2>4. Listing(v, edits)
    BY <2>2 DEF Command
  <2>5. x \in Files /\ x \notin Sources /\ x = "manifest"
    BY <1>0
  <2>6. file' = [file EXCEPT ![x] = v] /\ Directory(file, edits)
    BY <1>2 DEF TypeOK, ManifestOf
  <2> DEFINE g == [file EXCEPT ![x] = v]
  <2>7. Put(file, x, v, g) /\ file' = g /\ v = proc[p].seen /\ Fitting(x, v, edits)
    BY <2>4, <2>5, <2>6 DEF Put, Fitting
  <2> HIDE DEF g, v, x
  <2>8. Directory(g, edits) /\ g[x] = v /\ \A y \in Files : y # x => g[y] = file[y]
    BY <2>6, <2>7, DirectorySet
  <2>9. Rewrites("manifest") /\ file'["manifest"] = proc[p].seen
    BY <2>5, <2>7, <2>8 DEF Rewrites
  <2>10. UNCHANGED <<owner, verdict>>
    BY DEF FillOutput
  <2> QED BY <2>1, <2>3, <2>9, <2>10 DEF Generates
<1> QED BY <1>1, <1>2 DEF FillOutput

\* The names of what is inspected.
LEMMA RenderNames ==
  ASSUME NEW i, i \in 1 .. Len(Render)
  PROVE  Render[i] \in Listed \cup {"resetup", "reevidence"}
<1>1. Len(Render) = 11
  BY DEF Render
<1>2. i \in {1, 2, 3, 4, 5, 6, 7, 8, 9, 10, 11}
  BY <1>1
<1> QED BY <1>2, FileNames DEF Render

\* What is read was compared with the evidence.
LEMMA FitsIs ==
  ASSUME NEW p \in Procs, NEW x \in {"setup", "package"}, Fits(p, x)
  PROVE  file[x] = proc[p].seen["evidence"][x]
BY DEF Fits

\* The reading of a file.
LEMMA InspectIs ==
  ASSUME TypeOK, NEW p \in Procs, Inspect(p)
  PROVE  (\E x \in Listed : Reads(p, x)) \/ Moves(p) \/ Stops(p)
<1>1. PICK i \in 1 .. Len(Render) :
         /\ At(p, Render[i])
         /\ Check(p, Fits(p, Render[i]),
                  IF Render[i] \in Listed
                  THEN [proc[p] EXCEPT !.seen[Render[i]] = file[Render[i]]]
                  ELSE proc[p])
  BY DEF Inspect
<1> DEFINE x == Render[i]
<1>2. x \in Listed \cup {"resetup", "reevidence"}
  BY RenderNames
<1>3. At(p, x) /\ Check(p, Fits(p, x), IF x \in Listed THEN [proc[p] EXCEPT !.seen[x] = file[x]]
                                       ELSE proc[p])
  BY <1>1
<1> HIDE DEF x
<1>4. Running(p) /\ proc[p].at \in Positions(p) /\ Step(p) = x
  BY <1>3, AtIs
<1>5. Command(proc[p], edits) /\ proc[p].cmd # None
  BY <1>4 DEF TypeOK, Running
<1>6. x \notin Writing \cup {"compare"}
  BY <1>2, StepNames
<1>7. Step(p) \notin {"compare", "fill-manifest"}
  BY <1>4, <1>6 DEF Writing
<1>8. CASE ~Fits(p, x)
  BY <1>3, <1>4, <1>8, FailsIs DEF Check
<1>9. CASE Fits(p, x) /\ x \in Listed
  <2> DEFINE v == file[x]
  <2> DEFINE r == [proc[p] EXCEPT !.seen[x] = v]
  <2>1. Goes(p, r) /\ UNCHANGED <<file, owner, make, verdict>>
    BY <1>3, <1>9 DEF Check
  <2>2. v \in OrNone(Content(x, edits))
    BY <1>9, FileNames DEF TypeOK, Directory
  <2>3. Sees(proc[p], x, v, r)
    BY DEF Sees
  <2>4. v = file[x]
    OBVIOUS
  <2> HIDE DEF r, v
  <2>5. /\ Command(r, edits) /\ Same(proc[p], r, {"seen"})
        /\ r.seen[x] = v /\ \A y \in Listed : y # x => r.seen[y] = proc[p].seen[y]
    BY <1>5, <1>9, <2>2, <2>3, CommandSeen
  <2>6. Onward(p, {"seen"}) /\ proc'[p].seen = r.seen
    BY <1>4, <1>7, <2>1, <2>5, GoesOn
  <2>7. x \in {"setup", "package"} => file[x] = proc[p].seen["evidence"][x]
    BY <1>9, FitsIs
  <2> QED BY <1>4, <1>9, <2>1, <2>4, <2>5, <2>6, <2>7 DEF Reads
<1>10. CASE Fits(p, x) /\ x \notin Listed
  <2>1. Goes(p, proc[p]) /\ UNCHANGED <<file, owner, make, verdict>>
    BY <1>3, <1>10 DEF Check
  <2>2. Same(proc[p], proc[p], {})
    BY SameRecord
  <2>3. Onward(p, {})
    BY <1>4, <1>5, <1>7, <2>1, <2>2, GoesOn
  <2>4. Step(p) \notin Listed \cup Writing \cup {"compare"} /\ Step(p) # "present"
    BY <1>2, <1>4, <1>6, <1>10
  <2> QED BY <2>1, <2>3, <2>4 DEF Moves
<1> QED BY <1>8, <1>9, <1>10

\* The comparison.
LEMMA CompareIs ==
  ASSUME TypeOK, NEW p \in Procs, CompareBundle(p)
  PROVE  Verifies(p) \/ Stops(p)
<1>1. Running(p) /\ proc[p].at \in Positions(p) /\ Step(p) = "compare"
  BY AtIs DEF CompareBundle
<1>2. CASE BundleMatches(p)
  <2>1. /\ Ends(p) /\ UNCHANGED <<file, owner>>
        /\ verdict' = [manifest |-> file["manifest"], start |-> proc[p].start,
                       alone |-> proc[p].alone, by |-> p]
    BY <1>2 DEF CompareBundle
  <2>2. Leaves(p, Following(make.at))
    BY <1>1, <2>1, EndsIs DEF Ends
  <2>3. file["manifest"] = proc[p].seen
    BY <1>2 DEF BundleMatches, ManifestOf
  <2> QED BY <1>1, <2>1, <2>2, <2>3 DEF Verifies
<1>3. CASE ~BundleMatches(p)
  BY <1>1, <1>3, FailsIs DEF CompareBundle
<1> QED BY <1>2, <1>3

\* The cleanup after a failure.
LEMMA UndoIs ==
  ASSUME TypeOK, NEW p \in Procs, Undo(p)
  PROVE  Drops(p) \/ \E x \in Outputs : Removes(p, x)
<1>0. Failing(p) /\ Running(p) /\ Command(proc[p], edits) /\ proc[p].cmd # None
  BY DEF Undo, Failing, Running, TypeOK
<1>1. CASE proc[p].mine = {}
  <2>1. /\ proc' = [proc EXCEPT ![p] = NoProc]
        /\ make' = IF p = "make" THEN [make EXCEPT !.at = "failed"] ELSE make
        /\ UNCHANGED <<file, owner, verdict>>
    BY <1>1 DEF Undo
  <2>2. Leaves(p, "failed")
    BY <1>0, <2>1, EndsIs
  <2> QED BY <2>1, <2>2 DEF Drops
<1>2. CASE proc[p].mine # {}
  <2> DEFINE x == NextToUndo(proc[p].mine)
  <2> DEFINE M == proc[p].mine \ {x}
  <2> DEFINE q == [proc[p] EXCEPT !.mine = M]
  <2> DEFINE g == [file EXCEPT ![x] = None]
  <2>1. /\ file' = g /\ owner' = [owner EXCEPT ![x] = None]
        /\ proc' = [proc EXCEPT ![p] = q]
        /\ UNCHANGED <<make, verdict>>
    <3>1. proc' = [proc EXCEPT ![p].mine = @ \ {x}]
      BY <1>2 DEF Undo
    <3>2. proc = [i \in Procs |-> proc[i]]
      BY DEF TypeOK
    <3>3. [proc EXCEPT ![p].mine = @ \ {x}] = [proc EXCEPT ![p] = q]
      BY <3>2
    <3> QED BY <1>2, <3>1, <3>3 DEF Undo
  <2>2. x \in {"manifest", "checksums", "lockcopy"} /\ x = NextToUndo(proc[p].mine)
    BY DEF NextToUndo
  <2>3. M = proc[p].mine \ {x} /\ q = [proc[p] EXCEPT !.mine = M] /\ g = [file EXCEPT ![x] = None]
    OBVIOUS
  <2> HIDE DEF x, M, q, g
  <2>4. x \in Outputs /\ x \in Files /\ x \notin Sources
    BY <2>2, FileNames
  <2>5. M \subseteq Outputs
    BY <1>0, <2>3 DEF Command
  <2>6. Command(q, edits) /\ q.mine = M /\ Same(proc[p], q, {"mine"})
    BY <1>0, <2>3, <2>5, CommandMine
  <2>7. proc = [i \in Procs |-> proc[i]] /\ Directory(file, edits)
    BY DEF TypeOK
  <2>8. /\ proc' = [i \in Procs |-> proc'[i]] /\ proc'[p] = q
        /\ \A i \in Procs : i # p => proc'[i] = proc[i]
    BY <2>1, <2>7, ProcSet
  <2> DEFINE v == None
  <2>9. Put(file, x, v, g) /\ Fitting(x, v, edits)
    BY <2>3, <2>4 DEF OrNone, Put, Fitting
  <2> HIDE DEF v
  <2>10. Directory(g, edits) /\ g[x] = v /\ \A y \in Files : y # x => g[y] = file[y]
    BY <2>7, <2>9, DirectorySet
  <2>11. /\ owner' \in [Outputs -> Procs \cup {None}] /\ owner'[x] = None
         /\ \A y \in Outputs : y # x => owner'[y] = owner[y]
    BY <2>1, <2>4 DEF TypeOK
  <2>12. Turn(p, {"mine"}) /\ proc'[p].mine = proc[p].mine \ {x}
    BY <2>3, <2>6, <2>8 DEF Turn
  <2>13. Rewrites(x) /\ file'[x] = None
    BY <2>1, <2>10 DEF Rewrites, v
  <2> QED BY <1>0, <1>2, <2>1, <2>2, <2>4, <2>11, <2>12, <2>13 DEF Removes
<1> QED BY <1>1, <1>2

\* What a bundle command does in a step, by its effects.
Effect(p) ==
  \/ Stops(p) \/ Moves(p) \/ (\E x \in Listed : Reads(p, x))
  \/ (\E x \in Outputs : Writes(p, x)) \/ Fills(p) \/ Generates(p) \/ Verifies(p)
  \/ Drops(p) \/ (\E x \in Outputs : Removes(p, x))

\* Every step of a bundle command has one of these effects.
LEMMA BundleIs ==
  ASSUME TypeOK, NEW p \in Procs, Bundle(p)
  PROVE  Effect(p) /\ UNCHANGED <<profile, edits, runs, fails>>
<1>1. Effect(p)
  BY RequireIs, CreationIs, FillIs, InspectIs, CompareIs, UndoIs DEF Bundle, Effect
<1>2. UNCHANGED <<profile, edits, runs, fails>>
  BY DEF Bundle, RequireAbsent, RequirePresent, RequireSameLock, Check, CopySourceLock,
         OpenOutput, FillOutput, Inspect, CompareBundle, Undo, BundleKeeps
<1> QED BY <1>1, <1>2

\* The kinds of a file's contents.
LEMMA FileTypes ==
  ASSUME NEW e, NEW f, Directory(f, e)
  PROVE  /\ f["project"] \in Marks(e) /\ f["commit"] \in Marks(e) /\ f["inputs"] \in Marks(e)
         /\ f["payload"] \in OrNone(Marks(e)) /\ f["sbom"] \in OrNone(Boms(e))
         /\ f["sums"] \in OrNone(SumFiles(e)) /\ f["setup"] \in OrNone(Setups(e))
         /\ f["package"] \in OrNone(Packages(e)) /\ f["evidence"] \in OrNone(Evidences(e))
<1>1. /\ \A x \in Sources : f[x] \in Content(x, e)
      /\ \A x \in Files \ {"manifest"} : f[x] \in OrNone(Content(x, e))
  BY DEF Directory
<1>2. f["project"] \in Marks(e) /\ f["commit"] \in Marks(e) /\ f["inputs"] \in Marks(e)
  BY <1>1, ContentIs, FileNames
<1>3. f["payload"] \in OrNone(Marks(e)) /\ f["sbom"] \in OrNone(Boms(e))
      /\ f["sums"] \in OrNone(SumFiles(e))
  BY <1>1, ContentIs, FileNames
<1>4. /\ f["setup"] \in OrNone(Setups(e))
      /\ f["package"] \in OrNone(Packages(e)) /\ f["evidence"] \in OrNone(Evidences(e))
  BY <1>1, ContentIs, FileNames
<1> QED BY <1>2, <1>3, <1>4

\* What making the installer writes: a package of what lies there, and a Setup.exe
\* that embeds it.
LEMMA MadeIs ==
  ASSUME NEW e, NEW n, n \in Marks(e), Directory(file, e), NEW g, g = Made(n)
  PROVE  /\ Directory(g, e) /\ Entries \in EntrySets(e)
         /\ g["package"] = Package(Entries, n) /\ g["package"] \in Packages(e)
         /\ g["setup"] = Setup(file["inputs"], g["package"]) /\ g["setup"] \in Setups(e)
         /\ \A y \in Files : y \notin {"package", "setup"} => g[y] = file[y]
<1> DEFINE k == Package(Entries, n)
<1> DEFINE u == Setup(file["inputs"], k)
<1>1. Entries \in EntrySets(e)
  BY FileTypes DEF Entries, EntrySets
<1>2. k \in Packages(e)
  BY <1>1 DEF Packages, Package
<1>3. u \in Setups(e)
  <2> HIDE DEF k
  <2> QED BY <1>2, FileTypes DEF Setups, Setup
<1>4. g = [[file EXCEPT !["package"] = k] EXCEPT !["setup"] = u]
  BY DEF Made
<1>5. k = Package(Entries, n) /\ u = Setup(file["inputs"], k)
  OBVIOUS
<1> HIDE DEF k, u
<1> DEFINE x == "package"
<1> DEFINE h == [file EXCEPT !["package"] = k]
<1>6. Put(file, x, k, h) /\ Fitting(x, k, e)
  BY <1>2, FileNames, ContentIs DEF Put, Fitting, OrNone
<1>7. x = "package" /\ g = [h EXCEPT !["setup"] = u]
  BY <1>4
<1> HIDE DEF x, h
<1>8. Directory(h, e) /\ h[x] = k /\ \A y \in Files : y # x => h[y] = file[y]
  BY <1>6, DirectorySet
<1> DEFINE z == "setup"
<1>9. Put(h, z, u, g) /\ Fitting(z, u, e) /\ z = "setup"
  BY <1>3, <1>7, FileNames, ContentIs DEF Put, Fitting, OrNone
<1> HIDE DEF z
<1>10. Directory(g, e) /\ g[z] = u /\ \A y \in Files : y # z => g[y] = h[y]
  BY <1>8, <1>9, DirectorySet
<1>11. g["package"] = k
  BY <1>7, <1>8, <1>9, <1>10, FileNames
<1>12. g["setup"] = u
  BY <1>9, <1>10
<1>13. \A y \in Files : y \notin {"package", "setup"} => g[y] = file[y]
  BY <1>7, <1>8, <1>9, <1>10
<1> QED BY <1>1, <1>2, <1>3, <1>5, <1>10, <1>11, <1>12, <1>13

-----------------------------------------------------------------------------
(* What the steps of the build do.                                         *)

MakeRecords(e) ==
  [at : {Pipeline[i] : i \in 1 .. Len(Pipeline)} \cup {"idle", "failed"},
   setup : OrNone(Setups(e)), package : OrNone(Packages(e))]

\* The build goes to a step, with what it has read.
Goto(at, setup, package) ==
  /\ make' \in MakeRecords(edits)
  /\ make'.at = at /\ make'.setup = setup /\ make'.package = package

\* The steps that only check.
Checking ==
  {"inputs", "attest", "attest-sums", "reinputs", "smoke-payload", "provenance-inputs",
   "runtime", "smoke-attest", "smoke-sums"}

Halts == Goto("failed", None, None) /\ UNCHANGED file

Passes ==
  /\ make.at \in Checking
  /\ Goto(Following(make.at), make.setup, make.package) /\ UNCHANGED file
  /\ make.at = "smoke-attest" => file["sbom"] = Spdx(file["payload"])

Saves(x) ==
  /\ Rewrites(x) /\ Goto(Following(make.at), make.setup, make.package)
  /\ \/ x = "payload" /\ make.at = "package"
     \/ x = "sbom" /\ make.at = "comply" /\ file'["sbom"] \in Boms(edits)
     \/ x = "sums" /\ make.at = "comply-sums"
     \/ x = "keys" /\ make.at = "keys" /\ file'["keys"] # None

Installs ==
  /\ make.at = "make" /\ Goto("smoke-package", make.setup, make.package)
  /\ Directory(file', edits) /\ file'["setup"].embeds.entries = Entries
  /\ file'["setup"] # None
  /\ \A y \in Files : y \notin {"package", "setup"} => file'[y] = file[y]

LooksAt ==
  /\ UNCHANGED file
  /\ \/ make.at = "smoke-package" /\ Goto("smoke-payload", make.setup, file["package"])
     \/ /\ make.at = "provenance-setup" /\ file["setup"].inputs = PinnedInputs
        /\ Goto("provenance-package", file["setup"], make.package)
     \/ /\ make.at = "provenance-package" /\ make.setup.embeds = file["package"]
        /\ Goto("evidence", make.setup, file["package"])

Attests ==
  /\ make.at = "evidence" /\ Goto("runtime", None, None)
  /\ Rewrites("evidence") /\ file'["evidence"].setup = make.setup
  /\ file'["evidence"].package = make.package

\* A step of the build, by its effects.
BuildEffect ==
  Halts \/ Passes \/ (\E x \in Files : Saves(x)) \/ Installs \/ LooksAt \/ Attests

\* The build goes from one of its early steps to a step.
LEMMA FollowingIs ==
  ASSUME NEW step \in Early
  PROVE  Following(step) \in {Pipeline[i] : i \in 1 .. Len(Pipeline)}
<1>1. step \in {"inputs", "package", "comply", "comply-sums", "attest", "attest-sums",
                "reinputs", "make", "smoke-package", "smoke-payload", "provenance-inputs",
                "provenance-setup", "provenance-package", "evidence", "runtime",
                "smoke-attest", "smoke-sums", "keys"}
  BY PipelineSets
<1> QED BY <1>1, PipelineSets, PipelineOrder

\* The build's record after a step.
LEMMA GotoIs ==
  ASSUME TypeOK, NEW a, a \in {Pipeline[i] : i \in 1 .. Len(Pipeline)} \cup {"idle", "failed"},
         NEW s, s \in OrNone(Setups(edits)), NEW k, k \in OrNone(Packages(edits)),
         make' = [at |-> a, setup |-> s, package |-> k]
  PROVE  Goto(a, s, k)
<1>1. make' \in MakeRecords(edits)
  BY DEF MakeRecords
<1>2. make'.at = a /\ make'.setup = s /\ make'.package = k
  OBVIOUS
<1> QED BY <1>1, <1>2 DEF Goto

\* The build's record is one of its fields.
LEMMA MakeIs ==
  ASSUME TypeOK
  PROVE  /\ make = [at |-> make.at, setup |-> make.setup, package |-> make.package]
         /\ make.at \in {Pipeline[i] : i \in 1 .. Len(Pipeline)} \cup {"idle", "failed"}
         /\ make.setup \in OrNone(Setups(edits)) /\ make.package \in OrNone(Packages(edits))
BY DEF TypeOK

\* The build goes on.
LEMMA MakeGoes ==
  ASSUME TypeOK, make.at \in Early, MakeGoesOn
  PROVE  Goto(Following(make.at), make.setup, make.package)
<1> DEFINE a == Following(make.at)
<1>1. a \in {Pipeline[i] : i \in 1 .. Len(Pipeline)}
  BY FollowingIs
<1>2. make' = [at |-> a, setup |-> make.setup, package |-> make.package]
  BY MakeIs DEF MakeGoesOn
<1>3. a = Following(make.at)
  OBVIOUS
<1> HIDE DEF a
<1> QED BY <1>1, <1>2, <1>3, MakeIs, GotoIs

\* The build fails.
LEMMA MakeHalts ==
  ASSUME TypeOK, MakeFails
  PROVE  Halts
<1>1. make' = [at |-> "failed", setup |-> None, package |-> None]
  BY DEF MakeFails, NoMake
<1>2. None \in OrNone(Setups(edits)) /\ None \in OrNone(Packages(edits))
  BY DEF OrNone
<1> QED BY <1>1, <1>2, GotoIs DEF Halts, MakeFails

\* A check of the build.
LEMMA ChecksAre ==
  ASSUME TypeOK, make.at \in Checking, NEW b \in {TRUE, FALSE}, MakeChecks(b),
         make.at = "smoke-attest" /\ b => file["sbom"] = Spdx(file["payload"])
  PROVE  Halts \/ Passes
<1>1. make.at \in Early
  BY PipelineSets DEF Checking
<1>2. CASE b
  BY <1>1, <1>2, MakeGoes DEF MakeChecks, Passes
<1>3. CASE ~b
  BY <1>3, MakeHalts DEF MakeChecks
<1> QED BY <1>2, <1>3

\* The file x is written.
LEMMA WrittenIs ==
  ASSUME TypeOK, NEW x, NEW v, Fitting(x, v, edits), file' = [file EXCEPT ![x] = v]
  PROVE  Rewrites(x) /\ file'[x] = v
<1> DEFINE g == [file EXCEPT ![x] = v]
<1>1. Put(file, x, v, g) /\ file' = g
  BY DEF Put
<1>2. Directory(file, edits)
  BY DEF TypeOK
<1> HIDE DEF g
<1>3. Directory(g, edits) /\ g[x] = v /\ \A y \in Files : y # x => g[y] = file[y]
  BY <1>1, <1>2, DirectorySet
<1> QED BY <1>1, <1>3 DEF Rewrites

\* A content for a file that has a type of its own.
LEMMA FittingIs ==
  ASSUME NEW e, NEW v
  PROVE  /\ v \in Marks(e) => Fitting("payload", v, e)
         /\ v \in Boms(e) => Fitting("sbom", v, e)
         /\ v \in SumFiles(e) => Fitting("sums", v, e)
         /\ v \in Evidences(e) => Fitting("evidence", v, e)
         /\ v = 0 => Fitting("keys", v, e)
BY ContentIs, FileNames DEF Fitting, OrNone

\* The step of the build that makes the package directory.
LEMMA PackageIs ==
  ASSUME TypeOK, PackageApplication
  PROVE  Saves("payload") /\ make.at \in Early
<1>1. make.at = "package" /\ MakeGoesOn /\ file' = [file EXCEPT !["payload"] = 0]
  BY DEF PackageApplication, MakeAt
<1>2. 0 \in Marks(edits)
  BY DEF TypeOK, Marks
<1>3. Rewrites("payload")
  <2> DEFINE x == "payload"
  <2> DEFINE v == 0
  <2>1. Fitting(x, v, edits) /\ file' = [file EXCEPT ![x] = v] /\ x = "payload"
    BY <1>1, <1>2, FittingIs
  <2> HIDE DEF x, v
  <2> QED BY <2>1, WrittenIs
<1>4. make.at \in Early
  BY <1>1, PipelineSets
<1> QED BY <1>1, <1>3, <1>4, MakeGoes DEF Saves

\* The steps that write the SBOM and the checksums over it.
LEMMA ComplianceIs ==
  ASSUME TypeOK, GenerateCompliance
  PROVE  (Saves("sbom") \/ Saves("sums")) /\ make.at \in Early
<1>0. MakeGoesOn /\ Directory(file, edits)
  BY DEF GenerateCompliance, TypeOK
<1>1. CASE make.at = "comply" /\ file' = [file EXCEPT !["sbom"] = Spdx(Inventory)]
  <2> DEFINE x == "sbom"
  <2> DEFINE v == Spdx(Inventory)
  <2>1. v \in Boms(edits)
    BY <1>0, FileTypes DEF Boms, Spdx, Inventory
  <2>2. Fitting(x, v, edits) /\ file' = [file EXCEPT ![x] = v] /\ x = "sbom"
    <3> HIDE DEF v
    <3>1. Fitting(x, v, edits)
      BY <2>1, FittingIs
    <3> QED BY <1>1, <3>1 DEF v
  <2> HIDE DEF x, v
  <2>3. Rewrites(x) /\ file'[x] = v
    BY <2>2, WrittenIs
  <2>4. make.at \in Early
    BY <1>1, PipelineSets
  <2> QED BY <1>0, <1>1, <2>1, <2>2, <2>3, <2>4, MakeGoes DEF Saves
<1>2. CASE make.at = "comply-sums"
           /\ file' = [file EXCEPT !["sums"] = Sums(Inventory, file["sbom"])]
  <2> DEFINE x == "sums"
  <2> DEFINE v == Sums(Inventory, file["sbom"])
  <2>1. v \in SumFiles(edits)
    BY <1>0, FileTypes DEF SumFiles, Sums, Inventory
  <2>2. Fitting(x, v, edits) /\ file' = [file EXCEPT ![x] = v] /\ x = "sums"
    <3> HIDE DEF v
    <3>1. Fitting(x, v, edits)
      BY <2>1, FittingIs
    <3> QED BY <1>2, <3>1 DEF v
  <2> HIDE DEF x, v
  <2>3. Rewrites(x)
    BY <2>2, WrittenIs
  <2>4. make.at \in Early
    BY <1>2, PipelineSets
  <2> QED BY <1>0, <1>2, <2>2, <2>3, <2>4, MakeGoes DEF Saves
<1> QED BY <1>1, <1>2 DEF GenerateCompliance, MakeAt

\* The step that makes the installer.
LEMMA InstallerIs ==
  ASSUME TypeOK, MakeInstaller
  PROVE  Installs /\ make.at \in Early
<1>1. make.at = "make" /\ MakeGoesOn /\ file' = Made(0)
  BY DEF MakeInstaller, MakeAt
<1> DEFINE n == 0
<1> DEFINE g == Made(n)
<1>2. n \in Marks(edits) /\ Directory(file, edits) /\ g = Made(n) /\ file' = g
  BY <1>1 DEF TypeOK, Marks
<1> HIDE DEF n, g
<1>3. /\ Directory(g, edits)
      /\ g["package"] = Package(Entries, n) /\ g["setup"] = Setup(file["inputs"], g["package"])
      /\ g["setup"] \in Setups(edits)
      /\ \A y \in Files : y \notin {"package", "setup"} => g[y] = file[y]
  BY <1>2, MadeIs
<1>4. g["setup"].embeds.entries = Entries
  <2>1. Package(Entries, n).entries = Entries
    BY DEF Package
  <2>2. Setup(file["inputs"], g["package"]).embeds = g["package"]
    BY DEF Setup
  <2> QED BY <1>3, <2>1, <2>2
<1>5. g["setup"] # None
  BY <1>3, NoneAssumption DEF TypeOK
<1>6. make.at \in Early
  BY <1>1, PipelineSets
<1>7. Goto("smoke-package", make.setup, make.package)
  BY <1>1, <1>6, MakeGoes, PipelineOrder
<1> QED BY <1>1, <1>2, <1>3, <1>4, <1>5, <1>6, <1>7 DEF Installs

\* The steps that remember what they have read.
LEMMA LookingIs ==
  ASSUME TypeOK, InspectPackage \/ VerifyProvenance
  PROVE  (LooksAt \/ Passes \/ Halts) /\ make.at \in Early
<1>0. /\ file["setup"] \in OrNone(Setups(edits)) /\ file["package"] \in OrNone(Packages(edits))
      /\ "smoke-payload" \in {Pipeline[i] : i \in 1 .. Len(Pipeline)}
      /\ "provenance-package" \in {Pipeline[i] : i \in 1 .. Len(Pipeline)}
      /\ "evidence" \in {Pipeline[i] : i \in 1 .. Len(Pipeline)}
  BY FileTypes, PipelineSets DEF TypeOK
<1>1. CASE make.at = "smoke-package" /\ UNCHANGED file
           /\ make' = [make EXCEPT !.at = Following(@), !.package = file["package"]]
  <2>1. make' = [at |-> "smoke-payload", setup |-> make.setup, package |-> file["package"]]
    BY <1>1, MakeIs, PipelineOrder
  <2>2. Goto("smoke-payload", make.setup, file["package"])
    BY <1>0, <2>1, MakeIs, GotoIs
  <2> QED BY <1>1, <2>2, PipelineSets DEF LooksAt
<1>2. CASE make.at = "smoke-payload" /\ MakeChecks(make.package.entries = Entries)
  <2>1. make.at \in Checking /\ make.at # "smoke-attest" /\ make.at \in Early
    BY <1>2, PipelineSets DEF Checking
  <2>2. PICK b \in {TRUE, FALSE} : MakeChecks(b)
    <3>1. CASE make.package.entries = Entries
      BY <1>2, <3>1 DEF MakeChecks
    <3>2. CASE ~(make.package.entries = Entries)
      BY <1>2, <3>2 DEF MakeChecks
    <3> QED BY <3>1, <3>2
  <2> QED BY <2>1, <2>2, ChecksAre
<1>3. CASE make.at = "provenance-setup" /\ file["setup"].inputs = PinnedInputs /\ UNCHANGED file
           /\ make' = [make EXCEPT !.at = Following(@), !.setup = file["setup"]]
  <2>1. make' = [at |-> "provenance-package", setup |-> file["setup"], package |-> make.package]
    BY <1>3, MakeIs, PipelineOrder
  <2>2. Goto("provenance-package", file["setup"], make.package)
    BY <1>0, <2>1, MakeIs, GotoIs
  <2> QED BY <1>3, <2>2, PipelineSets DEF LooksAt
<1>4. CASE make.at = "provenance-package" /\ make.setup.embeds = file["package"]
           /\ make' = [make EXCEPT !.at = Following(@), !.package = file["package"]]
           /\ UNCHANGED file
  <2>1. make' = [at |-> "evidence", setup |-> make.setup, package |-> file["package"]]
    BY <1>4, MakeIs, PipelineOrder
  <2>2. Goto("evidence", make.setup, file["package"])
    BY <1>0, <2>1, MakeIs, GotoIs
  <2> QED BY <1>4, <2>2, PipelineSets DEF LooksAt
<1>5. CASE make.at \in {"provenance-setup", "provenance-package"} /\ MakeFails
  BY <1>5, PipelineSets, MakeHalts
<1> QED BY <1>1, <1>2, <1>3, <1>4, <1>5 DEF InspectPackage, VerifyProvenance, MakeAt

\* The steps that only check.
LEMMA CheckingIs ==
  ASSUME TypeOK, VerifyMakerInputs \/ VerifyCompliance \/ VerifyRuntime
  PROVE  (Passes \/ Halts) /\ make.at \in Early
<1>1. PICK b \in {TRUE, FALSE} :
         /\ make.at \in Checking /\ MakeChecks(b)
         /\ make.at = "smoke-attest" /\ b => file["sbom"] = Spdx(file["payload"])
  <2>1. CASE VerifyMakerInputs
    <3>1. make.at \in Checking /\ make.at # "smoke-attest" /\ MakeChecks(InputsArePinned)
      BY <2>1 DEF VerifyMakerInputs, Checking
    <3> QED BY <3>1 DEF MakeChecks, InputsArePinned
  <2>2. CASE make.at \in {"attest", "smoke-attest"} /\ MakeChecks(SbomIsCurrent)
    BY <2>2 DEF MakeChecks, SbomIsCurrent, Inventory, Checking
  <2>3. CASE make.at \in {"attest-sums", "smoke-sums"} /\ MakeChecks(ChecksumsAreCurrent)
    BY <2>3 DEF MakeChecks, ChecksumsAreCurrent, Checking
  <2>4. CASE VerifyRuntime
    <3>1. make.at \in Checking /\ make.at # "smoke-attest"
          /\ MakeChecks(PublicDistributionApproved = (profile = "public"))
      BY <2>4 DEF VerifyRuntime, MakeAt, Checking
    <3>2. CASE PublicDistributionApproved = (profile = "public")
      BY <3>1, <3>2 DEF MakeChecks
    <3>3. CASE ~(PublicDistributionApproved = (profile = "public"))
      BY <3>1, <3>3 DEF MakeChecks
    <3> QED BY <3>2, <3>3
  <2> QED BY <2>1, <2>2, <2>3, <2>4 DEF VerifyCompliance
<1> QED BY <1>1, ChecksAre, PipelineSets DEF Checking

\* The steps that write the maker's evidence and the key evidence.
LEMMA EvidenceIs ==
  ASSUME TypeOK, WriteMakerEvidence \/ WriteKeyEvidence
  PROVE  (Attests \/ Saves("keys")) /\ make.at \in Early
<1>1. CASE WriteMakerEvidence
  <2> DEFINE x == "evidence"
  <2> DEFINE v == [setup |-> make.setup, package |-> make.package]
  <2>1. /\ make.at = "evidence" /\ file' = [file EXCEPT ![x] = v]
        /\ make' = [NoMake EXCEPT !.at = Following("evidence")]
    BY <1>1 DEF WriteMakerEvidence, MakeAt
  <2>2. v \in Evidences(edits)
    BY MakeIs DEF Evidences
  <2>3. v.setup = make.setup /\ v.package = make.package /\ x = "evidence"
    OBVIOUS
  <2> HIDE DEF v
  <2>4. Fitting(x, v, edits)
    BY <2>2, FittingIs
  <2> HIDE DEF x
  <2>5. Rewrites(x) /\ file'[x] = v
    BY <2>1, <2>4, WrittenIs
  <2>6. make' = [at |-> "runtime", setup |-> None, package |-> None]
    BY <2>1, PipelineOrder DEF NoMake
  <2>7. None \in OrNone(Setups(edits)) /\ None \in OrNone(Packages(edits))
    BY DEF OrNone
  <2>8. "runtime" \in {Pipeline[i] : i \in 1 .. Len(Pipeline)} /\ make.at \in Early
    BY <2>1, PipelineSets
  <2>9. Goto("runtime", None, None)
    BY <2>6, <2>7, <2>8, GotoIs
  <2> QED BY <2>1, <2>3, <2>5, <2>8, <2>9 DEF Attests
<1>2. CASE WriteKeyEvidence
  <2> DEFINE x == "keys"
  <2> DEFINE v == 0
  <2>1. make.at = "keys" /\ MakeGoesOn /\ file' = [file EXCEPT ![x] = v]
    BY <1>2 DEF WriteKeyEvidence, MakeAt
  <2>2. Fitting(x, v, edits) /\ x = "keys"
    BY FittingIs
  <2>3. v # None
    BY NoneAssumption DEF TypeOK, Marks
  <2> HIDE DEF x, v
  <2>4. Rewrites(x) /\ file'[x] = v
    BY <2>1, <2>2, WrittenIs
  <2>5. make.at \in Early
    BY <2>1, PipelineSets
  <2> QED BY <2>1, <2>2, <2>3, <2>4, <2>5, MakeGoes DEF Saves
<1> QED BY <1>1, <1>2

\* Every step of the build is an early one and has one of these effects.
LEMMA BuildIs ==
  ASSUME TypeOK, MakeWindows
  PROVE  /\ make.at \in Early /\ BuildEffect
         /\ UNCHANGED <<profile, owner, proc, verdict, edits, runs, fails>>
<1>1. make.at \in Early /\ BuildEffect
  <2>1. "payload" \in Files /\ "sbom" \in Files /\ "sums" \in Files /\ "keys" \in Files
    BY FileNames
  <2> QED BY <2>1, PackageIs, ComplianceIs, InstallerIs, LookingIs, CheckingIs, EvidenceIs
          DEF MakeWindows, BuildEffect
<1>2. UNCHANGED <<profile, owner, proc, verdict, edits, runs, fails>>
  BY DEF MakeWindows, VerifyMakerInputs, PackageApplication, GenerateCompliance,
         VerifyCompliance, MakeInstaller, InspectPackage, VerifyProvenance,
         WriteMakerEvidence, VerifyRuntime, WriteKeyEvidence, MakeChecks, MakeKeeps
<1> QED BY <1>1, <1>2

-----------------------------------------------------------------------------
(* What the environment's steps do, and every step.                        *)

\* A command begins.
Starts(p, cmd) ==
  /\ ~Running(p) /\ (p = "make" => make.at = cmd) /\ (p # "make" => file["keys"] # None)
  /\ proc' = [i \in Procs |-> proc'[i]] /\ \A i \in Procs : Command(proc'[i], edits)
  /\ proc'[p].cmd = cmd /\ proc'[p].at = 1 /\ proc'[p].mine = {}
  /\ cmd = "verify" => \A x \in Listed : proc'[p].start[x] = file[x]
  /\ proc'[p].alone => \A i \in Procs : ~Running(i)
  /\ \A i \in Procs : i # p => Same(proc[i], proc'[i], {"alone"})
  /\ \A i \in Procs : i # p /\ Running(i) => ~proc'[i].alone
  /\ verdict' = None /\ UNCHANGED <<file, owner, make, edits>>

\* A source or a product becomes another, as none ever was.
Freshens ==
  /\ edits < MaxEdits /\ edits' = edits + 1 /\ Directory(file', edits')
  /\ \A x \in {"sbom", "sums", "evidence", "keys"} \cup Outputs : file'[x] = file[x]
  /\ \A x \in Files : file'[x] = file[x] \/ file'[x] \notin OrNone(Content(x, edits))
  /\ \/ file'["setup"] = file["setup"]
     \/ /\ file'["setup"] # None /\ file'["payload"] = file["payload"]
        /\ file'["setup"].embeds.entries = Entries
  /\ UNCHANGED <<owner, make, proc, verdict>>

\* The outputs are removed.
Clears ==
  /\ \A p \in Procs : ~Running(p)
  /\ Directory(file', edits) /\ \A x \in Files : x \notin Outputs => file'[x] = file[x]
  /\ \A x \in Outputs : file'[x] = None
  /\ owner' = [x \in Outputs |-> None] /\ verdict' = None
  /\ UNCHANGED <<make, proc, edits>>

\* The build starts over.
Restarts ==
  /\ \A p \in Procs : ~Running(p)
  /\ Goto("inputs", None, None)
  /\ Directory(file', edits) /\ \A x \in Files \ Sources : file'[x] = None
  /\ owner' = [x \in Outputs |-> None] /\ verdict' = None
  /\ UNCHANGED <<proc, edits>>

\* The build takes a step, before its bundle.
Builds == make.at \in Early /\ BuildEffect /\ UNCHANGED <<owner, proc, verdict, edits>>

\* A bundle command takes one.
Bundles == (\E p \in Procs : Effect(p)) /\ edits' = edits

StepEffect ==
  \/ Bundles \/ Builds \/ (\E p \in Procs, cmd \in {"generate", "verify"} : Starts(p, cmd))
  \/ Freshens \/ Clears \/ Restarts

\* Counters stay within their bounds.
Counted == profile' = profile /\ runs' \in 0 .. MaxRuns /\ fails' \in 0 .. MaxFails

\* Whether a command is under way.
LEMMA RunningIs ==
  ASSUME NEW e, NEW r, Command(r, e)
  PROVE  r.cmd = None <=> r = NoProc
BY NoProcIs DEF Command

\* A fresh record of a command.
LEMMA NoProcWith ==
  ASSUME NEW c, NEW s, NEW b
  PROVE  /\ [NoProc EXCEPT !.cmd = c, !.at = 1, !.start = s, !.alone = b]
            = [cmd |-> c, at |-> 1, seen |-> Blank, mine |-> {}, start |-> s, alone |-> b]
         /\ b = TRUE => [NoProc EXCEPT !.alone = b] = NoProc
<1> DEFINE t == TRUE
<1>1. NoProc = [cmd |-> None, at |-> 0, seen |-> Blank, mine |-> {}, start |-> Blank,
                alone |-> t]
  BY DEF NoProc
<1>2. t = TRUE
  OBVIOUS
<1> HIDE DEF t
<1>3. [NoProc EXCEPT !.cmd = c, !.at = 1, !.start = s, !.alone = b]
      = [cmd |-> c, at |-> 1, seen |-> Blank, mine |-> {}, start |-> s, alone |-> b]
  <2> DEFINE r1 == [NoProc EXCEPT !.cmd = c]
  <2> DEFINE r2 == [r1 EXCEPT !.at = 1]
  <2> DEFINE r3 == [r2 EXCEPT !.start = s]
  <2> DEFINE r4 == [r3 EXCEPT !.alone = b]
  <2>1. r1 = [cmd |-> c, at |-> 0, seen |-> Blank, mine |-> {}, start |-> Blank, alone |-> t]
    BY <1>1
  <2> HIDE DEF r1
  <2>2. r2 = [cmd |-> c, at |-> 1, seen |-> Blank, mine |-> {}, start |-> Blank, alone |-> t]
    BY <2>1
  <2> HIDE DEF r2
  <2>3. r3 = [cmd |-> c, at |-> 1, seen |-> Blank, mine |-> {}, start |-> s, alone |-> t]
    BY <2>2
  <2> HIDE DEF r3
  <2>4. r4 = [cmd |-> c, at |-> 1, seen |-> Blank, mine |-> {}, start |-> s, alone |-> b]
    BY <2>3
  <2>5. r4 = [NoProc EXCEPT !.cmd = c, !.at = 1, !.start = s, !.alone = b]
    BY DEF r1, r2, r3
  <2> QED BY <2>4, <2>5
<1>4. ASSUME b = t
      PROVE  [NoProc EXCEPT !.alone = b] = NoProc
  BY <1>1, <1>4
<1> QED BY <1>2, <1>3, <1>4

\* The beginning of a command.
LEMMA BeginIs ==
  ASSUME TypeOK, NEW p \in Procs, NEW cmd \in {"generate", "verify"}, Begin(p, cmd)
  PROVE  Starts(p, cmd)
<1> DEFINE start == IF cmd = "verify" THEN [x \in Listed |-> file[x]] ELSE Blank
<1> DEFINE alone == \A i \in Procs : proc[i] = NoProc
<1> DEFINE r == [cmd |-> cmd, at |-> 1, seen |-> Blank, mine |-> {}, start |-> start,
                 alone |-> alone]
<1>1. /\ proc[p] = NoProc /\ proc' = Begun(p, cmd)
      /\ (p = "make" => make.at = cmd) /\ (p # "make" => file["keys"] # None)
      /\ verdict' = None /\ UNCHANGED <<file, owner, make, edits>>
  BY DEF Begin
<1>2. [NoProc EXCEPT !.cmd = cmd, !.at = 1, !.start = start, !.alone = alone] = r
  <2> HIDE DEF start, alone
  <2> QED BY NoProcWith
<1>3. proc' = [i \in Procs |-> IF i = p THEN r
                               ELSE [proc[i] EXCEPT !.alone = proc[i] = NoProc]]
  BY <1>1, <1>2 DEF Begun
<1>4. /\ r.cmd = cmd /\ r.at = 1 /\ r.seen = Blank /\ r.mine = {} /\ r.start = start
      /\ r.alone = alone
      /\ r = [cmd |-> r.cmd, at |-> r.at, seen |-> r.seen, mine |-> r.mine,
              start |-> r.start, alone |-> r.alone]
  OBVIOUS
<1>5. start = Blank \/ start = [x \in Listed |-> file[x]]
  OBVIOUS
<1>6. cmd = "verify" => start = [x \in Listed |-> file[x]]
  OBVIOUS
<1>7. alone \in BOOLEAN
  OBVIOUS
<1>8. alone => \A i \in Procs : proc[i] = NoProc
  OBVIOUS
<1> HIDE DEF r, start, alone, NoProc
<1>9. Listing(start, edits)
  <2>1. CASE start = Blank
    BY <2>1, BlankIs
  <2>2. CASE start = [x \in Listed |-> file[x]]
    <3>1. \A x \in Listed : start[x] = file[x]
      BY <2>2
    <3>2. start = [x \in Listed |-> start[x]]
      BY <2>2
    <3>3. \A x \in Listed : file[x] \in OrNone(Content(x, edits))
      BY FileNames DEF TypeOK, Directory
    <3> QED BY <3>1, <3>2, <3>3 DEF Listing
  <2> QED BY <1>5, <2>1, <2>2
<1>10. cmd # None
  BY NoneAssumption
<1>11. Command(r, edits)
  <2>1. 1 \in 0 .. Len(Steps(cmd))
    BY VerifySteps, GenerateSteps
  <2>2. Listing(r.seen, edits)
    BY <1>4, BlankIs
  <2>3. r.mine \subseteq Outputs
    BY <1>4
  <2> QED BY <1>4, <1>7, <1>9, <1>10, <2>1, <2>2, <2>3 DEF Command
<1>12. proc'[p] = r
  BY <1>3
<1>13. \A i \in Procs : i # p => Command(proc'[i], edits) /\ Same(proc[i], proc'[i], {"alone"})
                                 /\ (Running(i) => ~proc'[i].alone)
  <2> SUFFICES ASSUME NEW i \in Procs, i # p
               PROVE  Command(proc'[i], edits) /\ Same(proc[i], proc'[i], {"alone"})
                      /\ (Running(i) => ~proc'[i].alone)
    OBVIOUS
  <2>1. Command(proc[i], edits)
    BY DEF TypeOK
  <2>2. proc'[i] = [proc[i] EXCEPT !.alone = proc[i] = NoProc]
    BY <1>3
  <2>3. CASE proc[i] = NoProc
    <3> DEFINE b == proc[i] = NoProc
    <3>1. b = TRUE /\ proc'[i] = [NoProc EXCEPT !.alone = b]
      BY <2>2, <2>3
    <3> HIDE DEF b
    <3>2. proc'[i] = proc[i]
      BY <2>3, <3>1, NoProcWith
    <3>3. ~Running(i)
      BY <2>3, NoProcIs DEF Running
    <3> QED BY <2>1, <3>2, <3>3, SameRecord
  <2>4. CASE proc[i] # NoProc
    <3> DEFINE b == FALSE
    <3> DEFINE q == [proc[i] EXCEPT !.alone = b]
    <3>1. b \in BOOLEAN /\ q = [proc[i] EXCEPT !.alone = b] /\ proc[i].cmd # None
      BY <2>1, <2>4, RunningIs
    <3>2. proc'[i] = q
      BY <2>2, <2>4
    <3>3. ~b
      OBVIOUS
    <3> HIDE DEF q, b
    <3>4. Command(q, edits) /\ q.alone = b /\ Same(proc[i], q, {"alone"})
      BY <2>1, <3>1, CommandAlone
    <3> QED BY <3>2, <3>3, <3>4
  <2> QED BY <2>3, <2>4
<1>14. proc' = [i \in Procs |-> proc'[i]]
  BY <1>3
<1>15. \A i \in Procs : Command(proc'[i], edits)
  BY <1>11, <1>12, <1>13
<1>16. ~Running(p)
  BY <1>1, NoProcIs DEF Running
<1>17. proc'[p].cmd = cmd /\ proc'[p].at = 1 /\ proc'[p].mine = {}
  BY <1>4, <1>12
<1>18. cmd = "verify" => \A x \in Listed : proc'[p].start[x] = file[x]
  BY <1>4, <1>6, <1>12
<1>19. proc'[p].alone => \A i \in Procs : ~Running(i)
  BY <1>4, <1>8, <1>12, NoProcIs DEF Running
<1> QED BY <1>1, <1>13, <1>14, <1>15, <1>16, <1>17, <1>18, <1>19 DEF Starts

\* What is made or edited now was not there before.
LEMMA Fresh ==
  ASSUME NEW e, e \in 0 .. MaxEdits, e < MaxEdits, NEW d, d = e + 1
  PROVE  /\ d \in Marks(d) /\ d \notin OrNone(Marks(e))
         /\ \A k \in Packages(d) : k.made = d => k \notin OrNone(Packages(e))
         /\ \A u \in Setups(d) : u.embeds \notin Packages(e) => u \notin OrNone(Setups(e))
<1>1. MaxEdits \in Nat
  BY BoundsAssumption
<1>2. e \in Nat /\ d \in 0 .. MaxEdits
  BY <1>1
<1>3. d \in Marks(d) /\ d \notin Marks(e)
  BY <1>2 DEF Marks
<1>4. None \notin Marks(d) /\ None \notin Packages(d) /\ None \notin Setups(d)
  BY <1>2, NoneAssumption
<1>5. d \notin OrNone(Marks(e))
  BY <1>3, <1>4 DEF OrNone
<1>6. \A k \in Packages(d) : k.made = d => k \notin OrNone(Packages(e))
  BY <1>3, <1>4 DEF OrNone, Packages
<1>7. \A u \in Setups(d) : u.embeds \notin Packages(e) => u \notin OrNone(Setups(e))
  BY <1>4 DEF OrNone, Setups
<1> QED BY <1>3, <1>5, <1>6, <1>7

\* An edited package is another one.
LEMMA EditedPackage ==
  ASSUME NEW e, e \in Nat, NEW d, d = e + 1, NEW k, k \in Packages(e)
  PROVE  /\ Package([k.entries EXCEPT !.payload = d], d) \in Packages(d)
         /\ Package([k.entries EXCEPT !.payload = d], d).made = d
<1>1. Packages(e) \subseteq Packages(d)
  BY ContentGrows, ContentIs, FileNames
<1>2. k.entries \in EntrySets(d)
  BY <1>1 DEF Packages
<1>3. d \in OrNone(Marks(d)) /\ d \in Marks(d)
  BY DEF OrNone, Marks
<1> DEFINE n == k.entries
<1> DEFINE m == [n EXCEPT !.payload = d]
<1>4. m \in EntrySets(d)
  <2> HIDE DEF n
  <2> QED BY <1>2, <1>3 DEF n, EntrySets
<1> HIDE DEF m
<1>5. Package(m, d) \in Packages(d) /\ Package(m, d).made = d
  BY <1>3, <1>4 DEF Packages, Package
<1> QED BY <1>5 DEF m

\* An edit.
LEMMA EditIs ==
  ASSUME TypeOK, Edit
  PROVE  Freshens
<1> DEFINE d == edits + 1
<1>1. /\ edits < MaxEdits /\ edits' = d /\ d = edits + 1
      /\ UNCHANGED <<owner, make, proc, verdict>>
  BY DEF Edit
<1>2. edits \in Nat /\ edits \in 0 .. MaxEdits
  BY DEF TypeOK
<1>3. PICK x \in {"project", "commit", "inputs", "payload", "package"} :
         /\ file[x] # None
         /\ file' = [file EXCEPT ![x] =
                       IF x = "package" THEN Package([@.entries EXCEPT !.payload = d], d) ELSE d]
  BY FileNames DEF Edit
<1>4. Directory(file, edits) /\ Directory(file, d)
  BY <1>2, DirectoryGrows DEF TypeOK
<1> HIDE DEF d
<1> DEFINE v == IF x = "package" THEN Package([file["package"].entries EXCEPT !.payload = d], d)
                ELSE d
<1>5. file' = [file EXCEPT ![x] = v]
  <2>1. CASE x = "package"
    BY <1>3, <2>1
  <2>2. CASE x # "package"
    BY <1>3, <2>2
  <2> QED BY <2>1, <2>2
<1>6. x = "package" => v \in Packages(d) /\ v.made = d
  <2> SUFFICES ASSUME x = "package"
               PROVE  v \in Packages(d) /\ v.made = d
    OBVIOUS
  <2> DEFINE k == file["package"]
  <2>1. k \in Packages(edits)
    BY <1>3, <1>4, FileTypes DEF OrNone
  <2>2. v = Package([k.entries EXCEPT !.payload = d], d)
    OBVIOUS
  <2> HIDE DEF k, v
  <2> QED BY <1>1, <1>2, <2>1, <2>2, EditedPackage
<1>7. x # "package" => v = d
  OBVIOUS
<1> HIDE DEF v
<1>8. Fitting(x, v, d) /\ v \notin OrNone(Content(x, edits))
  <2>1. CASE x = "package"
    <3>1. Fitting(x, v, d)
      BY <1>6, <2>1, ContentIs, FileNames DEF Fitting, OrNone
    <3>2. v \notin OrNone(Packages(edits))
      BY <1>1, <1>2, <1>6, <2>1, Fresh
    <3> QED BY <2>1, <3>1, <3>2, ContentIs
  <2>2. CASE x # "package"
    <3>1. Content(x, d) = Marks(d) /\ Content(x, edits) = Marks(edits)
      BY <1>3, <2>2, ContentIs, FileNames
    <3>2. v \in Marks(d) /\ v \notin OrNone(Marks(edits))
      BY <1>1, <1>2, <1>7, <2>2, Fresh
    <3>3. x \in Files
      BY FileNames
    <3> QED BY <2>2, <3>1, <3>2, <3>3 DEF Fitting, OrNone
  <2> QED BY <2>1, <2>2
<1> DEFINE g == [file EXCEPT ![x] = v]
<1>9. Put(file, x, v, g) /\ file' = g
  BY <1>5 DEF Put
<1> HIDE DEF g
<1>10. Directory(g, d) /\ g[x] = v /\ \A y \in Files : y # x => g[y] = file[y]
  BY <1>4, <1>8, <1>9, DirectorySet
<1>11. \A y \in {"sbom", "sums", "evidence", "keys", "setup"} \cup Outputs : file'[y] = file[y]
  BY <1>9, <1>10, FileNames
<1>12. \A y \in Files : file'[y] = file[y] \/ file'[y] \notin OrNone(Content(y, edits))
  BY <1>8, <1>9, <1>10
<1> QED BY <1>1, <1>9, <1>10, <1>11, <1>12 DEF Freshens

\* Another installer.
LEMMA RemakeIs ==
  ASSUME TypeOK, Remake
  PROVE  Freshens
<1> DEFINE d == edits + 1
<1> DEFINE g == Made(d)
<1>1. /\ edits < MaxEdits /\ edits' = d /\ d = edits + 1 /\ file' = g /\ g = Made(d)
      /\ UNCHANGED <<owner, make, proc, verdict>>
  BY DEF Remake
<1>2. edits \in Nat /\ edits \in 0 .. MaxEdits
  BY DEF TypeOK
<1> HIDE DEF d, g
<1>3. Directory(file, d)
  BY <1>1, <1>2, DirectoryGrows DEF TypeOK
<1>4. /\ d \in Marks(d)
      /\ \A k \in Packages(d) : k.made = d => k \notin OrNone(Packages(edits))
      /\ \A u \in Setups(d) : u.embeds \notin Packages(edits) => u \notin OrNone(Setups(edits))
  BY <1>1, <1>2, Fresh
<1>5. /\ Directory(g, d)
      /\ g["package"] = Package(Entries, d) /\ g["package"] \in Packages(d)
      /\ g["setup"] = Setup(file["inputs"], g["package"]) /\ g["setup"] \in Setups(d)
      /\ \A y \in Files : y \notin {"package", "setup"} => g[y] = file[y]
  BY <1>1, <1>3, <1>4, MadeIs
<1>6. g["package"].made = d /\ g["package"].entries = Entries
  BY <1>5 DEF Package
<1>7. g["setup"].embeds = g["package"]
  BY <1>5 DEF Setup
<1>8. g["package"] \notin OrNone(Packages(edits))
  BY <1>4, <1>5, <1>6
<1>9. g["setup"] \notin OrNone(Setups(edits))
  BY <1>4, <1>5, <1>7, <1>8 DEF OrNone
<1>10. g["setup"] # None
  BY <1>9 DEF OrNone
<1>11. \A y \in Files : g[y] = file[y] \/ g[y] \notin OrNone(Content(y, edits))
  BY <1>5, <1>8, <1>9, ContentIs
<1>12. \A y \in {"sbom", "sums", "evidence", "keys", "payload"} \cup Outputs : g[y] = file[y]
  BY <1>5, FileNames
<1>13. g["setup"].embeds.entries = Entries
  BY <1>6, <1>7
<1> QED BY <1>1, <1>5, <1>10, <1>11, <1>12, <1>13 DEF Freshens

\* Some files are removed.
LEMMA EmptiedIs ==
  ASSUME NEW e, Directory(file, e), NEW X, X \subseteq Files, X \cap Sources = {},
         NEW g, g = [x \in Files |-> IF x \in X THEN None ELSE file[x]]
  PROVE  /\ Directory(g, e)
         /\ \A x \in X : g[x] = None
         /\ \A x \in Files : x \notin X => g[x] = file[x]
<1>1. g = [x \in Files |-> g[x]] /\ \A x \in Files : g[x] = IF x \in X THEN None ELSE file[x]
  OBVIOUS
<1>2. \A x \in Sources : g[x] \in Content(x, e)
  BY <1>1, FileNames DEF Directory
<1>3. \A x \in Files \ {"manifest"} : g[x] \in OrNone(Content(x, e))
  BY <1>1 DEF Directory, OrNone
<1>4. g["manifest"] \in {None, Partial} \/ Listing(g["manifest"], e)
  BY <1>1, FileNames DEF Directory
<1> QED BY <1>1, <1>2, <1>3, <1>4 DEF Directory

\* The removal of the outputs.
LEMMA ClearIs ==
  ASSUME TypeOK, ClearOutputs
  PROVE  Clears
<1> DEFINE X == Outputs
<1> DEFINE g == [x \in Files |-> IF x \in X THEN None ELSE file[x]]
<1>1. /\ \A p \in Procs : proc[p] = NoProc
      /\ file' = g /\ owner' = [x \in Outputs |-> None] /\ verdict' = None
      /\ UNCHANGED <<make, proc, edits>>
  BY DEF ClearOutputs
<1>2. X = Outputs /\ X \subseteq Files /\ X \cap Sources = {} /\ Directory(file, edits)
      /\ g = [x \in Files |-> IF x \in X THEN None ELSE file[x]]
  BY FileNames DEF TypeOK
<1> HIDE DEF X, g
<1>3. Directory(g, edits) /\ (\A x \in X : g[x] = None)
      /\ \A x \in Files : x \notin X => g[x] = file[x]
  BY <1>2, EmptiedIs
<1>4. \A p \in Procs : ~Running(p)
  BY <1>1, NoProcIs DEF Running
<1> QED BY <1>1, <1>2, <1>3, <1>4 DEF Clears

\* The start of the build.
LEMMA RestartIs ==
  ASSUME TypeOK, StartMake
  PROVE  Restarts
<1> DEFINE X == Files \ Sources
<1> DEFINE g == [x \in Files |-> IF x \in X THEN None ELSE file[x]]
<1>1. /\ \A p \in Procs : proc[p] = NoProc
      /\ owner' = [x \in Outputs |-> None] /\ verdict' = None
      /\ UNCHANGED <<proc, edits>>
  BY DEF StartMake
<1>2. file' = g
  <2>1. file' = [x \in Files |-> IF x \in Sources THEN file[x] ELSE None]
    BY DEF StartMake
  <2> QED BY <2>1
<1>3. X = Files \ Sources /\ X \subseteq Files /\ X \cap Sources = {} /\ Directory(file, edits)
      /\ g = [x \in Files |-> IF x \in X THEN None ELSE file[x]]
  BY DEF TypeOK
<1> HIDE DEF X, g
<1>4. Directory(g, edits) /\ \A x \in X : g[x] = None
  BY <1>3, EmptiedIs
<1>5. \A p \in Procs : ~Running(p)
  BY <1>1, NoProcIs DEF Running
<1>6. make' = [at |-> "inputs", setup |-> None, package |-> None]
  BY PipelineSets DEF StartMake, NoMake
<1>7. None \in OrNone(Setups(edits)) /\ None \in OrNone(Packages(edits))
      /\ "inputs" \in {Pipeline[i] : i \in 1 .. Len(Pipeline)}
  BY PipelineSets DEF OrNone
<1>8. Goto("inputs", None, None)
  BY <1>6, <1>7, GotoIs
<1> QED BY <1>1, <1>2, <1>3, <1>4, <1>5, <1>8 DEF Restarts

\* A failure, or a kill.
LEMMA FaultIs ==
  ASSUME TypeOK, StepFails \/ Killed
  PROVE  Bundles \/ Builds
<1>0. edits' = edits
  BY DEF StepFails, Killed
<1>1. CASE \E p \in Procs : proc[p].cmd # None /\ proc[p].at # 0 /\ BundleFails(p)
  BY <1>0, <1>1, FailsIs DEF Running, Bundles, Effect
<1>2. CASE /\ make.at \notin {"idle", "failed", "generate", "verify", "done"}
           /\ MakeFails /\ UNCHANGED <<owner, proc, verdict>>
  <2>1. make.at \in Early
    BY <1>2, MakeIs, PipelineSets
  <2> QED BY <1>0, <1>2, <2>1, MakeHalts DEF Builds, BuildEffect
<1>3. CASE Killed
  <2>1. PICK p \in Procs :
          /\ proc[p].cmd # None /\ proc' = [proc EXCEPT ![p] = NoProc]
          /\ make' = IF p = "make" THEN [make EXCEPT !.at = "failed"] ELSE make
    BY <1>3 DEF Killed
  <2>2. UNCHANGED <<file, owner, verdict>>
    BY <1>3 DEF Killed
  <2>3. Leaves(p, "failed")
    BY <2>1, EndsIs DEF Running
  <2> QED BY <1>0, <2>2, <2>3 DEF Drops, Effect, Bundles
<1> QED BY <1>1, <1>2, <1>3 DEF StepFails

\* Every step has one of these effects.
LEMMA NextIs ==
  ASSUME TypeOK, [Next]_vars
  PROVE  Counted /\ (StepEffect \/ UNCHANGED vars)
<1>0. /\ edits \in 0 .. MaxEdits /\ runs \in 0 .. MaxRuns /\ fails \in 0 .. MaxFails
      /\ MaxRuns \in Nat /\ MaxFails \in Nat
  BY BoundsAssumption DEF TypeOK
<1>1. CASE MakeWindows
  BY <1>0, <1>1, BuildIs DEF Counted, StepEffect, Builds
<1>2. CASE \E p \in Procs : Bundle(p)
  <2>1. PICK p \in Procs : Bundle(p)
    BY <1>2
  <2>2. Effect(p) /\ UNCHANGED <<profile, edits, runs, fails>>
    BY <2>1, BundleIs
  <2> QED BY <1>0, <2>2 DEF Counted, StepEffect, Bundles
<1>3. CASE \E p \in Procs, cmd \in {"generate", "verify"} : Begin(p, cmd)
  <2>1. PICK p \in Procs, cmd \in {"generate", "verify"} : Begin(p, cmd)
    BY <1>3
  <2>2. Starts(p, cmd)
    BY <2>1, BeginIs
  <2>3. Counted
    BY <1>0, <2>1 DEF Begin, Counted
  <2> QED BY <2>2, <2>3 DEF StepEffect
<1>4. CASE StartMake
  <2>1. Counted
    BY <1>0, <1>4 DEF StartMake, Counted
  <2> QED BY <1>4, <2>1, RestartIs DEF StepEffect
<1>5. CASE Edit \/ Remake
  <2>1. Counted
    BY <1>0, <1>5 DEF Edit, Remake, Counted
  <2> QED BY <1>5, <2>1, EditIs, RemakeIs DEF StepEffect
<1>6. CASE ClearOutputs
  <2>1. Counted
    BY <1>0, <1>6 DEF ClearOutputs, Counted
  <2> QED BY <1>6, <2>1, ClearIs DEF StepEffect
<1>7. CASE StepFails \/ Killed
  <2>1. Counted
    BY <1>0, <1>7 DEF StepFails, Killed, Counted
  <2> QED BY <1>7, <2>1, FaultIs DEF StepEffect
<1>8. CASE UNCHANGED vars
  BY <1>0, <1>8 DEF vars, Counted
<1>9. "make" \in Procs /\ "person" \in Procs
  BY DEF Procs
<1> QED BY <1>1, <1>2, <1>3, <1>4, <1>5, <1>6, <1>7, <1>8, <1>9 DEF Next, System

-----------------------------------------------------------------------------
(* Types and phases.                                                       *)

ProcsTyped(P, e) == P = [i \in Procs |-> P[i]] /\ \A i \in Procs : Command(P[i], e)

\* A command that is the build's own runs while the build waits for it.
LEMMA WaitingIs ==
  ASSUME TypeOK, PhaseInvariant, Running("make")
  PROVE  /\ make.at \in {"generate", "verify"} /\ make.at = proc["make"].cmd
         /\ Following(make.at) \in {"verify", "done"}
<1>1. make.at = proc["make"].cmd
  BY DEF PhaseInvariant
<1>2. proc["make"].cmd \in {"generate", "verify"}
  BY DEF TypeOK, Command, Running, Procs
<1> QED BY <1>1, <1>2, PipelineOrder

\* The end of a command keeps the types.
LEMMA LeavesTypes ==
  ASSUME TypeOK, PhaseInvariant, NEW p \in Procs, NEW step,
         step \in {Following(make.at), "failed"}, Leaves(p, step)
  PROVE  /\ make' \in MakeRecords(edits) /\ ProcsTyped(proc', edits)
         /\ p = "make" => make'.at = step /\ make'.at \in {"verify", "done", "failed"}
<1>1. p = "make" => step \in {"verify", "done", "failed"}
  BY WaitingIs DEF Leaves
<1>2. p = "make" => make' = [at |-> step, setup |-> make.setup, package |-> make.package]
  BY MakeIs DEF Leaves
<1>3. p = "make" => make' \in MakeRecords(edits)
  <2>1. {"verify", "done"} \subseteq {Pipeline[i] : i \in 1 .. Len(Pipeline)}
    BY PipelineSets
  <2> QED BY <1>1, <1>2, <2>1, MakeIs DEF MakeRecords
<1>4. p # "make" => make' \in MakeRecords(edits)
  BY DEF Leaves, MakeRecords, TypeOK
<1>5. \A i \in Procs : Command(proc'[i], edits)
  <2>1. Command(NoProc, edits)
    BY NoProcIs
  <2> QED BY <2>1 DEF Leaves, TypeOK
<1> QED BY <1>1, <1>2, <1>3, <1>4, <1>5 DEF Leaves, ProcsTyped

\* A change of one command keeps the types.
LEMMA TurnTypes ==
  ASSUME TypeOK, NEW p \in Procs, NEW changed, Turn(p, changed)
  PROVE  ProcsTyped(proc', edits)
BY DEF Turn, ProcsTyped, TypeOK

\* So does every step of a bundle command.
LEMMA EffectTypes ==
  ASSUME TypeOK, PhaseInvariant, NEW p \in Procs, Effect(p)
  PROVE  /\ Directory(file', edits) /\ owner' \in [Outputs -> Procs \cup {None}]
         /\ make' \in MakeRecords(edits) /\ ProcsTyped(proc', edits)
<1>0. /\ Directory(file, edits) /\ owner \in [Outputs -> Procs \cup {None}]
      /\ make \in MakeRecords(edits)
  BY DEF TypeOK, MakeRecords
<1>1. CASE Stops(p)
  BY <1>0, <1>1, TurnTypes DEF Stops
<1>2. CASE Moves(p)
  BY <1>0, <1>2, TurnTypes DEF Moves, Onward
<1>3. CASE \E x \in Listed : Reads(p, x)
  BY <1>0, <1>3, TurnTypes DEF Reads, Onward
<1>4. CASE \E x \in Outputs : Writes(p, x)
  BY <1>0, <1>4, TurnTypes DEF Writes, Onward, Rewrites
<1>5. CASE Fills(p)
  BY <1>0, <1>5, TurnTypes DEF Fills, Onward, Rewrites
<1>6. CASE Generates(p)
  BY <1>0, <1>6, LeavesTypes DEF Generates, Rewrites
<1>7. CASE Verifies(p)
  BY <1>0, <1>7, LeavesTypes DEF Verifies
<1>8. CASE Drops(p)
  BY <1>0, <1>8, LeavesTypes DEF Drops
<1>9. CASE \E x \in Outputs : Removes(p, x)
  BY <1>0, <1>9, TurnTypes DEF Removes, Rewrites
<1> QED BY <1>1, <1>2, <1>3, <1>4, <1>5, <1>6, <1>7, <1>8, <1>9 DEF Effect

\* So does every step of the build.
LEMMA BuildTypes ==
  ASSUME TypeOK, BuildEffect
  PROVE  Directory(file', edits) /\ make' \in MakeRecords(edits)
<1>0. Directory(file, edits)
  BY DEF TypeOK
<1> QED BY <1>0 DEF BuildEffect, Halts, Passes, Saves, Installs, LooksAt, Attests, Rewrites, Goto

\* The variables stay in their domains.
LEMMA TypeStep ==
  ASSUME TypeOK, PhaseInvariant, [Next]_vars
  PROVE  TypeOK'
<1>1. Counted /\ (StepEffect \/ UNCHANGED vars)
  BY NextIs
<1>2. /\ edits' \in 0 .. MaxEdits /\ Directory(file', edits')
      /\ owner' \in [Outputs -> Procs \cup {None}]
      /\ make' \in MakeRecords(edits') /\ ProcsTyped(proc', edits')
  <2>0. /\ edits \in 0 .. MaxEdits /\ edits \in Nat /\ MaxEdits \in Nat
        /\ Directory(file, edits) /\ owner \in [Outputs -> Procs \cup {None}]
        /\ make \in MakeRecords(edits) /\ ProcsTyped(proc, edits)
    BY BoundsAssumption DEF TypeOK, MakeRecords, ProcsTyped
  <2>1. CASE Bundles
    BY <2>0, <2>1, EffectTypes DEF Bundles
  <2>2. CASE Builds
    BY <2>0, <2>2, BuildTypes DEF Builds
  <2>3. CASE \E p \in Procs, cmd \in {"generate", "verify"} : Starts(p, cmd)
    BY <2>0, <2>3 DEF Starts, ProcsTyped
  <2>4. CASE Freshens
    <3>1. edits' = edits + 1 /\ edits' \in 0 .. MaxEdits
      BY <2>0, <2>4 DEF Freshens
    <3>2. ProcsTyped(proc', edits')
      <4>1. \A i \in Procs : Command(proc[i], edits + 1)
        BY <2>0, CommandGrows DEF ProcsTyped
      <4> QED BY <2>0, <2>4, <3>1, <4>1 DEF ProcsTyped, Freshens
    <3>3. make' \in MakeRecords(edits')
      <4>1. Setups(edits) \subseteq Setups(edits + 1) /\ Packages(edits) \subseteq Packages(edits + 1)
        BY <2>0, ContentGrows, ContentIs, FileNames
      <4>2. make \in MakeRecords(edits + 1)
        BY <2>0, <4>1 DEF MakeRecords, OrNone
      <4> QED BY <2>4, <3>1, <4>2 DEF Freshens
    <3> QED BY <2>0, <2>4, <3>1, <3>2, <3>3 DEF Freshens
  <2>5. CASE Clears
    BY <2>0, <2>5 DEF Clears
  <2>6. CASE Restarts
    BY <2>0, <2>6 DEF Restarts, Goto
  <2>7. CASE UNCHANGED vars
    BY <2>0, <2>7 DEF vars
  <2> QED BY <1>1, <2>1, <2>2, <2>3, <2>4, <2>5, <2>6, <2>7 DEF StepEffect
<1>3. profile' \in Profiles /\ runs' \in 0 .. MaxRuns /\ fails' \in 0 .. MaxFails
  BY <1>1 DEF Counted, TypeOK
<1> QED BY <1>2, <1>3 DEF TypeOK, ProcsTyped, MakeRecords

\* What the steps of a bundle command leave alone.
LEMMA EffectKeeps ==
  ASSUME TypeOK, PhaseInvariant, NEW p \in Procs, Effect(p)
  PROVE  /\ Running(p) /\ (verdict' = verdict \/ Verifies(p))
         /\ \A x \in Files : x \notin Outputs => file'[x] = file[x]
         /\ \A i \in Procs : i # p => proc'[i] = proc[i]
         /\ \/ make' = make /\ proc'[p].cmd = proc[p].cmd
            \/ /\ proc'[p] = NoProc /\ (p # "make" => make' = make)
               /\ p = "make" => make'.at \in {"verify", "done", "failed"}
<1>1. CASE Stops(p)
  BY <1>1 DEF Stops, Turn, Same
<1>2. CASE Moves(p)
  BY <1>2 DEF Moves, Onward, Turn, Same
<1>3. CASE \E x \in Listed : Reads(p, x)
  BY <1>3 DEF Reads, Onward, Turn, Same
<1>4. CASE \E x \in Outputs : Writes(p, x)
  BY <1>4 DEF Writes, Onward, Turn, Same, Rewrites
<1>5. CASE Fills(p)
  BY <1>5, FileNames DEF Fills, Onward, Turn, Same, Rewrites
<1>6. CASE Generates(p)
  BY <1>6, FileNames, LeavesTypes DEF Generates, Rewrites, Leaves
<1>7. CASE Verifies(p)
  BY <1>7, LeavesTypes DEF Verifies, Leaves
<1>8. CASE Drops(p)
  BY <1>8, LeavesTypes DEF Drops, Leaves
<1>9. CASE \E x \in Outputs : Removes(p, x)
  <2>1. PICK x \in Outputs : Removes(p, x)
    BY <1>9
  <2>2. Running(p)
    BY <2>1 DEF Removes, Failing, Running
  <2> QED BY <2>1, <2>2 DEF Removes, Turn, Same, Rewrites
<1> QED BY <1>1, <1>2, <1>3, <1>4, <1>5, <1>6, <1>7, <1>8, <1>9 DEF Effect

\* Where the steps of the build lead to, and what they leave alone.
LEMMA BuildKeeps ==
  ASSUME TypeOK, make.at \in Early, BuildEffect
  PROVE  /\ \A x \in Outputs : file'[x] = file[x]
         /\ \/ make'.at \in (Early \cup {"failed"}) /\ file'["keys"] = file["keys"]
            \/ make'.at = "generate" /\ file'["keys"] # None
<1>1. CASE Halts
  BY <1>1 DEF Halts, Goto
<1>2. CASE Passes
  <2>1. Following(make.at) \in Early
    BY <1>2, PipelineSets, PipelineOrder DEF Passes, Checking
  <2> QED BY <1>2, <2>1 DEF Passes, Goto
<1>3. CASE \E x \in Files : Saves(x)
  <2>1. PICK x \in Files : Saves(x)
    BY <1>3
  <2>2. x \notin Outputs
    BY <2>1, FileNames DEF Saves
  <2>3. CASE x = "keys"
    BY <2>1, <2>2, <2>3, PipelineOrder, FileNames DEF Saves, Goto, Rewrites
  <2>4. CASE x # "keys"
    <3>1. make'.at \in {"comply", "comply-sums", "attest"}
      BY <2>1, <2>4, PipelineOrder DEF Saves, Goto
    <3>2. make'.at \in Early
      BY <3>1, PipelineSets
    <3> QED BY <2>1, <2>2, <2>4, <3>2, FileNames DEF Saves, Rewrites
  <2> QED BY <2>3, <2>4
<1>4. CASE Installs
  BY <1>4, FileNames, PipelineSets DEF Installs, Goto
<1>5. CASE LooksAt
  BY <1>5, FileNames, PipelineSets DEF LooksAt, Goto
<1>6. CASE Attests
  BY <1>6, FileNames, PipelineSets DEF Attests, Goto, Rewrites
<1> QED BY <1>1, <1>2, <1>3, <1>4, <1>5, <1>6 DEF BuildEffect

\* Before the build's last steps no bundle command is under way.
LEMMA EarlyIs ==
  ASSUME PhaseInvariant, make.at \in Early
  PROVE  /\ file["keys"] = None /\ \A p \in Procs : ~Running(p)
         /\ \A x \in Outputs : file[x] = None /\ owner[x] = None
BY DEF PhaseInvariant

\* There is no bundle, nor a command for one, before the build's last step.
LEMMA PhaseStep ==
  ASSUME TypeOK, PhaseInvariant, [Next]_vars
  PROVE  PhaseInvariant'
<1>0. "make" \in Procs /\ "keys" \in Files /\ "keys" \notin Outputs
      /\ Early \cap {"generate", "verify", "done", "failed", "idle"} = {}
  BY FileNames, PipelineSets DEF Procs
<1>1. StepEffect \/ UNCHANGED vars
  BY NextIs
<1>2. CASE Bundles
  <2>1. PICK p \in Procs : Effect(p)
    BY <1>2 DEF Bundles
  <2>2. /\ Running(p) /\ file'["keys"] = file["keys"]
        /\ \A i \in Procs : i # p => proc'[i] = proc[i]
        /\ \/ make' = make /\ proc'[p].cmd = proc[p].cmd
           \/ /\ proc'[p] = NoProc /\ (p # "make" => make' = make)
              /\ p = "make" => make'.at \in {"verify", "done", "failed"}
    BY <1>0, <2>1, EffectKeeps
  <2>3. file["keys"] # None
    BY <2>2 DEF PhaseInvariant
  <2>4. make'.at \notin Early \cup {"idle"}
    <3>1. make.at \notin Early \cup {"idle"}
      BY <2>3 DEF PhaseInvariant
    <3> QED BY <1>0, <2>2, <3>1
  <2>5. Running("make")' => make'.at = proc'["make"].cmd
    <3>1. CASE p = "make" /\ proc'[p] = NoProc
      BY <3>1, NoProcIs DEF Running
    <3>2. CASE make' = make /\ proc'["make"].cmd = proc["make"].cmd
      BY <3>2 DEF Running, PhaseInvariant
    <3>3. CASE p # "make" /\ make' = make
      BY <1>0, <2>2, <3>3 DEF Running, PhaseInvariant
    <3> QED BY <2>2, <3>1, <3>2, <3>3
  <2> QED BY <2>2, <2>3, <2>4, <2>5 DEF PhaseInvariant
<1>3. CASE Builds
  <2>1. make.at \in Early /\ BuildEffect /\ UNCHANGED <<owner, proc>>
    BY <1>3 DEF Builds
  <2>2. /\ \A x \in Outputs : file'[x] = file[x]
        /\ \/ make'.at \in (Early \cup {"failed"}) /\ file'["keys"] = file["keys"]
           \/ make'.at = "generate" /\ file'["keys"] # None
    BY <2>1, BuildKeeps
  <2>3. /\ file["keys"] = None /\ \A p \in Procs : ~Running(p)
        /\ \A x \in Outputs : file[x] = None /\ owner[x] = None
    BY <2>1, EarlyIs
  <2>4. \A p \in Procs : ~(Running(p)')
    BY <2>1, <2>3 DEF Running
  <2>5. \A x \in Outputs : file'[x] = None /\ owner'[x] = None
    BY <2>1, <2>2, <2>3
  <2>6. make'.at \in Early \cup {"idle"} => file'["keys"] = None
    BY <1>0, <2>2, <2>3
  <2>7. file'["keys"] = None => make'.at \notin {"generate", "verify", "done"}
    BY <1>0, <2>2
  <2> QED BY <1>0, <2>4, <2>5, <2>6, <2>7 DEF PhaseInvariant
<1>4. CASE \E p \in Procs, cmd \in {"generate", "verify"} : Starts(p, cmd)
  <2>1. PICK p \in Procs, cmd \in {"generate", "verify"} : Starts(p, cmd)
    BY <1>4
  <2>2. file["keys"] # None
    BY <2>1 DEF Starts, PhaseInvariant
  <2>3. UNCHANGED <<file, owner, make>>
    BY <2>1 DEF Starts
  <2>4. Running("make")' => make'.at = proc'["make"].cmd
    <3>1. CASE p = "make"
      BY <2>1, <3>1 DEF Starts
    <3>2. CASE p # "make"
      BY <1>0, <2>1, <2>3, <3>2 DEF Starts, Same, PhaseInvariant, Running
    <3> QED BY <3>1, <3>2
  <2> QED BY <2>2, <2>3, <2>4 DEF PhaseInvariant
<1>5. CASE Freshens
  <2>1. /\ file'["keys"] = file["keys"] /\ \A x \in Outputs : file'[x] = file[x]
        /\ UNCHANGED <<owner, make, proc>>
    BY <1>5 DEF Freshens
  <2> QED BY <2>1 DEF PhaseInvariant, Running
<1>6. CASE Clears
  <2>1. /\ \A p \in Procs : ~(Running(p)')
        /\ file'["keys"] = file["keys"] /\ \A x \in Outputs : file'[x] = None
        /\ owner' = [x \in Outputs |-> None] /\ make' = make
    BY <1>0, <1>6 DEF Clears, Running
  <2>2. \A x \in Outputs : owner'[x] = None
    BY <2>1
  <2> QED BY <1>0, <2>1, <2>2 DEF PhaseInvariant
<1>7. CASE Restarts
  <2>1. /\ \A p \in Procs : ~(Running(p)')
        /\ file'["keys"] = None /\ \A x \in Outputs : file'[x] = None
        /\ owner' = [x \in Outputs |-> None] /\ make'.at = "inputs"
    BY <1>0, <1>7, FileNames DEF Restarts, Running, Goto
  <2>2. \A x \in Outputs : owner'[x] = None
    BY <2>1
  <2> QED BY <1>0, <2>1, <2>2 DEF PhaseInvariant
<1>8. CASE UNCHANGED vars
  BY <1>8 DEF vars, PhaseInvariant, Running
<1> QED BY <1>1, <1>2, <1>3, <1>4, <1>5, <1>6, <1>7, <1>8 DEF StepEffect

-----------------------------------------------------------------------------
(* The build's evidence.                                                   *)

\* The steps after the SBOM, by name.
LEMMA CompliedIs ==
  Complied = {"comply-sums", "attest", "attest-sums", "reinputs", "make"} \cup Installed
BY PipelineSets DEF Complied, Pipeline

\* A Setup.exe still descends from the build after an edit, or another installer,
\* and the one that is made then does as well.
LEMMA DescendsStays ==
  ASSUME TypeOK, Freshens, file["sbom"] \in Boms(edits)
  PROVE  /\ \A u : Descends(u) => u.embeds.entries.sbom = file'["sbom"]
                      /\ \/ u.embeds.entries.payload = file'["sbom"].payload
                         \/ file'["payload"] # file'["sbom"].payload
         /\ file'["setup"] # file["setup"] =>
               /\ file'["setup"].embeds.entries.sbom = file'["sbom"]
               /\ \/ file'["setup"].embeds.entries.payload = file'["sbom"].payload
                  \/ file'["payload"] # file'["sbom"].payload
<1>1. file'["sbom"] = file["sbom"] /\ file["sbom"].payload \in OrNone(Marks(edits))
  BY DEF Freshens, Boms
<1>2. file'["payload"] = file["payload"] \/ file'["payload"] # file["sbom"].payload
  <2>1. Content("payload", edits) = Marks(edits) /\ "payload" \in Files
    BY ContentIs, FileNames
  <2>2. file'["payload"] = file["payload"] \/ file'["payload"] \notin OrNone(Marks(edits))
    BY <2>1 DEF Freshens
  <2> QED BY <1>1, <2>2
<1>3. file'["setup"] # file["setup"] =>
         file'["payload"] = file["payload"] /\ file'["setup"].embeds.entries = Entries
  BY DEF Freshens
<1>4. Entries.sbom = file["sbom"] /\ Entries.payload = file["payload"]
  BY DEF Entries
<1> QED BY <1>1, <1>2, <1>3, <1>4 DEF Descends

\* The invariant of the build at a step, of its record and the files it looks at.
MakeHolds(at, setup, package, sbom, payload, made, evidence, e) ==
  LET descends(u) == /\ u.embeds.entries.sbom = sbom
                     /\ u.embeds.entries.payload = sbom.payload \/ payload # sbom.payload IN
  /\ at \in Complied => sbom \in Boms(e)
  /\ at \in Installed => made # None /\ descends(made)
  /\ at \in {"provenance-package", "evidence"} =>
        descends(setup) /\ setup.inputs = PinnedInputs
  /\ at = "evidence" => setup.embeds = package
  /\ at \in Witnessed =>
        /\ descends(evidence.setup)
        /\ evidence.setup.inputs = PinnedInputs /\ evidence.setup.embeds = evidence.package
  /\ at \in Attested => evidence.setup.embeds.entries.payload = sbom.payload

\* It is the invariant of the build.
LEMMA MakeHoldsIs ==
  /\ MakeInvariant <=> MakeHolds(make.at, make.setup, make.package, file["sbom"],
                                 file["payload"], file["setup"], file["evidence"], edits)
  /\ MakeInvariant' <=> MakeHolds(make'.at, make'.setup, make'.package, file'["sbom"],
                                 file'["payload"], file'["setup"], file'["evidence"], edits')
BY DEF MakeInvariant, MakeHolds, Descends

\* Where the build only goes on, what held holds.
LEMMA PassesHolds ==
  ASSUME NEW at \in Checking \cup {"keys", "comply-sums", "smoke-package", "generate", "verify"},
         NEW s, NEW k, NEW b, NEW l, NEW m, NEW v, NEW e,
         MakeHolds(at, s, k, b, l, m, v, e), at = "smoke-attest" => b = Spdx(l),
         NEW s1, NEW k1
  PROVE  MakeHolds(Following(at), s1, k1, b, l, m, v, e)
<1> DEFINE n == Following(at)
<1>1. n \notin {"provenance-package", "evidence"}
  BY PipelineOrder DEF Checking
<1>2. n \in Complied => at \in Complied
  BY PipelineOrder, PipelineSets, CompliedIs DEF Checking
<1>3. n \in Installed => at \in Installed
  BY PipelineOrder, PipelineSets DEF Checking
<1>4. n \in Witnessed => at \in Witnessed
  BY PipelineOrder, PipelineSets DEF Checking
<1>5. n \in Attested => at \in Attested \/ at = "smoke-attest"
  BY PipelineOrder, PipelineSets DEF Checking
<1>6. at = "smoke-attest" => at \in Witnessed /\ b.payload = l
  BY PipelineSets DEF Spdx
<1> HIDE DEF n
<1>7. n \in Attested => v.setup.embeds.entries.payload = b.payload
  BY <1>5, <1>6 DEF MakeHolds
<1> QED BY <1>1, <1>2, <1>3, <1>4, <1>7 DEF MakeHolds, n

\* The evidence of the build is about an installer of the build.
LEMMA MakeStep ==
  ASSUME TypeOK, PhaseInvariant, MakeInvariant, [Next]_vars
  PROVE  MakeInvariant'
<1>0. /\ "sbom" \in Files \ Outputs /\ "payload" \in Files \ Outputs
      /\ "setup" \in Files \ Outputs /\ "evidence" \in Files \ Outputs
  BY FileNames
<1>1. StepEffect \/ UNCHANGED vars
  BY NextIs
<1>a. MakeHolds(make.at, make.setup, make.package, file["sbom"], file["payload"],
                file["setup"], file["evidence"], edits)
  BY MakeHoldsIs
<1>2. CASE Bundles
  <2>1. PICK p \in Procs : Effect(p) /\ edits' = edits
    BY <1>2 DEF Bundles
  <2>2. /\ file'["sbom"] = file["sbom"] /\ file'["payload"] = file["payload"]
        /\ file'["setup"] = file["setup"] /\ file'["evidence"] = file["evidence"]
    BY <1>0, <2>1, EffectKeeps
  <2>3. \/ make' = make
        \/ /\ Running("make") /\ make'.at \in {"verify", "done", "failed"}
    BY <2>1, EffectKeeps
  <2>4. CASE make' = make
    BY <1>a, <2>1, <2>2, <2>4, MakeHoldsIs
  <2>5. CASE Running("make") /\ make'.at \in {"verify", "done", "failed"}
    <3>1. make.at \in {"generate", "verify"}
      BY <2>5, WaitingIs
    <3>2. make.at \in Complied /\ make.at \in Installed /\ make.at \in Witnessed
          /\ make.at \in Attested
      BY <3>1, PipelineSets, CompliedIs
    <3>3. make'.at \notin {"provenance-package", "evidence"}
      BY <2>5
    <3>4. MakeHolds(make'.at, make'.setup, make'.package, file["sbom"], file["payload"],
                    file["setup"], file["evidence"], edits)
      BY <1>a, <3>2, <3>3 DEF MakeHolds
    <3> QED BY <2>1, <2>2, <3>4, MakeHoldsIs
  <2> QED BY <2>3, <2>4, <2>5
<1>3. CASE Builds
  <2>1. make.at \in Early /\ BuildEffect /\ edits' = edits
    BY <1>3 DEF Builds
  <2>2. CASE Halts
    <3>1. make'.at \notin Complied /\ make'.at \notin Installed /\ make'.at \notin Witnessed
          /\ make'.at \notin Attested /\ make'.at \notin {"provenance-package", "evidence"}
      BY <2>2, PipelineSets, CompliedIs DEF Halts, Goto
    <3> QED BY <3>1, MakeHoldsIs DEF MakeHolds
  <2>3. CASE Passes
    <3>1. MakeHolds(Following(make.at), make'.setup, make'.package, file["sbom"], file["payload"],
                    file["setup"], file["evidence"], edits)
      BY <1>a, <2>3, PassesHolds DEF Passes
    <3> QED BY <2>1, <2>3, <3>1, MakeHoldsIs DEF Passes, Goto
  <2>4. CASE \E x \in Files : Saves(x)
    <3>1. PICK x \in Files : Saves(x)
      BY <2>4
    <3>2. make'.at = Following(make.at) /\ \A y \in Files : y # x => file'[y] = file[y]
      BY <3>1 DEF Saves, Goto, Rewrites
    <3>3. CASE x = "payload" \/ x = "sbom"
      <4>1. make'.at \notin Installed /\ make'.at \notin Witnessed
            /\ make'.at \notin Attested /\ make'.at \notin {"provenance-package", "evidence"}
        BY <3>1, <3>2, <3>3, PipelineSets, PipelineOrder DEF Saves
      <4>2. make'.at \in Complied => file'["sbom"] \in Boms(edits)
        BY <3>1, <3>2, <3>3, PipelineSets, CompliedIs, PipelineOrder DEF Saves
      <4> QED BY <2>1, <4>1, <4>2, MakeHoldsIs DEF MakeHolds
    <3>4. CASE x = "sums" \/ x = "keys"
      <4>1. make.at \in {"comply-sums", "keys"}
        BY <3>1, <3>4 DEF Saves
      <4>2. MakeHolds(Following(make.at), make'.setup, make'.package, file["sbom"],
                      file["payload"], file["setup"], file["evidence"], edits)
        BY <1>a, <4>1, PassesHolds
      <4>3. /\ file'["sbom"] = file["sbom"] /\ file'["payload"] = file["payload"]
            /\ file'["setup"] = file["setup"] /\ file'["evidence"] = file["evidence"]
        BY <1>0, <3>2, <3>4
      <4> QED BY <2>1, <3>2, <4>2, <4>3, MakeHoldsIs
    <3> QED BY <3>1, <3>3, <3>4 DEF Saves
  <2>5. CASE Installs
    <3>1. /\ file'["sbom"] = file["sbom"] /\ file'["payload"] = file["payload"]
          /\ make'.at = "smoke-package" /\ make.at = "make" /\ file'["setup"] # None
          /\ file'["setup"].embeds.entries = Entries
      BY <1>0, <2>5 DEF Installs, Goto
    <3>2. make'.at \notin Witnessed /\ make'.at \notin Attested
          /\ make'.at \notin {"provenance-package", "evidence"}
      BY <3>1, PipelineSets
    <3>3. file["sbom"] \in Boms(edits)
      BY <1>a, <3>1, CompliedIs DEF MakeHolds
    <3>4. Entries.sbom = file["sbom"] /\ Entries.payload = file["payload"]
      BY DEF Entries
    <3> QED BY <2>1, <3>1, <3>2, <3>3, <3>4, MakeHoldsIs DEF MakeHolds
  <2>6. CASE LooksAt
    <3>0. file' = file /\ make.at \in Complied /\ make.at \in Installed
      BY <2>6, PipelineSets, CompliedIs DEF LooksAt
    <3>1. CASE make.at = "smoke-package" /\ Goto("smoke-payload", make.setup, file["package"])
      <4>1. MakeHolds(Following(make.at), make'.setup, make'.package, file["sbom"],
                      file["payload"], file["setup"], file["evidence"], edits)
        BY <1>a, <3>1, PassesHolds
      <4>2. make'.at = Following(make.at)
        BY <3>1, PipelineOrder DEF Goto
      <4> QED BY <2>1, <3>0, <4>1, <4>2, MakeHoldsIs
    <3>2. CASE /\ make.at = "provenance-setup" /\ file["setup"].inputs = PinnedInputs
               /\ Goto("provenance-package", file["setup"], make.package)
      <4>1. make'.at \notin Witnessed /\ make'.at \notin Attested /\ make'.at # "evidence"
        BY <3>2, PipelineSets DEF Goto
      <4>2. make'.setup = file["setup"]
        BY <3>2 DEF Goto
      <4> QED BY <1>a, <2>1, <3>0, <3>2, <4>1, <4>2, MakeHoldsIs DEF MakeHolds
    <3>3. CASE /\ make.at = "provenance-package" /\ make.setup.embeds = file["package"]
               /\ Goto("evidence", make.setup, file["package"])
      <4>1. make'.at \notin Witnessed /\ make'.at \notin Attested
        BY <3>3, PipelineSets DEF Goto
      <4>2. make'.setup = make.setup /\ make'.package = file["package"]
        BY <3>3 DEF Goto
      <4> QED BY <1>a, <2>1, <3>0, <3>3, <4>1, <4>2, MakeHoldsIs DEF MakeHolds
    <3> QED BY <2>6, <3>1, <3>2, <3>3 DEF LooksAt
  <2>7. CASE Attests
    <3>1. /\ make.at = "evidence" /\ make'.at = "runtime"
          /\ file'["evidence"].setup = make.setup /\ file'["evidence"].package = make.package
          /\ file'["sbom"] = file["sbom"] /\ file'["payload"] = file["payload"]
          /\ file'["setup"] = file["setup"]
      BY <1>0, <2>7 DEF Attests, Goto, Rewrites
    <3>2. make.at \in Complied /\ make.at \in Installed /\ make'.at \notin Attested
          /\ make'.at \notin {"provenance-package", "evidence"}
      BY <3>1, PipelineSets, CompliedIs
    <3> QED BY <1>a, <2>1, <3>1, <3>2, MakeHoldsIs DEF MakeHolds
  <2> QED BY <2>1, <2>2, <2>3, <2>4, <2>5, <2>6, <2>7 DEF BuildEffect
<1>4. CASE \E p \in Procs, cmd \in {"generate", "verify"} : Starts(p, cmd)
  <2>1. UNCHANGED <<file, make, edits>>
    BY <1>4 DEF Starts
  <2> QED BY <1>a, <2>1, MakeHoldsIs
<1>5. CASE Freshens
  <2>1. /\ file'["sbom"] = file["sbom"] /\ file'["evidence"] = file["evidence"]
        /\ make' = make /\ edits' = edits + 1
        /\ file'["setup"] = file["setup"] \/ file'["setup"] # None
    BY <1>5 DEF Freshens
  <2>2. CASE make.at \in Complied
    <3>1. file["sbom"] \in Boms(edits)
      BY <1>a, <2>2 DEF MakeHolds
    <3>2. file'["sbom"] \in Boms(edits')
      <4>1. Boms(edits) \subseteq Boms(edits + 1)
        BY ContentGrows, ContentIs, FileNames DEF TypeOK
      <4> QED BY <2>1, <3>1, <4>1
    <3>3. MakeInvariant'
      BY <1>5, <2>1, <3>1, <3>2, DescendsStays DEF MakeInvariant, Descends
    <3> QED BY <3>3
  <2>3. CASE make.at \notin Complied
    <3>1. make.at \notin Installed /\ make.at \notin Witnessed /\ make.at \notin Attested
          /\ make.at \notin {"provenance-package", "evidence"}
      BY <2>3, CompliedIs, PipelineSets
    <3> QED BY <2>1, <2>3, <3>1 DEF MakeInvariant
  <2> QED BY <2>2, <2>3
<1>6. CASE Clears
  <2>1. /\ file'["sbom"] = file["sbom"] /\ file'["payload"] = file["payload"]
        /\ file'["setup"] = file["setup"] /\ file'["evidence"] = file["evidence"]
        /\ make' = make /\ edits' = edits
    BY <1>0, <1>6 DEF Clears
  <2> QED BY <1>a, <2>1, MakeHoldsIs
<1>7. CASE Restarts
  <2>1. make'.at \notin Complied /\ make'.at \notin Installed /\ make'.at \notin Witnessed
        /\ make'.at \notin Attested /\ make'.at \notin {"provenance-package", "evidence"}
    BY <1>7, PipelineSets, CompliedIs DEF Restarts, Goto
  <2> QED BY <2>1, MakeHoldsIs DEF MakeHolds
<1>8. CASE UNCHANGED vars
  BY <1>a, <1>8, MakeHoldsIs DEF vars
<1> QED BY <1>1, <1>2, <1>3, <1>4, <1>5, <1>6, <1>7, <1>8 DEF StepEffect

-----------------------------------------------------------------------------
(* What a bundle command has read.                                         *)

\* What the command with this record has read.
ReadAt(r, x) == \E i \in 1 .. r.at - 1 : Steps(r.cmd)[i] = x

\* It is what the command has read.
LEMMA ReadAtIs ==
  ASSUME NEW p, NEW x
  PROVE  (Read(p, x) <=> ReadAt(proc[p], x)) /\ (Read(p, x)' <=> ReadAt(proc'[p], x))
BY DEF Read, ReadAt

\* At the beginning and after a failure nothing is read; what is read is read one
\* step at a time.
LEMMA ReadAtStep ==
  ASSUME NEW r, NEW q, NEW x
  PROVE  /\ q.at \in {0, 1} => ~ReadAt(q, x)
         /\ q.cmd = r.cmd /\ q.at = r.at => (ReadAt(q, x) <=> ReadAt(r, x))
         /\ q.cmd = r.cmd /\ r.at \in Nat /\ r.at # 0 /\ q.at = r.at + 1 =>
               (ReadAt(q, x) <=> ReadAt(r, x) \/ Steps(r.cmd)[r.at] = x)
<1>1. q.at \in {0, 1} => ~ReadAt(q, x)
  <2>1. \A n \in {0, 1} : 1 .. n - 1 = {}
    OBVIOUS
  <2> QED BY <2>1 DEF ReadAt
<1>2. q.cmd = r.cmd /\ q.at = r.at => (ReadAt(q, x) <=> ReadAt(r, x))
  BY DEF ReadAt
<1>3. ASSUME q.cmd = r.cmd, r.at \in Nat, r.at # 0, q.at = r.at + 1
      PROVE  ReadAt(q, x) <=> ReadAt(r, x) \/ Steps(r.cmd)[r.at] = x
  <2>1. 1 .. q.at - 1 = (1 .. r.at - 1) \cup {r.at}
    BY <1>3
  <2> QED BY <1>3, <2>1 DEF ReadAt
<1> QED BY <1>1, <1>2, <1>3

\* A command that is not under way has read nothing.
LEMMA ReadRunning ==
  ASSUME TypeOK, NEW p \in Procs, ~Running(p)
  PROVE  /\ proc[p] = NoProc /\ proc[p].at = 0 /\ proc[p].mine = {}
         /\ \A x : ~ReadAt(proc[p], x)
<1>1. proc[p] = NoProc
  BY RunningIs DEF TypeOK, Running
<1> QED BY <1>1, NoProcIs, ReadAtStep

\* A command that goes on has read what its step read.
LEMMA OnwardReads ==
  ASSUME TypeOK, NEW p \in Procs, NEW changed, "cmd" \notin changed, Onward(p, changed)
  PROVE  /\ proc'[p].cmd = proc[p].cmd /\ proc[p].at \in Nat
         /\ \A x : ReadAt(proc'[p], x) <=> ReadAt(proc[p], x) \/ Step(p) = x
<1>1. proc'[p].cmd = proc[p].cmd /\ proc'[p].at = proc[p].at + 1 /\ proc[p].at \in Positions(p)
  BY DEF Onward, Turn, Same
<1>2. proc[p].at \in Nat /\ proc[p].at # 0
  BY <1>1 DEF Positions
<1> QED BY <1>1, <1>2, ReadAtStep DEF Step

\* A command goes on, reads a file, or stops.
LEMMA EffectReads ==
  ASSUME TypeOK, PhaseInvariant, NEW p \in Procs, Effect(p)
  PROVE  \/ proc'[p].at = 0
         \/ /\ proc'[p].cmd = proc[p].cmd /\ proc'[p].seen = proc[p].seen
            /\ Step(p) \notin Listed
            /\ \A x : ReadAt(proc'[p], x) <=> ReadAt(proc[p], x) \/ Step(p) = x
         \/ /\ \E x \in Listed : Reads(p, x)
            /\ proc'[p].cmd = proc[p].cmd
            /\ \A x : ReadAt(proc'[p], x) <=> ReadAt(proc[p], x) \/ Step(p) = x
<1>1. CASE Stops(p) \/ Generates(p) \/ Verifies(p) \/ Drops(p)
  BY <1>1, NoProcIs DEF Stops, Generates, Verifies, Drops, Leaves
<1>2. CASE \E x \in Outputs : Removes(p, x)
  BY <1>2 DEF Removes, Failing, Turn, Same
<1>3. CASE Moves(p)
  BY <1>3, OnwardReads DEF Moves, Onward, Turn, Same
<1>4. CASE Fills(p)
  <2>1. Onward(p, {}) /\ Step(p) \notin Listed
    BY <1>4, FileNames DEF Fills
  <2>2. proc'[p].seen = proc[p].seen
    BY <2>1 DEF Onward, Turn, Same
  <2>3. /\ proc'[p].cmd = proc[p].cmd
        /\ \A x : ReadAt(proc'[p], x) <=> ReadAt(proc[p], x) \/ Step(p) = x
    BY <2>1, OnwardReads
  <2> QED BY <2>1, <2>2, <2>3
<1>5. CASE \E x \in Outputs : Writes(p, x)
  <2>1. Onward(p, {"mine"}) /\ Step(p) \notin Listed
    BY <1>5, FileNames DEF Writes
  <2>2. proc'[p].seen = proc[p].seen
    BY <2>1 DEF Onward, Turn, Same
  <2>3. /\ proc'[p].cmd = proc[p].cmd
        /\ \A x : ReadAt(proc'[p], x) <=> ReadAt(proc[p], x) \/ Step(p) = x
    BY <2>1, OnwardReads
  <2> QED BY <2>1, <2>2, <2>3
<1>6. CASE \E x \in Listed : Reads(p, x)
  <2>1. Onward(p, {"seen"})
    BY <1>6 DEF Reads
  <2> QED BY <1>6, <2>1, OnwardReads
<1> QED BY <1>1, <1>2, <1>3, <1>4, <1>5, <1>6 DEF Effect

\* What a command has read of the records, which are these.
SeenHolds(r, evidence, sbom) ==
  /\ ReadAt(r, "evidence") => r.seen["evidence"] = evidence
  /\ ReadAt(r, "sbom") => r.seen["sbom"] = sbom
  /\ ReadAt(r, "setup") => r.seen["setup"] = evidence["setup"]
  /\ ReadAt(r, "package") => r.seen["package"] = evidence["package"]

\* It is the invariant of what a command has read.
LEMMA SeenHoldsIs ==
  /\ SeenInvariant <=> \A p \in Procs : SeenHolds(proc[p], file["evidence"], file["sbom"])
  /\ SeenInvariant' <=> \A p \in Procs : SeenHolds(proc'[p], file'["evidence"], file'["sbom"])
<1>1. SeenInvariant <=> \A p \in Procs : SeenHolds(proc[p], file["evidence"], file["sbom"])
  BY ReadAtIs DEF SeenInvariant, SeenHolds
<1>2. SeenInvariant' <=> \A p \in Procs : SeenHolds(proc'[p], file'["evidence"], file'["sbom"])
  BY ReadAtIs DEF SeenInvariant, SeenHolds
<1> QED BY <1>1, <1>2

\* A command has read the evidence and the SBOM as they are.
LEMMA SeenStep ==
  ASSUME TypeOK, PhaseInvariant, SeenInvariant, [Next]_vars
  PROVE  SeenInvariant'
<1>0. /\ "sbom" \in Files \ Outputs /\ "evidence" \in Files \ Outputs
      /\ {"evidence", "sbom", "setup", "package"} \subseteq Listed
  BY FileNames
<1>1. StepEffect \/ UNCHANGED vars
  BY NextIs
<1>a. \A p \in Procs : SeenHolds(proc[p], file["evidence"], file["sbom"])
  BY SeenHoldsIs
<1>2. CASE Bundles
  <2>1. PICK p \in Procs : Effect(p)
    BY <1>2 DEF Bundles
  <2>2. /\ file'["sbom"] = file["sbom"] /\ file'["evidence"] = file["evidence"]
        /\ \A i \in Procs : i # p => proc'[i] = proc[i]
    BY <1>0, <2>1, EffectKeeps
  <2>3. SeenHolds(proc[p], file["evidence"], file["sbom"])
    BY <1>a
  <2>4. SeenHolds(proc'[p], file["evidence"], file["sbom"])
    <3>1. CASE proc'[p].at = 0
      BY <3>1, ReadAtStep DEF SeenHolds
    <3>2. CASE /\ proc'[p].cmd = proc[p].cmd /\ proc'[p].seen = proc[p].seen
               /\ Step(p) \notin Listed
               /\ \A x : ReadAt(proc'[p], x) <=> ReadAt(proc[p], x) \/ Step(p) = x
      BY <1>0, <2>3, <3>2 DEF SeenHolds
    <3>3. CASE /\ \E x \in Listed : Reads(p, x)
               /\ proc'[p].cmd = proc[p].cmd
               /\ \A x : ReadAt(proc'[p], x) <=> ReadAt(proc[p], x) \/ Step(p) = x
      <4>1. PICK x \in Listed : Reads(p, x)
        BY <3>3
      <4>2. /\ Step(p) = x /\ proc'[p].seen[x] = file[x] /\ Running(p)
            /\ \A y \in Listed : y # x => proc'[p].seen[y] = proc[p].seen[y]
            /\ x \in {"setup", "package"} => file[x] = proc[p].seen["evidence"][x]
            /\ proc[p].at \in Positions(p)
        BY <4>1 DEF Reads, Onward
      <4>3. x \in {"setup", "package"} => ReadAt(proc[p], "evidence")
        <5>1. proc[p].cmd \in {"generate", "verify"}
          BY <4>2 DEF TypeOK, Command, Running
        <5> QED BY <4>2, <5>1, EvidenceFirst DEF ReadAt, Step, Positions
      <4>4. x \in {"setup", "package"} => file[x] = file["evidence"][x]
        BY <2>3, <4>2, <4>3 DEF SeenHolds
      <4>5. \A y \in Listed : ReadAt(proc'[p], y) =>
               \/ y = x /\ proc'[p].seen[y] = file[y]
               \/ ReadAt(proc[p], y) /\ proc'[p].seen[y] = proc[p].seen[y]
        BY <3>3, <4>2
      <4> QED BY <1>0, <2>3, <4>4, <4>5 DEF SeenHolds
    <3> QED BY <2>1, <3>1, <3>2, <3>3, EffectReads
  <2> QED BY <1>a, <2>2, <2>4, SeenHoldsIs
<1>3. CASE Builds
  <2>1. \A p \in Procs : ~Running(p) /\ proc' = proc
    BY <1>3, EarlyIs DEF Builds
  <2>2. \A p \in Procs : \A x : ~ReadAt(proc'[p], x)
    BY <2>1, ReadRunning
  <2> QED BY <2>2, SeenHoldsIs DEF SeenHolds
<1>4. CASE \E p \in Procs, cmd \in {"generate", "verify"} : Starts(p, cmd)
  <2>1. PICK p \in Procs, cmd \in {"generate", "verify"} : Starts(p, cmd)
    BY <1>4
  <2>2. file' = file /\ proc'[p].at = 1
        /\ \A i \in Procs : i # p => Same(proc[i], proc'[i], {"alone"})
    BY <2>1 DEF Starts
  <2>3. SeenHolds(proc'[p], file["evidence"], file["sbom"])
    BY <2>2, ReadAtStep DEF SeenHolds
  <2>4. \A i \in Procs : i # p => SeenHolds(proc'[i], file["evidence"], file["sbom"])
    <3> SUFFICES ASSUME NEW i \in Procs, i # p
                 PROVE  SeenHolds(proc'[i], file["evidence"], file["sbom"])
      OBVIOUS
    <3>1. proc'[i].cmd = proc[i].cmd /\ proc'[i].at = proc[i].at /\ proc'[i].seen = proc[i].seen
      BY <2>2 DEF Same
    <3>2. \A x : ReadAt(proc'[i], x) <=> ReadAt(proc[i], x)
      BY <3>1, ReadAtStep
    <3> QED BY <1>a, <3>1, <3>2 DEF SeenHolds
  <2> QED BY <2>2, <2>3, <2>4, SeenHoldsIs
<1>5. CASE Freshens
  <2>1. file'["sbom"] = file["sbom"] /\ file'["evidence"] = file["evidence"] /\ proc' = proc
    BY <1>5 DEF Freshens
  <2> QED BY <1>a, <2>1, SeenHoldsIs
<1>6. CASE Clears
  <2>1. file'["sbom"] = file["sbom"] /\ file'["evidence"] = file["evidence"] /\ proc' = proc
    BY <1>0, <1>6 DEF Clears
  <2> QED BY <1>a, <2>1, SeenHoldsIs
<1>7. CASE Restarts
  <2>1. \A p \in Procs : ~Running(p) /\ proc' = proc
    BY <1>7 DEF Restarts
  <2>2. \A p \in Procs : \A x : ~ReadAt(proc'[p], x)
    BY <2>1, ReadRunning
  <2> QED BY <2>2, SeenHoldsIs DEF SeenHolds
<1>8. CASE UNCHANGED vars
  BY <1>a, <1>8, SeenHoldsIs DEF vars
<1> QED BY <1>1, <1>2, <1>3, <1>4, <1>5, <1>6, <1>7, <1>8 DEF StepEffect

-----------------------------------------------------------------------------
(* The outputs of a generation.                                            *)

\* A command has created before what it creates or fills now.
LEMMA WriteOrder ==
  ASSUME NEW r, NEW e, Command(r, e), r.cmd # None
  PROVE  /\ ReadAt(r, "fill-checksums") => ReadAt(r, "checksums")
         /\ r.at \in 1 .. Len(Steps(r.cmd)) =>
            LET step == Steps(r.cmd)[r.at] IN
            /\ step \in Writing => r.cmd = "generate"
            /\ step \in {"checksums", "fill-checksums", "manifest", "fill-manifest"} =>
                  ReadAt(r, "copy")
            /\ step \in {"fill-checksums", "manifest", "fill-manifest"} =>
                  ReadAt(r, "checksums")
            /\ step \in {"manifest", "fill-manifest"} => ReadAt(r, "fill-checksums")
            /\ step = "fill-manifest" => ReadAt(r, "manifest")
<1>1. r.cmd \in {"generate", "verify"} /\ r.at \in 0 .. Len(Steps(r.cmd))
  BY DEF Command
<1>2. Len(Steps(r.cmd)) \in Nat
  BY <1>1, VerifySteps, GenerateSteps
<1>3. ReadAt(r, "fill-checksums") => ReadAt(r, "checksums")
  <2> SUFFICES ASSUME NEW i \in 1 .. r.at - 1, Steps(r.cmd)[i] = "fill-checksums"
               PROVE  ReadAt(r, "checksums")
    BY DEF ReadAt
  <2>1. i \in 1 .. Len(Steps(r.cmd))
    BY <1>1, <1>2
  <2>2. r.cmd = "generate" /\ i = 15
    BY <1>1, <2>1, WritingSteps
  <2>3. 14 \in 1 .. r.at - 1
    BY <1>1, <1>2, <2>2
  <2> QED BY <2>2, <2>3, GenerateSteps DEF ReadAt
<1>4. ASSUME r.at \in 1 .. Len(Steps(r.cmd)), NEW step, step = Steps(r.cmd)[r.at]
      PROVE  /\ step \in Writing => r.cmd = "generate"
             /\ step \in {"checksums", "fill-checksums", "manifest", "fill-manifest"} =>
                   ReadAt(r, "copy")
             /\ step \in {"fill-checksums", "manifest", "fill-manifest"} =>
                   ReadAt(r, "checksums")
             /\ step \in {"manifest", "fill-manifest"} => ReadAt(r, "fill-checksums")
             /\ step = "fill-manifest" => ReadAt(r, "manifest")
  <2> DEFINE a == r.at
  <2>1. /\ step = "copy" => r.cmd = "generate" /\ a = 2
        /\ step = "checksums" => r.cmd = "generate" /\ a = 14
        /\ step = "fill-checksums" => r.cmd = "generate" /\ a = 15
        /\ step = "manifest" => r.cmd = "generate" /\ a = 16
        /\ step = "fill-manifest" => r.cmd = "generate" /\ a = 17
    BY <1>1, <1>4, WritingSteps
  <2>2. step \in Writing => r.cmd = "generate"
    BY <2>1 DEF Writing
  <2>3. \A k \in 1 .. 17 : r.cmd = "generate" /\ a > k => ReadAt(r, Steps("generate")[k])
    <3> SUFFICES ASSUME NEW k \in 1 .. 17, r.cmd = "generate", a > k
                 PROVE  ReadAt(r, Steps("generate")[k])
      OBVIOUS
    <3>1. a \in Nat
      BY <1>1, <1>2
    <3>2. k \in 1 .. a - 1
      BY <3>1
    <3> QED BY <3>2 DEF ReadAt
  <2>4. /\ 2 \in 1 .. 17 /\ Steps("generate")[2] = "copy"
        /\ 14 \in 1 .. 17 /\ Steps("generate")[14] = "checksums"
        /\ 15 \in 1 .. 17 /\ Steps("generate")[15] = "fill-checksums"
        /\ 16 \in 1 .. 17 /\ Steps("generate")[16] = "manifest"
    BY GenerateSteps
  <2> HIDE DEF a
  <2>5. step \in {"checksums", "fill-checksums", "manifest", "fill-manifest"} =>
           r.cmd = "generate" /\ a > 2
    BY <2>1
  <2>6. step \in {"fill-checksums", "manifest", "fill-manifest"} => r.cmd = "generate" /\ a > 14
    BY <2>1
  <2>7. step \in {"manifest", "fill-manifest"} => r.cmd = "generate" /\ a > 15
    BY <2>1
  <2>8. step = "fill-manifest" => r.cmd = "generate" /\ a > 16
    BY <2>1
  <2> QED BY <2>2, <2>3, <2>4, <2>5, <2>6, <2>7, <2>8
<1> QED BY <1>3, <1>4

\* What the command of p has created, in a directory f with these owners.
OwnHolds(r, p, f, o) ==
  /\ r.cmd = "verify" => r.mine = {}
  /\ \A x \in r.mine : o[x] = p
  /\ r.mine # {} => "lockcopy" \in r.mine /\ f["lockcopy"] # None
  /\ r.mine # {} /\ o["manifest"] # None => "manifest" \in r.mine
  /\ "manifest" \in r.mine => "checksums" \in r.mine
  /\ ReadAt(r, "copy") => "lockcopy" \in r.mine
  /\ ReadAt(r, "checksums") => "checksums" \in r.mine
  /\ ReadAt(r, "fill-checksums") => f["checksums"] \notin {None, Partial}
  /\ ReadAt(r, "manifest") => "manifest" \in r.mine

\* What lies in the directory.
ListHolds(f, o) ==
  /\ \A x \in Outputs : f[x] # None => o[x] # None
  /\ o["manifest"] # None =>
        /\ f["checksums"] \notin {None, Partial} /\ f["lockcopy"] # None
        /\ o["checksums"] = o["manifest"] /\ o["lockcopy"] = o["manifest"]

\* Together they are the invariant of the outputs.
LEMMA OutputHoldsIs ==
  /\ OutputInvariant <=>
        ListHolds(file, owner) /\ \A p \in Procs : OwnHolds(proc[p], p, file, owner)
  /\ OutputInvariant' <=>
        ListHolds(file', owner') /\ \A p \in Procs : OwnHolds(proc'[p], p, file', owner')
<1>1. OutputInvariant <=>
        ListHolds(file, owner) /\ \A p \in Procs : OwnHolds(proc[p], p, file, owner)
  BY ReadAtIs DEF OutputInvariant, ListHolds, OwnHolds
<1>2. OutputInvariant' <=>
        ListHolds(file', owner') /\ \A p \in Procs : OwnHolds(proc'[p], p, file', owner')
  BY ReadAtIs DEF OutputInvariant, ListHolds, OwnHolds
<1> QED BY <1>1, <1>2

\* A command that has created nothing is indifferent to the outputs.
LEMMA NothingOwned ==
  ASSUME NEW e, NEW r, Command(r, e), NEW p, NEW f, NEW o, OwnHolds(r, p, f, o),
         r.mine = {}, NEW g, NEW u
  PROVE  OwnHolds(r, p, g, u)
<1>1. ~ReadAt(r, "copy") /\ ~ReadAt(r, "checksums") /\ ~ReadAt(r, "manifest")
  BY DEF OwnHolds
<1>2. ~ReadAt(r, "fill-checksums")
  <2>1. CASE r.cmd = None
    <3>1. r.at \in {0, 1}
      BY <2>1, NoProcIs DEF Command
    <3> QED BY <3>1, ReadAtStep
  <2>2. CASE r.cmd # None
    BY <1>1, <2>2, WriteOrder
  <2> QED BY <2>1, <2>2
<1> QED BY <1>1, <1>2 DEF OwnHolds

\* The outputs of a command are those of no other.
LEMMA OwnedOnce ==
  ASSUME NEW p, NEW i, i # p, NEW f, NEW o, NEW r, NEW q,
         OwnHolds(r, p, f, o), OwnHolds(q, i, f, o),
         r.mine # {} \/ f["lockcopy"] = None
  PROVE  q.mine = {}
BY DEF OwnHolds

\* A command that has left or only begun has created nothing.
LEMMA OwnedAtRest ==
  ASSUME NEW q, q.at \in {0, 1}, q.mine = {}, NEW p, NEW f, NEW o
  PROVE  OwnHolds(q, p, f, o)
<1>1. ~ReadAt(q, "copy") /\ ~ReadAt(q, "checksums") /\ ~ReadAt(q, "manifest")
      /\ ~ReadAt(q, "fill-checksums")
  BY ReadAtStep
<1> QED BY <1>1 DEF OwnHolds

\* What holds of the outputs of the others when p changes the directory.
LEMMA OthersOwn ==
  ASSUME TypeOK, OutputInvariant, NEW p \in Procs,
         proc[p].mine # {} \/ file["lockcopy"] = None,
         \A i \in Procs : i # p => proc'[i] = proc[i]
  PROVE  \A i \in Procs : i # p => OwnHolds(proc'[i], i, file', owner')
<1> SUFFICES ASSUME NEW i \in Procs, i # p
             PROVE  OwnHolds(proc[i], i, file', owner')
  OBVIOUS
<1>1. OwnHolds(proc[i], i, file, owner) /\ OwnHolds(proc[p], p, file, owner)
  BY OutputHoldsIs
<1>2. proc[i].mine = {}
  BY <1>1, OwnedOnce
<1>3. Command(proc[i], edits)
  BY DEF TypeOK
<1> QED BY <1>1, <1>2, <1>3, NothingOwned

\* An output is created.
LEMMA OutputWritten ==
  ASSUME TypeOK, OutputInvariant, NEW p \in Procs, NEW x \in Outputs, Writes(p, x)
  PROVE  OutputInvariant'
<1>1. /\ Onward(p, {"mine"}) /\ Running(p) /\ proc[p].at \in Positions(p)
      /\ Step(p) = IF x = "lockcopy" THEN "copy" ELSE x
      /\ proc'[p].mine = proc[p].mine \cup {x} /\ file[x] = None
      /\ (x = "lockcopy" => file'[x] # None) /\ owner'[x] = p
      /\ \A y \in Files : y # x => file'[y] = file[y]
      /\ \A y \in Outputs : y # x => owner'[y] = owner[y]
      /\ \A i \in Procs : i # p => proc'[i] = proc[i]
  BY DEF Writes, Onward, Rewrites, Turn
<1>2. /\ proc'[p].cmd = proc[p].cmd
      /\ \A y : ReadAt(proc'[p], y) <=> ReadAt(proc[p], y) \/ Step(p) = y
  BY <1>1, OnwardReads
<1>3. OwnHolds(proc[p], p, file, owner) /\ ListHolds(file, owner)
  BY OutputHoldsIs
<1>4. x \in {"lockcopy", "checksums", "manifest"} /\ Outputs \subseteq Files
      /\ {"lockcopy", "checksums", "manifest"} = Outputs
  BY FileNames
<1>5. Command(proc[p], edits) /\ proc[p].cmd # None /\ p # None
  BY <1>1, NoneAssumption DEF TypeOK, Running
<1>6. /\ proc[p].cmd = "generate"
      /\ x \in {"checksums", "manifest"} => ReadAt(proc[p], "copy")
      /\ x = "manifest" => ReadAt(proc[p], "checksums") /\ ReadAt(proc[p], "fill-checksums")
  BY <1>1, <1>4, <1>5, WriteOrder DEF Step, Positions, Writing
<1>7. x \in {"checksums", "manifest"} => "lockcopy" \in proc[p].mine /\ file["lockcopy"] # None
                                         /\ owner["lockcopy"] = p
  BY <1>3, <1>6 DEF OwnHolds
<1>8. proc[p].mine # {} \/ file["lockcopy"] = None
  BY <1>1, <1>4, <1>7
<1>9. \A i \in Procs : i # p => OwnHolds(proc'[i], i, file', owner')
  BY <1>1, <1>8, OthersOwn
<1>10. x = "manifest" => /\ "checksums" \in proc[p].mine /\ owner["checksums"] = p
                         /\ file["checksums"] \notin {None, Partial}
  BY <1>3, <1>6 DEF OwnHolds
<1>11. x # "manifest" => owner["manifest"] = None /\ owner'["manifest"] = None
  BY <1>1, <1>3, <1>4 DEF ListHolds
<1>12. ListHolds(file', owner')
  <2>1. \A y \in Outputs : file'[y] # None => owner'[y] # None
    BY <1>1, <1>3, <1>4, <1>5 DEF ListHolds
  <2>2. owner'["manifest"] # None =>
        /\ file'["checksums"] \notin {None, Partial} /\ file'["lockcopy"] # None
        /\ owner'["checksums"] = owner'["manifest"] /\ owner'["lockcopy"] = owner'["manifest"]
    BY <1>1, <1>4, <1>7, <1>10, <1>11
  <2> QED BY <2>1, <2>2 DEF ListHolds
<1>13. OwnHolds(proc'[p], p, file', owner')
  <2> DEFINE q == proc'[p]
  <2>1. q.cmd = "generate"
    BY <1>2, <1>6
  <2>2. \A y \in q.mine : owner'[y] = p
    <3>1. \A y \in proc[p].mine : owner[y] = p /\ y \in Outputs
      BY <1>3, <1>5 DEF OwnHolds, Command
    <3> QED BY <1>1, <3>1
  <2>3. "lockcopy" \in q.mine /\ file'["lockcopy"] # None
    BY <1>1, <1>4, <1>7
  <2>4. owner'["manifest"] # None => "manifest" \in q.mine
    BY <1>1, <1>4, <1>11
  <2>5. "manifest" \in q.mine => "checksums" \in q.mine
    BY <1>1, <1>3, <1>10 DEF OwnHolds
  <2>6. ReadAt(q, "checksums") => "checksums" \in q.mine
    BY <1>1, <1>2, <1>3 DEF OwnHolds
  <2>7. ReadAt(q, "manifest") => "manifest" \in q.mine
    BY <1>1, <1>2, <1>3 DEF OwnHolds
  <2>8. ReadAt(q, "fill-checksums") => file'["checksums"] \notin {None, Partial}
    <3>1. ReadAt(q, "fill-checksums") => ReadAt(proc[p], "fill-checksums")
      BY <1>1, <1>2, <1>4
    <3>2. ReadAt(proc[p], "fill-checksums") => file["checksums"] \notin {None, Partial}
      BY <1>3 DEF OwnHolds
    <3> QED BY <1>1, <1>4, <3>1, <3>2
  <2> HIDE DEF q
  <2>9. q.cmd # "verify"
    BY <2>1
  <2> QED BY <2>2, <2>3, <2>4, <2>5, <2>6, <2>7, <2>8, <2>9 DEF OwnHolds, q
<1> QED BY <1>9, <1>12, <1>13, OutputHoldsIs

\* The checksums, or the manifest, are filled.
LEMMA OutputFilled ==
  ASSUME TypeOK, OutputInvariant, NEW p \in Procs, Fills(p) \/ Generates(p)
  PROVE  OutputInvariant'
<1>1. /\ Running(p) /\ proc[p].at \in Positions(p) /\ owner' = owner
      /\ \A i \in Procs : i # p => proc'[i] = proc[i]
      /\ Step(p) \in {"fill-checksums", "fill-manifest"}
  BY DEF Fills, Generates, Onward, Turn, Leaves
<1>2. Command(proc[p], edits) /\ proc[p].cmd # None
  BY <1>1 DEF TypeOK, Running
<1>3. OwnHolds(proc[p], p, file, owner) /\ ListHolds(file, owner)
  BY OutputHoldsIs
<1>4. /\ proc[p].cmd = "generate"
      /\ ReadAt(proc[p], "copy") /\ ReadAt(proc[p], "checksums")
      /\ Step(p) = "fill-manifest" => ReadAt(proc[p], "manifest")
  BY <1>1, <1>2, WriteOrder DEF Step, Positions, Writing
<1>5. "lockcopy" \in proc[p].mine /\ "checksums" \in proc[p].mine
      /\ (Step(p) = "fill-manifest" => "manifest" \in proc[p].mine)
  BY <1>3, <1>4 DEF OwnHolds
<1>6. \A i \in Procs : i # p => OwnHolds(proc'[i], i, file', owner')
  BY <1>1, <1>5, OthersOwn
<1>7. "lockcopy" \in Files /\ "checksums" \in Files /\ "manifest" \in Files
      /\ Outputs \subseteq Files /\ p # None
  BY FileNames, NoneAssumption
<1>8. CASE Fills(p)
  <2>1. /\ Onward(p, {}) /\ file'["checksums"] \notin {None, Partial}
        /\ \A y \in Files : y # "checksums" => file'[y] = file[y]
        /\ Step(p) = "fill-checksums"
    BY <1>8 DEF Fills, Rewrites
  <2>2. proc'[p].mine = proc[p].mine
    BY <2>1 DEF Onward, Turn, Same
  <2>3. /\ proc'[p].cmd = proc[p].cmd
        /\ \A y : ReadAt(proc'[p], y) <=> ReadAt(proc[p], y) \/ Step(p) = y
    BY <2>1, OnwardReads
  <2>4. owner["checksums"] # None
    BY <1>3, <1>5, <1>7 DEF OwnHolds
  <2>5. ListHolds(file', owner')
    BY <1>1, <1>3, <1>7, <2>1, <2>4 DEF ListHolds
  <2>6. file'["lockcopy"] = file["lockcopy"]
    BY <1>7, <2>1
  <2>7. OwnHolds(proc'[p], p, file', owner')
    BY <1>1, <1>3, <2>1, <2>2, <2>3, <2>6 DEF OwnHolds
  <2> QED BY <1>6, <2>5, <2>7, OutputHoldsIs
<1>9. CASE Generates(p)
  <2>1. /\ proc'[p] = NoProc
        /\ \A y \in Files : y # "manifest" => file'[y] = file[y]
        /\ Step(p) = "fill-manifest"
    BY <1>9 DEF Generates, Rewrites, Leaves
  <2>2. proc'[p].at \in {0, 1} /\ proc'[p].mine = {}
    BY <2>1, NoProcIs
  <2>3. OwnHolds(proc'[p], p, file', owner')
    BY <2>2, OwnedAtRest
  <2>4. owner["manifest"] = p
    BY <1>3, <1>5, <2>1 DEF OwnHolds
  <2>5. ListHolds(file', owner')
    BY <1>1, <1>3, <1>7, <2>1, <2>4 DEF ListHolds
  <2> QED BY <1>6, <2>3, <2>5, OutputHoldsIs
<1> QED BY <1>8, <1>9

\* An output is removed.
LEMMA OutputRemoved ==
  ASSUME TypeOK, OutputInvariant, NEW p \in Procs, NEW x \in Outputs, Removes(p, x)
  PROVE  OutputInvariant' /\ owner[x] = p
<1>1. /\ Failing(p) /\ x = NextToUndo(proc[p].mine) /\ proc[p].mine # {}
      /\ proc'[p].mine = proc[p].mine \ {x} /\ file'[x] = None /\ owner'[x] = None
      /\ \A y \in Files : y # x => file'[y] = file[y]
      /\ \A y \in Outputs : y # x => owner'[y] = owner[y]
      /\ proc'[p].at = proc[p].at /\ proc'[p].cmd = proc[p].cmd
      /\ \A i \in Procs : i # p => proc'[i] = proc[i]
  BY DEF Removes, Rewrites, Turn, Same
<1>2. OwnHolds(proc[p], p, file, owner) /\ ListHolds(file, owner)
      /\ proc[p].mine \subseteq {"lockcopy", "checksums", "manifest"}
  BY OutputHoldsIs, FileNames DEF TypeOK, Command
<1>3. \A i \in Procs : i # p => OwnHolds(proc'[i], i, file', owner')
  BY <1>1, OthersOwn
<1>4. x \in proc[p].mine
  BY <1>1, <1>2 DEF NextToUndo, OwnHolds
<1>5. Outputs = {"lockcopy", "checksums", "manifest"} /\ Outputs \subseteq Files
  BY FileNames
<1>6. x # "manifest" => "manifest" \notin proc[p].mine /\ owner["manifest"] = None
  BY <1>1, <1>2 DEF NextToUndo, OwnHolds
<1>7. x = "lockcopy" => "checksums" \notin proc[p].mine
  BY <1>1 DEF NextToUndo
<1>8. ListHolds(file', owner')
  BY <1>1, <1>2, <1>5, <1>6 DEF ListHolds
<1>9. OwnHolds(proc'[p], p, file', owner')
  <2> DEFINE q == proc'[p]
  <2>1. \A y : ~ReadAt(q, y)
    BY <1>1, ReadAtStep DEF Failing
  <2>2. q.cmd = "verify" => q.mine = {}
    BY <1>1, <1>2 DEF OwnHolds
  <2>3. \A y \in q.mine : owner'[y] = p
    BY <1>1, <1>2, <1>5 DEF OwnHolds
  <2>4. q.mine # {} => "lockcopy" \in q.mine /\ file'["lockcopy"] # None
    <3>1. x = "lockcopy" => q.mine = {}
      BY <1>1, <1>2, <1>6, <1>7
    <3>2. x # "lockcopy" => "lockcopy" \in q.mine /\ file'["lockcopy"] # None
      BY <1>1, <1>2, <1>5 DEF OwnHolds
    <3> QED BY <3>1, <3>2
  <2>5. owner'["manifest"] = None
    BY <1>1, <1>5, <1>6
  <2>6. "manifest" \notin q.mine
    BY <1>1, <1>6
  <2> HIDE DEF q
  <2> QED BY <2>1, <2>2, <2>3, <2>4, <2>5, <2>6 DEF OwnHolds, q
<1>10. owner[x] = p
  BY <1>2, <1>4 DEF OwnHolds
<1> QED BY <1>3, <1>8, <1>9, <1>10, OutputHoldsIs

\* The outputs appear and go in order, each by who created it.
LEMMA OutputStep ==
  ASSUME TypeOK, PhaseInvariant, OutputInvariant, [Next]_vars
  PROVE  OutputInvariant'
<1>0. Outputs = {"lockcopy", "checksums", "manifest"} /\ Outputs \subseteq Files
  BY FileNames
<1>1. StepEffect \/ UNCHANGED vars
  BY NextIs
<1>a. ListHolds(file, owner) /\ \A p \in Procs : OwnHolds(proc[p], p, file, owner)
  BY OutputHoldsIs
<1>b. ASSUME \A x \in Outputs : file'[x] = file[x], owner' = owner
      PROVE  /\ ListHolds(file', owner')
             /\ \A p \in Procs : OwnHolds(proc[p], p, file', owner')
  <2>1. file'["lockcopy"] = file["lockcopy"] /\ file'["checksums"] = file["checksums"]
    BY <1>0, <1>b
  <2>2. ListHolds(file', owner')
    BY <1>a, <1>b, <2>1 DEF ListHolds
  <2>3. \A p \in Procs : OwnHolds(proc[p], p, file', owner')
    BY <1>a, <1>b, <2>1 DEF OwnHolds
  <2> QED BY <2>2, <2>3
<1>c. ASSUME \A p \in Procs : ~Running(p), proc' = proc, \A x \in Outputs : file'[x] = None,
             owner' = [x \in Outputs |-> None]
      PROVE  OutputInvariant'
  <2>1. \A p \in Procs : OwnHolds(proc'[p], p, file', owner')
    <3>1. \A p \in Procs : proc[p].mine = {} /\ \A y : ~ReadAt(proc[p], y)
      BY <1>c, ReadRunning
    <3> QED BY <1>c, <3>1 DEF OwnHolds
  <2>2. \A x \in Outputs : owner'[x] = None
    BY <1>c
  <2>3. ListHolds(file', owner')
    BY <1>0, <1>c, <2>2 DEF ListHolds
  <2> QED BY <2>1, <2>3, OutputHoldsIs
<1>2. CASE Bundles
  <2>1. PICK p \in Procs : Effect(p)
    BY <1>2 DEF Bundles
  <2>2. \A i \in Procs : i # p => proc'[i] = proc[i]
    BY <2>1, EffectKeeps
  <2>3. CASE Stops(p) \/ Moves(p) \/ (\E x \in Listed : Reads(p, x)) \/ Verifies(p) \/ Drops(p)
    <3>1. file' = file /\ owner' = owner
      BY <2>3 DEF Stops, Moves, Reads, Verifies, Drops
    <3>2. OwnHolds(proc'[p], p, file, owner)
      <4>1. CASE Stops(p)
        <5>1. proc'[p].at \in {0, 1} /\ proc'[p].mine = proc[p].mine /\ proc'[p].cmd = proc[p].cmd
          BY <4>1 DEF Stops, Turn, Same
        <5>2. OwnHolds(proc[p], p, file, owner)
          BY <1>a
        <5>3. \A y : ~ReadAt(proc'[p], y)
          BY <5>1, ReadAtStep
        <5> QED BY <5>1, <5>2, <5>3 DEF OwnHolds
      <4>2. CASE Verifies(p) \/ Drops(p)
        <5>1. proc'[p].at \in {0, 1} /\ proc'[p].mine = {}
          BY <4>2, NoProcIs DEF Verifies, Drops, Leaves
        <5> QED BY <5>1, OwnedAtRest
      <4>3. CASE Moves(p) \/ \E x \in Listed : Reads(p, x)
        <5>1. PICK changed \in {{}, {"seen"}} : Onward(p, changed)
          BY <4>3 DEF Moves, Reads
        <5>2. /\ proc'[p].cmd = proc[p].cmd
              /\ \A y : ReadAt(proc'[p], y) <=> ReadAt(proc[p], y) \/ Step(p) = y
          BY <5>1, OnwardReads
        <5>3. Step(p) \notin Writing
          BY <4>3, StepNames DEF Moves, Reads
        <5>4. proc'[p].mine = proc[p].mine
          BY <5>1 DEF Onward, Turn, Same
        <5>5. \A y \in Writing : ReadAt(proc'[p], y) <=> ReadAt(proc[p], y)
          BY <5>2, <5>3
        <5> QED BY <1>a, <5>2, <5>4, <5>5 DEF OwnHolds, Writing
      <4> QED BY <2>3, <4>1, <4>2, <4>3
    <3> QED BY <1>a, <2>2, <3>1, <3>2, OutputHoldsIs
  <2> QED BY <2>1, <2>3, OutputWritten, OutputFilled, OutputRemoved DEF Effect
<1>3. CASE Builds
  <2>1. \A x \in Outputs : file'[x] = file[x]
    BY <1>3, BuildKeeps DEF Builds
  <2> QED BY <1>3, <1>b, <2>1, OutputHoldsIs DEF Builds
<1>4. CASE \E p \in Procs, cmd \in {"generate", "verify"} : Starts(p, cmd)
  <2>1. PICK p \in Procs, cmd \in {"generate", "verify"} : Starts(p, cmd)
    BY <1>4
  <2>2. /\ file' = file /\ owner' = owner /\ proc'[p].at = 1 /\ proc'[p].mine = {}
        /\ \A i \in Procs : i # p => Same(proc[i], proc'[i], {"alone"})
    BY <2>1 DEF Starts
  <2>3. OwnHolds(proc'[p], p, file, owner)
    <3>1. proc'[p].at \in {0, 1}
      BY <2>2
    <3> QED BY <2>2, <3>1, OwnedAtRest
  <2>4. \A i \in Procs : i # p => OwnHolds(proc'[i], i, file, owner)
    <3> SUFFICES ASSUME NEW i \in Procs, i # p
                 PROVE  OwnHolds(proc'[i], i, file, owner)
      OBVIOUS
    <3>1. proc'[i].cmd = proc[i].cmd /\ proc'[i].at = proc[i].at /\ proc'[i].mine = proc[i].mine
      BY <2>2 DEF Same
    <3>2. \A x : ReadAt(proc'[i], x) <=> ReadAt(proc[i], x)
      BY <3>1, ReadAtStep
    <3> QED BY <1>a, <3>1, <3>2 DEF OwnHolds
  <2> QED BY <1>a, <2>2, <2>3, <2>4, OutputHoldsIs
<1>5. CASE Freshens
  <2>1. (\A x \in Outputs : file'[x] = file[x]) /\ owner' = owner /\ proc' = proc
    BY <1>5 DEF Freshens
  <2> QED BY <1>b, <2>1, OutputHoldsIs
<1>6. CASE Clears
  BY <1>6, <1>c DEF Clears
<1>7. CASE Restarts
  <2>1. \A x \in Outputs : file'[x] = None
    BY <1>7, FileNames DEF Restarts
  <2> QED BY <1>7, <1>c, <2>1 DEF Restarts
<1>8. CASE UNCHANGED vars
  BY <1>a, <1>8, OutputHoldsIs DEF vars
<1> QED BY <1>1, <1>2, <1>3, <1>4, <1>5, <1>6, <1>7, <1>8 DEF StepEffect

-----------------------------------------------------------------------------
(* A verification that runs alone.                                         *)

\* What the command has found of the manifest, in a directory f.
MomentHolds(r, f) ==
  /\ ReadAt(r, "present") => f["manifest"] # None
  /\ r.cmd = "verify" /\ f["manifest"] \notin {None, Partial} =>
        \A x \in Listed :
           r.start[x] # f["manifest"][x] =>
              f[x] # f["manifest"][x] /\ (ReadAt(r, x) => r.seen[x] # f["manifest"][x])

\* It is what the invariant says of a command that runs alone.
LEMMA MomentHoldsIs ==
  /\ MomentInvariant <=>
        \A p \in Procs : Running(p) /\ proc[p].alone =>
           (\A q \in Procs : q # p => ~Running(q)) /\ MomentHolds(proc[p], file)
  /\ MomentInvariant' <=>
        \A p \in Procs : proc'[p].cmd # None /\ proc'[p].alone =>
           (\A q \in Procs : q # p => proc'[q].cmd = None) /\ MomentHolds(proc'[p], file')
<1>1. MomentInvariant <=>
        \A p \in Procs : Running(p) /\ proc[p].alone =>
           (\A q \in Procs : q # p => ~Running(q)) /\ MomentHolds(proc[p], file)
  BY ReadAtIs DEF MomentInvariant, MomentHolds
<1>2. MomentInvariant' <=>
        \A p \in Procs : proc'[p].cmd # None /\ proc'[p].alone =>
           (\A q \in Procs : q # p => proc'[q].cmd = None) /\ MomentHolds(proc'[p], file')
  BY ReadAtIs DEF MomentInvariant, MomentHolds, Running
<1> QED BY <1>1, <1>2

\* A step of the command that runs alone.
LEMMA MomentEffect ==
  ASSUME TypeOK, PhaseInvariant, OutputInvariant, NEW p \in Procs, Effect(p),
         MomentHolds(proc[p], file), proc'[p].cmd # None
  PROVE  MomentHolds(proc'[p], file')
<1>0. "manifest" \in Files /\ "checksums" \in Files /\ Listed \subseteq Files
      /\ "present" \notin Listed \cup Writing
  BY FileNames DEF Writing
<1>1. CASE Stops(p)
  <2>1. /\ proc'[p].at = 0 /\ proc'[p].cmd = proc[p].cmd /\ proc'[p].start = proc[p].start
        /\ file' = file
    BY <1>1 DEF Stops, Turn, Same
  <2>2. \A x : ~ReadAt(proc'[p], x)
    BY <2>1, ReadAtStep
  <2> QED BY <2>1, <2>2 DEF MomentHolds
<1>2. CASE Moves(p)
  <2>1. /\ Onward(p, {}) /\ Step(p) \notin Listed /\ file' = file
        /\ Step(p) = "present" => file["manifest"] # None
    BY <1>2 DEF Moves
  <2>2. proc'[p].start = proc[p].start /\ proc'[p].seen = proc[p].seen
    BY <2>1 DEF Onward, Turn, Same
  <2>3. /\ proc'[p].cmd = proc[p].cmd
        /\ \A x : ReadAt(proc'[p], x) <=> ReadAt(proc[p], x) \/ Step(p) = x
    BY <2>1, OnwardReads
  <2> QED BY <2>1, <2>2, <2>3 DEF MomentHolds
<1>3. CASE \E x \in Listed : Reads(p, x)
  <2>1. PICK x \in Listed : Reads(p, x)
    BY <1>3
  <2>2. /\ Onward(p, {"seen"}) /\ Step(p) = x /\ proc'[p].seen[x] = file[x] /\ file' = file
        /\ \A y \in Listed : y # x => proc'[p].seen[y] = proc[p].seen[y]
    BY <2>1 DEF Reads
  <2>3. proc'[p].start = proc[p].start
    BY <2>2 DEF Onward, Turn, Same
  <2>4. /\ proc'[p].cmd = proc[p].cmd
        /\ \A y : ReadAt(proc'[p], y) <=> ReadAt(proc[p], y) \/ Step(p) = y
    BY <2>2, OnwardReads
  <2>5. ReadAt(proc'[p], "present") => ReadAt(proc[p], "present")
    BY <1>0, <2>2, <2>4
  <2>6. ASSUME proc[p].cmd = "verify", file["manifest"] \notin {None, Partial},
               NEW y \in Listed, proc[p].start[y] # file["manifest"][y]
        PROVE  /\ file[y] # file["manifest"][y]
               /\ ReadAt(proc'[p], y) => proc'[p].seen[y] # file["manifest"][y]
    <3>1. /\ file[y] # file["manifest"][y]
          /\ ReadAt(proc[p], y) => proc[p].seen[y] # file["manifest"][y]
      BY <2>6 DEF MomentHolds
    <3>2. CASE y = x
      BY <2>2, <3>1, <3>2
    <3>3. CASE y # x
      BY <2>2, <2>4, <3>1, <3>3
    <3> QED BY <3>2, <3>3
  <2> QED BY <2>2, <2>3, <2>4, <2>5, <2>6 DEF MomentHolds
<1>4. CASE (\E x \in Outputs : Writes(p, x)) \/ Fills(p)
  <2>1. \E changed \in {{}, {"mine"}} : Onward(p, changed)
    BY <1>4 DEF Writes, Fills
  <2>2. Running(p) /\ proc[p].at \in Positions(p) /\ Step(p) \in Writing
        /\ (ReadAt(proc[p], "present") /\ file["manifest"] # None => file'["manifest"] # None)
    <3>1. CASE Fills(p)
      BY <1>0, <3>1 DEF Fills, Onward, Writing, Rewrites
    <3>2. CASE \E x \in Outputs : Writes(p, x)
      <4>1. PICK x \in Outputs : Writes(p, x)
        BY <3>2
      <4>2. x \in {"lockcopy", "checksums", "manifest"}
        BY FileNames
      <4>3. Running(p) /\ proc[p].at \in Positions(p) /\ Step(p) \in Writing
        BY <4>1, <4>2 DEF Writes, Onward, Writing
      <4>4. file["manifest"] # None => file'["manifest"] = file["manifest"]
        BY <1>0, <4>1 DEF Writes, Rewrites
      <4> QED BY <4>3, <4>4
    <3> QED BY <1>4, <3>1, <3>2
  <2>3. Command(proc[p], edits) /\ proc[p].cmd # None
    BY <2>2 DEF TypeOK, Running
  <2>4. proc[p].cmd = "generate"
    BY <2>2, <2>3, WriteOrder DEF Step, Positions
  <2>5. /\ proc'[p].cmd = proc[p].cmd
        /\ \A x : ReadAt(proc'[p], x) <=> ReadAt(proc[p], x) \/ Step(p) = x
    BY <2>1, OnwardReads
  <2>6. ReadAt(proc'[p], "present") => ReadAt(proc[p], "present")
    BY <1>0, <2>2, <2>5
  <2> QED BY <2>2, <2>4, <2>5, <2>6 DEF MomentHolds
<1>5. CASE Generates(p) \/ Verifies(p) \/ Drops(p)
  BY <1>5, NoProcIs DEF Generates, Verifies, Drops, Leaves
<1>6. CASE \E x \in Outputs : Removes(p, x)
  <2>1. proc'[p].at = 0 /\ proc[p].mine # {} /\ proc'[p].cmd = proc[p].cmd
    BY <1>6 DEF Removes, Failing, Turn, Same
  <2>2. proc[p].cmd # "verify"
    BY <2>1, OutputHoldsIs DEF OwnHolds
  <2>3. ~ReadAt(proc'[p], "present")
    BY <2>1, ReadAtStep
  <2> QED BY <2>1, <2>2, <2>3 DEF MomentHolds
<1> QED BY <1>1, <1>2, <1>3, <1>4, <1>5, <1>6 DEF Effect

\* What a lone verification began with and differs stays different.
LEMMA MomentStep ==
  ASSUME TypeOK, PhaseInvariant, OutputInvariant, MomentInvariant, [Next]_vars
  PROVE  MomentInvariant'
<1>1. StepEffect \/ UNCHANGED vars
  BY NextIs
<1>a. \A p \in Procs : Running(p) /\ proc[p].alone =>
         (\A q \in Procs : q # p => ~Running(q)) /\ MomentHolds(proc[p], file)
  BY MomentHoldsIs
<1>2. CASE Bundles
  <2>1. PICK p \in Procs : Effect(p)
    BY <1>2 DEF Bundles
  <2>2. Running(p) /\ \A i \in Procs : i # p => proc'[i] = proc[i]
    BY <2>1, EffectKeeps
  <2>3. proc'[p].cmd # None => proc'[p].alone = proc[p].alone
    <3>1. CASE Generates(p) \/ Verifies(p) \/ Drops(p)
      BY <3>1, NoProcIs DEF Generates, Verifies, Drops, Leaves
    <3>2. CASE Stops(p) \/ Moves(p) \/ (\E x \in Listed : Reads(p, x)) \/ Fills(p)
      BY <3>2 DEF Stops, Moves, Reads, Fills, Onward, Turn, Same
    <3>3. CASE (\E x \in Outputs : Writes(p, x)) \/ (\E x \in Outputs : Removes(p, x))
      BY <3>3 DEF Writes, Removes, Onward, Turn, Same
    <3> QED BY <2>1, <3>1, <3>2, <3>3 DEF Effect
  <2>4. \A i \in Procs : i # p /\ Running(i) => ~proc[i].alone
    BY <1>a, <2>2
  <2>5. \A i \in Procs : i # p => ~(proc'[i].cmd # None /\ proc'[i].alone)
    BY <2>2, <2>4 DEF Running
  <2>6. ASSUME proc'[p].cmd # None, proc'[p].alone
        PROVE  (\A q \in Procs : q # p => proc'[q].cmd = None) /\ MomentHolds(proc'[p], file')
    <3>1. proc[p].alone
      BY <2>3, <2>6
    <3>2. (\A q \in Procs : q # p => ~Running(q)) /\ MomentHolds(proc[p], file)
      BY <1>a, <2>2, <3>1
    <3>3. MomentHolds(proc'[p], file')
      BY <2>1, <2>6, <3>2, MomentEffect
    <3>4. \A q \in Procs : q # p => proc'[q].cmd = None
      BY <2>2, <3>2 DEF Running
    <3> QED BY <3>3, <3>4
  <2> QED BY <2>5, <2>6, MomentHoldsIs
<1>3. CASE Builds \/ Clears \/ Restarts
  <2>1. \A p \in Procs : ~Running(p) /\ proc' = proc
    BY <1>3, EarlyIs DEF Builds, Clears, Restarts
  <2> QED BY <2>1, MomentHoldsIs DEF Running
<1>4. CASE \E p \in Procs, cmd \in {"generate", "verify"} : Starts(p, cmd)
  <2>1. PICK p \in Procs, cmd \in {"generate", "verify"} : Starts(p, cmd)
    BY <1>4
  <2>2. /\ file' = file /\ proc'[p].at = 1 /\ proc'[p].cmd = cmd
        /\ cmd = "verify" => \A x \in Listed : proc'[p].start[x] = file[x]
        /\ proc'[p].alone => \A i \in Procs : ~Running(i)
        /\ \A i \in Procs : i # p => proc'[i].cmd = proc[i].cmd
        /\ \A i \in Procs : i # p /\ Running(i) => ~proc'[i].alone
    BY <2>1 DEF Starts, Same
  <2>3. MomentHolds(proc'[p], file')
    <3>1. \A x : ~ReadAt(proc'[p], x)
      BY <2>2, ReadAtStep
    <3> QED BY <2>2, <3>1 DEF MomentHolds
  <2>4. proc'[p].alone => \A q \in Procs : q # p => proc'[q].cmd = None
    BY <2>2 DEF Running
  <2>5. \A i \in Procs : i # p => ~(proc'[i].cmd # None /\ proc'[i].alone)
    BY <2>2 DEF Running
  <2> QED BY <2>3, <2>4, <2>5, MomentHoldsIs
<1>5. CASE Freshens
  <2>1. /\ proc' = proc /\ file'["manifest"] = file["manifest"]
        /\ \A x \in Files : file'[x] = file[x] \/ file'[x] \notin OrNone(Content(x, edits))
    BY <1>5, FileNames DEF Freshens
  <2>2. \A r : MomentHolds(r, file) => MomentHolds(r, file')
    <3> SUFFICES ASSUME NEW r, MomentHolds(r, file)
                 PROVE  MomentHolds(r, file')
      OBVIOUS
    <3>1. ASSUME r.cmd = "verify", file["manifest"] \notin {None, Partial}, NEW x \in Listed,
                 r.start[x] # file["manifest"][x]
          PROVE  /\ file'[x] # file["manifest"][x]
                 /\ ReadAt(r, x) => r.seen[x] # file["manifest"][x]
      <4>1. /\ file[x] # file["manifest"][x]
            /\ ReadAt(r, x) => r.seen[x] # file["manifest"][x]
        BY <3>1 DEF MomentHolds
      <4>2. file["manifest"][x] \in OrNone(Content(x, edits))
        BY <3>1 DEF TypeOK, Directory, Listing
      <4>3. x \in Files
        BY FileNames
      <4> QED BY <2>1, <4>1, <4>2, <4>3
    <3> QED BY <2>1, <3>1 DEF MomentHolds
  <2> QED BY <1>a, <2>1, <2>2, MomentHoldsIs DEF Running
<1>6. CASE UNCHANGED vars
  BY <1>a, <1>6, MomentHoldsIs DEF vars, Running
<1> QED BY <1>1, <1>2, <1>3, <1>4, <1>5, <1>6 DEF StepEffect

-----------------------------------------------------------------------------
(* The theorems.                                                           *)

\* All of the inductive invariants together.
BuildInvariant ==
  /\ TypeOK /\ PhaseInvariant /\ MakeInvariant /\ SeenInvariant /\ OutputInvariant
  /\ MomentInvariant

\* At the beginning there are only the sources.
LEMMA InitHolds ==
  ASSUME Init
  PROVE  BuildInvariant
<1>1. /\ file = [x \in Files |-> IF x \in Sources THEN 0 ELSE None]
      /\ owner = [x \in Outputs |-> None] /\ make = NoMake
      /\ proc = [p \in Procs |-> NoProc]
      /\ edits = 0 /\ runs = 0 /\ fails = 0 /\ profile \in Profiles
  BY DEF Init
<1>2. /\ file = [x \in Files |-> file[x]]
      /\ \A x \in Files : file[x] = IF x \in Sources THEN 0 ELSE None
      /\ \A x \in Outputs : owner[x] = None
  BY <1>1
<1>3. \A p \in Procs : proc[p] = NoProc /\ ~Running(p) /\ proc[p].at = 0 /\ proc[p].mine = {}
  BY <1>1, NoProcIs DEF Running
<1>4. Directory(file, edits)
  <2>1. 0 \in Marks(edits)
    BY <1>1 DEF Marks
  <2>2. \A x \in Sources : file[x] \in Content(x, edits)
    BY <1>2, <2>1, ContentIs, FileNames
  <2>3. \A x \in Files \ {"manifest"} : file[x] \in OrNone(Content(x, edits))
    BY <1>2, <2>2 DEF OrNone
  <2>4. file["manifest"] = None
    BY <1>2, FileNames
  <2> QED BY <1>2, <2>2, <2>3, <2>4 DEF Directory
<1>5. make.at = "idle" /\ make \in MakeRecords(edits)
  <2>1. make = [at |-> "idle", setup |-> None, package |-> None]
    BY <1>1 DEF NoMake
  <2>2. None \in OrNone(Setups(edits)) /\ None \in OrNone(Packages(edits))
    BY DEF OrNone
  <2> QED BY <2>1, <2>2 DEF MakeRecords
<1>6. TypeOK
  <2>1. owner \in [Outputs -> Procs \cup {None}]
    BY <1>1
  <2>2. edits \in 0 .. MaxEdits /\ runs \in 0 .. MaxRuns /\ fails \in 0 .. MaxFails
    BY <1>1, BoundsAssumption
  <2>3. \A p \in Procs : Command(proc[p], edits)
    BY <1>3, NoProcIs
  <2>4. proc = [p \in Procs |-> proc[p]]
    <3> HIDE DEF NoProc
    <3> QED BY <1>1
  <2> QED BY <1>1, <1>4, <1>5, <2>1, <2>2, <2>3, <2>4 DEF TypeOK, MakeRecords
<1>7. PhaseInvariant
  <2>1. file["keys"] = None /\ \A x \in Outputs : file[x] = None /\ owner[x] = None
    BY <1>2, FileNames
  <2> QED BY <1>3, <1>5, <2>1 DEF PhaseInvariant, Procs
<1>8. MakeInvariant
  <2>1. make.at \notin Complied /\ make.at \notin Installed /\ make.at \notin Witnessed
        /\ make.at \notin Attested
    BY <1>5, PipelineSets, CompliedIs
  <2> QED BY <1>5, <2>1 DEF MakeInvariant
<1>9. \A p \in Procs : \A x : ~ReadAt(proc[p], x)
  BY <1>3, ReadAtStep
<1>10. SeenInvariant
  BY <1>9, SeenHoldsIs DEF SeenHolds
<1>11. ListHolds(file, owner)
  BY <1>2, FileNames DEF ListHolds
<1>12. OutputInvariant
  BY <1>3, <1>9, <1>11, OutputHoldsIs DEF OwnHolds
<1>13. MomentInvariant
  BY <1>3, MomentHoldsIs
<1> QED BY <1>6, <1>7, <1>8, <1>10, <1>11, <1>12, <1>13 DEF BuildInvariant

\* Every step keeps them.
LEMMA BuildStep ==
  ASSUME BuildInvariant, [Next]_vars
  PROVE  BuildInvariant'
<1>1. TypeOK' /\ PhaseInvariant'
  BY TypeStep, PhaseStep DEF BuildInvariant
<1>2. MakeInvariant' /\ SeenInvariant'
  BY MakeStep, SeenStep DEF BuildInvariant
<1>3. OutputInvariant' /\ MomentInvariant'
  BY OutputStep, MomentStep DEF BuildInvariant
<1> QED BY <1>1, <1>2, <1>3 DEF BuildInvariant

\* The inductive invariants of the release build hold in every reachable state:
\* make-windows.mjs and the bundle's commands keep their phases, the maker's
\* evidence is about an installer of this build, a command has read the records as
\* they are, and outputs appear and go in order.
THEOREM BuildInvariantHolds == Spec => []BuildInvariant
<1>1. Init => BuildInvariant
  BY InitHolds
<1>2. BuildInvariant /\ [Next]_vars => BuildInvariant'
  BY BuildStep
<1> QED BY <1>1, <1>2, PTL DEF Spec

\* What a bundle that just verified says.
LEMMA VerifiedIs ==
  ASSUME BuildInvariant, NEW p \in Procs, Verifies(p)
  PROVE  /\ file["manifest"] = proc[p].seen /\ proc[p].cmd = "verify" /\ Running(p)
         /\ Listing(proc[p].seen, edits) /\ Listing(proc[p].start, edits)
         /\ ReadAt(proc[p], "present") /\ \A x \in Listed : ReadAt(proc[p], x)
<1>1. TypeOK
  BY DEF BuildInvariant
<1>2. /\ Running(p) /\ proc[p].at \in Positions(p) /\ Step(p) = "compare"
      /\ file["manifest"] = proc[p].seen
  BY DEF Verifies, Leaves
<1>3. proc[p].cmd \in {"generate", "verify"} /\ Command(proc[p], edits)
  BY <1>1, <1>2 DEF TypeOK, Command, Running
<1>4. proc[p].cmd = "verify" /\ proc[p].at = 14
  BY <1>2, <1>3, LastSteps DEF Step, Positions
<1>5. \A x \in Listed : ReadAt(proc[p], x)
  <2>1. 1 .. proc[p].at - 1 = 1 .. 13
    BY <1>4
  <2> QED BY <1>4, <2>1, ReadAll DEF ReadAt
<1>6. ReadAt(proc[p], "present")
  <2>1. 1 \in 1 .. proc[p].at - 1
    BY <1>4
  <2> QED BY <1>4, <2>1, VerifySteps DEF ReadAt
<1> QED BY <1>2, <1>3, <1>4, <1>5, <1>6 DEF Command

\* A lone verification finds one moment.
LEMMA OneMoment ==
  ASSUME BuildInvariant, NEW p \in Procs, Verifies(p), proc[p].alone
  PROVE  proc[p].seen = proc[p].start
<1>1. /\ file["manifest"] = proc[p].seen /\ proc[p].cmd = "verify" /\ Running(p)
      /\ Listing(proc[p].seen, edits) /\ Listing(proc[p].start, edits)
      /\ ReadAt(proc[p], "present") /\ \A x \in Listed : ReadAt(proc[p], x)
  BY VerifiedIs
<1>2. MomentHolds(proc[p], file)
  BY <1>1, MomentHoldsIs DEF BuildInvariant
<1> DEFINE s == proc[p].seen
<1> DEFINE t == proc[p].start
<1>3. s # None /\ s # Partial
  <2>1. s # None
    BY <1>1, <1>2 DEF MomentHolds
  <2>2. s = [x \in Listed |-> s[x]]
    BY <1>1 DEF Listing
  <2>3. DOMAIN s = Listed /\ DOMAIN Partial = {"partial"}
    <3>1. DOMAIN s = Listed
      <4> HIDE DEF s
      <4> QED BY <2>2
    <3> QED BY <3>1 DEF Partial
  <2>4. "project" \in Listed /\ "project" \notin {"partial"}
    BY FileNames
  <2> HIDE DEF s
  <2> QED BY <2>1, <2>3, <2>4
<1>4. \A x \in Listed : s[x] = t[x]
  BY <1>1, <1>2, <1>3 DEF MomentHolds
<1>5. s = [x \in Listed |-> s[x]] /\ t = [x \in Listed |-> t[x]]
  BY <1>1 DEF Listing
<1> HIDE DEF s, t
<1>6. s = t
  BY <1>4, <1>5
<1> QED BY <1>6 DEF s, t

\* What the build itself verified is what its evidence describes.
LEMMA ShippedManifest ==
  ASSUME BuildInvariant, Verifies("make")
  PROVE  LET m == proc["make"].seen IN
         /\ m["package"].entries.payload = m["sbom"].payload
         /\ m["package"].entries.sbom = m["sbom"]
         /\ m["setup"].embeds = m["package"]
         /\ m["setup"].inputs = PinnedInputs
<1> DEFINE p == "make"
<1>1. p \in Procs /\ Verifies(p)
  BY DEF Procs
<1>2. /\ Running(p) /\ proc[p].cmd = "verify" /\ \A x \in Listed : ReadAt(proc[p], x)
  BY <1>1, VerifiedIs
<1>3. make.at = "verify"
  BY <1>2 DEF BuildInvariant, PhaseInvariant
<1>4. make.at \in Witnessed /\ make.at \in Attested
  BY <1>3, PipelineSets
<1>5. SeenHolds(proc[p], file["evidence"], file["sbom"])
  BY <1>1, SeenHoldsIs DEF BuildInvariant
<1>6. {"evidence", "sbom", "setup", "package"} \subseteq Listed
  BY FileNames
<1>7. /\ proc[p].seen["sbom"] = file["sbom"]
      /\ proc[p].seen["setup"] = file["evidence"]["setup"]
      /\ proc[p].seen["package"] = file["evidence"]["package"]
  BY <1>2, <1>5, <1>6 DEF SeenHolds
<1>8. LET e == file["evidence"] IN
      /\ Descends(e.setup) /\ e.setup.inputs = PinnedInputs /\ e.setup.embeds = e.package
      /\ e.setup.embeds.entries.payload = file["sbom"].payload
  BY <1>4 DEF BuildInvariant, MakeInvariant
<1> QED BY <1>7, <1>8 DEF Descends

\* What has just verified, in any step.
LEMMA VerdictIs ==
  ASSUME BuildInvariant, [Next]_vars
  PROVE  \/ verdict' = verdict \/ verdict' = None
         \/ \E p \in Procs : Verifies(p)
<1>1. StepEffect \/ UNCHANGED vars
  BY NextIs DEF BuildInvariant
<1>2. CASE Bundles
  BY <1>2, EffectKeeps DEF Bundles, BuildInvariant
<1> QED BY <1>1, <1>2 DEF StepEffect, Builds, Starts, Freshens, Clears, Restarts, vars

\* A bundle that verifies with no other command beside it describes one moment: what
\* is listed lay there, all of it together, when verifyReleaseBundle began.
THEOREM VerifiedIsAlwaysOneMoment == Spec => []VerifiedIsOneMoment
<1>1. Init => VerifiedIsOneMoment
  BY DEF Init, VerifiedIsOneMoment
<1>2. ASSUME BuildInvariant, VerifiedIsOneMoment, [Next]_vars
      PROVE  VerifiedIsOneMoment'
  <2>1. CASE verdict' = verdict \/ verdict' = None
    BY <1>2, <2>1 DEF VerifiedIsOneMoment
  <2>2. CASE \E p \in Procs : Verifies(p)
    <3>1. PICK p \in Procs : Verifies(p)
      BY <2>2
    <3>2. /\ verdict'.manifest = proc[p].seen /\ verdict'.start = proc[p].start
          /\ verdict'.alone = proc[p].alone
      BY <3>1 DEF Verifies
    <3>3. proc[p].alone => proc[p].seen = proc[p].start
      BY <1>2, <3>1, OneMoment
    <3> QED BY <3>2, <3>3 DEF VerifiedIsOneMoment
  <2> QED BY <1>2, <2>1, <2>2, VerdictIs
<1>3. BuildInvariant /\ VerifiedIsOneMoment /\ [Next]_vars => VerifiedIsOneMoment'
  BY <1>2
<1> QED BY <1>1, <1>3, BuildInvariantHolds, PTL DEF Spec

\* What the build verified is what its evidence describes: the package carries the
\* payload its SBOM lists, and Setup.exe embeds that package and comes from the
\* pinned electron-winstaller.
THEOREM ShippedIsAlwaysListed == Spec => []ShippedIsListed
<1>1. Init => ShippedIsListed
  BY DEF Init, ShippedIsListed
<1>2. ASSUME BuildInvariant, ShippedIsListed, [Next]_vars
      PROVE  ShippedIsListed'
  <2>1. CASE verdict' = verdict \/ verdict' = None
    BY <1>2, <2>1 DEF ShippedIsListed
  <2>2. CASE \E p \in Procs : Verifies(p)
    <3>1. PICK p \in Procs : Verifies(p)
      BY <2>2
    <3>2. verdict'.manifest = proc[p].seen /\ verdict'.by = p
      BY <3>1 DEF Verifies
    <3>3. CASE p = "make"
      <4>1. LET m == proc[p].seen IN
            /\ m["package"].entries.payload = m["sbom"].payload
            /\ m["package"].entries.sbom = m["sbom"]
            /\ m["setup"].embeds = m["package"]
            /\ m["setup"].inputs = PinnedInputs
        BY <1>2, <3>1, <3>3, ShippedManifest
      <4> QED BY <3>2, <4>1 DEF ShippedIsListed
    <3>4. CASE p # "make"
      BY <3>2, <3>4 DEF ShippedIsListed
    <3> QED BY <3>3, <3>4
  <2> QED BY <1>2, <2>1, <2>2, VerdictIs
<1>3. BuildInvariant /\ ShippedIsListed /\ [Next]_vars => ShippedIsListed'
  BY <1>2
<1> QED BY <1>1, <1>3, BuildInvariantHolds, PTL DEF Spec

\* A directory with a manifest has the checksums and the lockfile of the same run,
\* whatever generation failed or was killed before.
THEOREM ManifestIsAlwaysLast == Spec => []ManifestIsLast
<1>1. BuildInvariant => ManifestIsLast
  BY FileNames DEF BuildInvariant, OutputInvariant, ManifestIsLast
<1> QED BY <1>1, BuildInvariantHolds, PTL

\* generateReleaseBundle removes only what it created: an output that a command takes
\* away after a failure is its own.
THEOREM OwnOutputsOnly == Spec => OnlyOwnOutputsRemoved
<1>1. ASSUME BuildInvariant, NEW p \in Procs, NEW x \in Outputs,
             Undo(p), file[x] # None, file'[x] = None
      PROVE  owner[x] = p
  <2>1. Drops(p) \/ \E y \in Outputs : Removes(p, y)
    BY <1>1, UndoIs DEF BuildInvariant
  <2>2. ~Drops(p)
    BY <1>1 DEF Drops
  <2>3. PICK y \in Outputs : Removes(p, y)
    BY <2>1, <2>2
  <2>4. y = x
    <3>1. x \in Files
      BY FileNames
    <3> QED BY <1>1, <2>3, <3>1 DEF Removes, Rewrites
  <2> QED BY <1>1, <2>3, <2>4, OutputRemoved DEF BuildInvariant
<1>2. BuildInvariant => \A p \in Procs, x \in Outputs :
                           Undo(p) /\ file[x] # None /\ file'[x] = None => owner[x] = p
  BY <1>1
<1> QED BY <1>2, BuildInvariantHolds, PTL DEF OnlyOwnOutputsRemoved
=============================================================================
