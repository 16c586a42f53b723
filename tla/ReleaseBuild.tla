---------------------------- MODULE ReleaseBuild ----------------------------
(***************************************************************************)
(* How a Windows candidate is built and bound to its evidence:             *)
(* make-windows.mjs packages the application, records and checks its       *)
(* compliance files, makes the installer, smoke-tests it and then has      *)
(* release-bundle.mjs generate and verify a bundle; the bundle's commands  *)
(* can also be run by hand.  Nothing is locked: between any two reads the  *)
(* sources and the build may change, every tool may fail or be killed, and *)
(* two bundle commands may run at once.                                    *)
(*                                                                         *)
(* A file is its content, a digest the content it was computed over; an    *)
(* edit always brings a content that was not there before.  One letter of  *)
(* abstraction per name: "project" stands for the package manifests, the   *)
(* lockfile and the licence files, "package" for the .nupkg with RELEASES, *)
(* "setup" for Setup.exe, "inputs" for the electron-winstaller package.    *)
(***************************************************************************)
EXTENDS Naturals, Sequences, FiniteSets

CONSTANTS
    Profiles,   \* the release profiles a build may have
    MaxEdits,   \* how often a file is edited
    MaxRuns,    \* how many bundle commands are run
    MaxFails,   \* how many steps fail or are killed
    None

ASSUME ProfilesAssumption == Profiles \subseteq {"developer-alpha", "public"}
ASSUME BoundsAssumption == {MaxEdits, MaxRuns, MaxFails} \subseteq Nat

VARIABLES
    profile,   \* resolveReleaseProfile()
    file,      \* the content of every file, None where there is none
    owner,     \* who wrote each output of the bundle (history)
    make,      \* the run of make-windows: its step and what it has read
    proc,      \* the bundle commands under way
    verdict,   \* what just verified, with the files when that began (history)
    edits, runs, fails

vars == <<profile, file, owner, make, proc, verdict, edits, runs, fails>>

Sources == {"project", "commit", "inputs"}
Built   == {"payload", "setup", "package"}
Records == {"sbom", "sums", "evidence", "keys"}
Outputs == {"lockcopy", "checksums", "manifest"}
Files   == Sources \cup Built \cup Records \cup Outputs

\* Who runs bundle commands: the build itself, and a person at a prompt.
Procs == {"make", "person"}

\* The electron-winstaller package the repository pins, and the content of a
\* file that has been opened and not yet written.
PinnedInputs == 0
Partial == [partial |-> TRUE]

\* Squirrel's products, as far as they are compared; two packages made of the
\* same entries still differ, by the times in them.
Setup(inputs, package) == [inputs |-> inputs, embeds |-> package]
Package(entries, made) == [entries |-> entries, made |-> made]

\* What a file may contain after `e` edits.
Marks(e) == 0 .. e
OrNone(S) == S \cup {None}
Boms(e) == [payload : OrNone(Marks(e))]
SumFiles(e) == [payload : OrNone(Marks(e)), sbom : OrNone(Boms(e))]
EntrySets(e) == [payload : OrNone(Marks(e)), sbom : OrNone(Boms(e)),
                 sums : OrNone(SumFiles(e))]
Packages(e) == [entries : EntrySets(e), made : Marks(e)]
Setups(e) == [inputs : Marks(e), embeds : Packages(e)]
Evidences(e) == [setup : OrNone(Setups(e)), package : OrNone(Packages(e))]
Checksums(e) ==
    [setup : OrNone(Setups(e)), package : OrNone(Packages(e)),
     evidence : OrNone(Evidences(e)), lockcopy : OrNone(Marks(e)),
     keys : OrNone({0}), sbom : OrNone(Boms(e)), sums : OrNone(SumFiles(e))]
Content(x, e) ==
    CASE x \in Sources \cup {"payload", "lockcopy"} -> Marks(e)
      [] x = "setup" -> Setups(e)
      [] x = "package" -> Packages(e)
      [] x = "sbom" -> Boms(e)
      [] x = "sums" -> SumFiles(e)
      [] x = "evidence" -> Evidences(e)
      [] x = "keys" -> {0}
      [] x = "checksums" -> {Partial} \cup Checksums(e)

ASSUME NoneAssumption ==
    /\ None \notin Procs \cup {"generate", "verify"}
    /\ \A e \in 0 .. MaxEdits :
          /\ None \notin Marks(e) /\ None \notin Checksums(e)
          /\ None \notin Packages(e) /\ None \notin Setups(e)

-----------------------------------------------------------------------------
Pipeline ==
    <<"inputs", "package", "comply", "comply-sums", "attest", "attest-sums",
      "reinputs", "make", "smoke-package", "smoke-payload",
      "provenance-inputs", "provenance-setup", "provenance-package",
      "evidence", "runtime", "smoke-attest", "smoke-sums", "keys",
      "generate", "verify", "done">>

Render ==
    <<"project", "evidence", "setup", "package", "commit", "resetup",
      "reevidence", "lockcopy", "keys", "sbom", "sums">>

Steps(cmd) ==
    IF cmd = "generate"
    THEN <<"absent", "copy">> \o Render
         \o <<"checksums", "fill-checksums", "manifest", "fill-manifest">>
    ELSE <<"present", "lock">> \o Render \o <<"compare">>

\* What a manifest lists.
Listed == {"project", "commit", "setup", "package", "evidence",
           "lockcopy", "keys", "sbom", "sums"}

Blank == [x \in Listed |-> None]
NoProc == [cmd |-> None, at |-> 0, seen |-> Blank, mine |-> {},
           start |-> Blank, alone |-> TRUE]
NoMake == [at |-> "idle", setup |-> None, package |-> None]

ManifestOf(seen) == seen
ChecksumsOf(seen) ==
    [setup |-> seen["setup"], package |-> seen["package"], evidence |-> seen["evidence"],
     lockcopy |-> seen["lockcopy"], keys |-> seen["keys"], sbom |-> seen["sbom"],
     sums |-> seen["sums"]]

Init ==
    /\ profile \in Profiles
    /\ file = [x \in Files |-> IF x \in Sources THEN 0 ELSE None]
    /\ owner = [x \in Outputs |-> None]
    /\ make = NoMake
    /\ proc = [p \in Procs |-> NoProc]
    /\ verdict = None
    /\ edits = 0 /\ runs = 0 /\ fails = 0

\* The files of the packaged directory that the compliance tool inventories,
\* the SBOM it renders from them, and the checksums over them and the SBOM.
Inventory == file["payload"]
Spdx(payload) == [payload |-> payload]
Sums(payload, sbom) == [payload |-> payload, sbom |-> sbom]

\* The packaged directory with its compliance files, which a package holds.
Entries == [payload |-> file["payload"], sbom |-> file["sbom"], sums |-> file["sums"]]

\* The files after the installer is made from what lies there.
Made(made) ==
    LET package == Package(Entries, made) IN
    [file EXCEPT !["package"] = package, !["setup"] = Setup(file["inputs"], package)]

-----------------------------------------------------------------------------
(* The environment.                                                        *)

\* A source or a built file is edited; the commit moves.  An edit before the
\* build begins is but another content to start with.
Edit ==
    /\ make.at # "idle"
    /\ edits < MaxEdits
    /\ edits' = edits + 1
    /\ \E x \in Sources \cup {"payload", "package"} :
          /\ file[x] # None
          /\ file' = [file EXCEPT ![x] =
                         IF x = "package"
                         THEN Package([@.entries EXCEPT !.payload = edits + 1], edits + 1)
                         ELSE edits + 1]
    /\ UNCHANGED <<profile, owner, make, proc, verdict, runs, fails>>

\* The installer is made again from what lies there now.
Remake ==
    /\ edits < MaxEdits
    /\ edits' = edits + 1
    /\ file["package"] # None
    /\ file' = Made(edits + 1)
    /\ UNCHANGED <<profile, owner, make, proc, verdict, runs, fails>>

\* A person, or the release workflow, removes the outputs of a finished or
\* interrupted run before the bundle is generated again.
ClearOutputs ==
    /\ \A p \in Procs : proc[p] = NoProc
    /\ \E x \in Outputs : file[x] # None
    /\ file' = [x \in Files |-> IF x \in Outputs THEN None ELSE file[x]]
    /\ owner' = [x \in Outputs |-> None]
    /\ verdict' = None
    /\ UNCHANGED <<profile, make, proc, edits, runs, fails>>

-----------------------------------------------------------------------------
(* make-windows.mjs.                                                       *)

MakeAt(step) == make.at = step
MakeKeeps == UNCHANGED <<profile, owner, proc, verdict, edits, runs, fails>>

Following(step) ==
    Pipeline[1 + CHOOSE i \in 1..Len(Pipeline) : Pipeline[i] = step]

MakeGoesOn == make' = [make EXCEPT !.at = Following(@)]

\* A step's check fails, and with it the whole run.
MakeFails ==
    /\ make' = [NoMake EXCEPT !.at = "failed"]
    /\ UNCHANGED file

MakeChecks(holds) ==
    /\ IF holds THEN MakeGoesOn /\ UNCHANGED file ELSE MakeFails
    /\ MakeKeeps

\* Every run has a build directory of its own, which must not exist.
StartMake ==
    /\ make.at \in {"idle", "failed"}
    /\ proc = [p \in Procs |-> NoProc]
    /\ runs < MaxRuns
    /\ runs' = runs + 1
    /\ make' = [NoMake EXCEPT !.at = Pipeline[1]]
    /\ file' = [x \in Files |-> IF x \in Sources THEN file[x] ELSE None]
    /\ owner' = [x \in Outputs |-> None]
    /\ verdict' = None
    /\ UNCHANGED <<profile, proc, edits, fails>>

\* verifyPackageTreeInventory: every file of the package has its pinned digest.
InputsArePinned == file["inputs"] = PinnedInputs

VerifyMakerInputs ==
    /\ make.at \in {"inputs", "reinputs", "provenance-inputs"}
    /\ MakeChecks(InputsArePinned)

PackageApplication ==
    /\ MakeAt("package")
    /\ file' = [file EXCEPT !["payload"] = 0]
    /\ MakeGoesOn
    /\ MakeKeeps

\* generateCompliance inventories the payload for the SBOM, and later the
\* payload and the SBOM for the checksums.
GenerateCompliance ==
    /\ \/ /\ MakeAt("comply")
          /\ file' = [file EXCEPT !["sbom"] = Spdx(Inventory)]
       \/ /\ MakeAt("comply-sums")
          /\ file' = [file EXCEPT !["sums"] = Sums(Inventory, file["sbom"])]
    /\ MakeGoesOn
    /\ MakeKeeps

\* mutant: the SBOM's form is checked and not its file list
SbomIsThere == file["sbom"] # None

\* verifySpdx: the SBOM lists the payload that lies there now.
SbomIsCurrent == file["sbom"] = Spdx(Inventory)

\* verifyChecksums.
ChecksumsAreCurrent == file["sums"] = Sums(Inventory, file["sbom"])

VerifyCompliance ==
    \/ make.at \in {"attest", "smoke-attest"} /\ MakeChecks(SbomIsCurrent)
    \/ make.at \in {"attest-sums", "smoke-sums"} /\ MakeChecks(ChecksumsAreCurrent)

MakeInstaller ==
    /\ MakeAt("make")
    /\ file' = Made(0)
    /\ MakeGoesOn
    /\ MakeKeeps

\* The smoke test reads the package's entries, then the packaged directory
\* and the compliance files they must equal.
InspectPackage ==
    \/ /\ MakeAt("smoke-package")
       /\ make' = [make EXCEPT !.at = Following(@), !.package = file["package"]]
       /\ UNCHANGED file
       /\ MakeKeeps
    \/ /\ MakeAt("smoke-payload")
       /\ MakeChecks(make.package.entries = Entries)

\* verifySquirrelMakerProvenance: Setup.exe derives from the pinned bootstrap
\* and embeds the package that RELEASES names.
VerifyProvenance ==
    \/ /\ MakeAt("provenance-setup")
       /\ IF file["setup"].inputs = PinnedInputs
          THEN make' = [make EXCEPT !.at = Following(@), !.setup = file["setup"]]
               /\ UNCHANGED file
          ELSE MakeFails
       /\ MakeKeeps
    \/ /\ MakeAt("provenance-package")
       /\ IF make.setup.embeds = file["package"]
          THEN make' = [make EXCEPT !.at = Following(@), !.package = file["package"]]
               /\ UNCHANGED file
          ELSE MakeFails
       /\ MakeKeeps

\* The evidence appears whole, under its name, or not at all.
WriteMakerEvidence ==
    /\ MakeAt("evidence")
    /\ file' = [file EXCEPT !["evidence"] = [setup |-> make.setup,
                                             package |-> make.package]]
    /\ make' = [NoMake EXCEPT !.at = Following("evidence")]
    /\ MakeKeeps

\* The staged SQLite runtime says it is not approved for distribution, and the
\* smoke test compares that with the profile.
PublicDistributionApproved == FALSE

VerifyRuntime ==
    /\ MakeAt("runtime")
    /\ MakeChecks(PublicDistributionApproved = (profile = "public"))

WriteKeyEvidence ==
    /\ MakeAt("keys")
    /\ file' = [file EXCEPT !["keys"] = 0]
    /\ MakeGoesOn
    /\ MakeKeeps

-----------------------------------------------------------------------------
(* release-bundle.mjs.                                                     *)

At(p, step) == proc[p].at # 0 /\ Steps(proc[p].cmd)[proc[p].at] = step

\* Whether a command runs alone; a generation beside it makes it not so.
Begun(p, cmd) ==
    [q \in Procs |->
        IF q = p THEN [NoProc EXCEPT !.cmd = cmd, !.at = 1,
                           !.start = IF cmd = "verify"
                                     THEN [x \in Listed |-> file[x]] ELSE Blank,
                           !.alone = \A r \in Procs : proc[r] = NoProc]
        ELSE [proc[q] EXCEPT !.alone = proc[q] = NoProc]]

Begin(p, cmd) ==
    /\ proc[p] = NoProc
    /\ IF p = "make" THEN make.at = cmd
       ELSE /\ runs < MaxRuns
            /\ file["keys"] # None
    /\ runs' = IF p = "make" THEN runs ELSE runs + 1
    /\ proc' = Begun(p, cmd)
    /\ verdict' = None
    /\ UNCHANGED <<profile, file, owner, make, edits, fails>>

BundleKeeps == UNCHANGED <<profile, edits, runs, fails>>

Goes(p, r) == proc' = [proc EXCEPT ![p] = [r EXCEPT !.at = @ + 1]]

\* mutant: the cleanup of a failed run ignores what the run created
AllOutputs(p) == Outputs

\* The outputs a failed generation removes: sourceLockCreated,
\* releaseChecksumsCreated, manifestCreated.
Created(p) == proc[p].mine

\* A failed generation first undoes what it created.
BundleFails(p) ==
    /\ proc' = [proc EXCEPT ![p] = [@ EXCEPT !.at = 0, !.mine = Created(p)]]
    /\ UNCHANGED <<file, owner, make, verdict>>

Check(p, holds, r) ==
    /\ IF holds THEN Goes(p, r) /\ UNCHANGED <<file, owner, make, verdict>>
       ELSE BundleFails(p)
    /\ BundleKeeps

RequireAbsent(p) ==
    /\ At(p, "absent")
    /\ Check(p, \A x \in Outputs : file[x] = None, proc[p])

RequirePresent(p) ==
    /\ At(p, "present")
    /\ Check(p, \A x \in Outputs : file[x] # None, proc[p])

RequireSameLock(p) ==
    /\ At(p, "lock")
    /\ Check(p, file["lockcopy"] = file["project"], proc[p])

\* Exclusive creation: COPYFILE_EXCL and the "wx" flag.
Creates(p, x, content) ==
    IF file[x] # None THEN BundleFails(p)
    ELSE /\ file' = [file EXCEPT ![x] = content]
         /\ owner' = [owner EXCEPT ![x] = p]
         /\ Goes(p, [proc[p] EXCEPT !.mine = @ \cup {x}])
         /\ UNCHANGED <<make, verdict>>

CopySourceLock(p) ==
    /\ At(p, "copy")
    /\ Creates(p, "lockcopy", file["project"])
    /\ BundleKeeps

OpenOutput(p) ==
    /\ \E x \in {"checksums", "manifest"} : At(p, x) /\ Creates(p, x, Partial)
    /\ BundleKeeps

Ends(p) ==
    /\ proc' = [proc EXCEPT ![p] = NoProc]
    /\ make' = IF p = "make" THEN [make EXCEPT !.at = Following(@)] ELSE make

FillOutput(p) ==
    /\ \/ /\ At(p, "fill-checksums")
          /\ file' = [file EXCEPT !["checksums"] = ChecksumsOf(proc[p].seen)]
          /\ Goes(p, proc[p])
          /\ UNCHANGED make
       \/ /\ At(p, "fill-manifest")
          /\ file' = [file EXCEPT !["manifest"] = ManifestOf(proc[p].seen)]
          /\ Ends(p)
    /\ UNCHANGED <<owner, verdict>>
    /\ BundleKeeps

\* mutant: the installer is not compared with its provenance evidence
FitsUnbound(p, step) ==
    LET seen == proc[p].seen IN
    CASE step = "resetup" -> file["setup"] = seen["setup"]
      [] step = "reevidence" -> file["evidence"] = seen["evidence"]
      [] OTHER -> file[step] # None

\* inspectProject, inspectMakerOutput, inspectGitSource, inspectAuthenticode
\* and inspectEvidenceFiles: one file at a time, each compared with what was
\* read before it.
Fits(p, step) ==
    LET seen == proc[p].seen IN
    CASE step \in {"project", "commit"} -> TRUE
      [] step \in {"setup", "package"} -> file[step] = seen["evidence"][step]
      [] step = "resetup" -> file["setup"] = seen["setup"]
      [] step = "reevidence" -> file["evidence"] = seen["evidence"]
      [] OTHER -> file[step] # None

Inspect(p) ==
    /\ \E i \in 1..Len(Render) :
          /\ At(p, Render[i])
          /\ Check(p, Fits(p, Render[i]),
                   IF Render[i] \in Listed
                   THEN [proc[p] EXCEPT !.seen[Render[i]] = file[Render[i]]]
                   ELSE proc[p])

\* mutant: verification compares the checksums only
ChecksumsMatch(p) == file["checksums"] = ChecksumsOf(proc[p].seen)

\* The bundle on disk equals the one rendered now.
BundleMatches(p) ==
    /\ file["checksums"] = ChecksumsOf(proc[p].seen)
    /\ file["manifest"] = ManifestOf(proc[p].seen)

CompareBundle(p) ==
    /\ At(p, "compare")
    /\ IF BundleMatches(p)
       THEN /\ Ends(p)
            /\ verdict' = [manifest |-> file["manifest"], start |-> proc[p].start,
                           alone |-> proc[p].alone, by |-> p]
            /\ UNCHANGED <<file, owner>>
       ELSE BundleFails(p)
    /\ BundleKeeps

\* mutant: the catch block removes the copied lockfile first
UndoLockFirst(mine) ==
    IF "lockcopy" \in mine THEN "lockcopy"
    ELSE IF "checksums" \in mine THEN "checksums" ELSE "manifest"

\* The catch block's order.
NextToUndo(mine) ==
    IF "manifest" \in mine THEN "manifest"
    ELSE IF "checksums" \in mine THEN "checksums" ELSE "lockcopy"

Failing(p) == proc[p].cmd # None /\ proc[p].at = 0

Undo(p) ==
    /\ Failing(p)
    /\ IF proc[p].mine = {}
       THEN /\ proc' = [proc EXCEPT ![p] = NoProc]
            /\ make' = IF p = "make" THEN [make EXCEPT !.at = "failed"] ELSE make
            /\ UNCHANGED <<file, owner>>
       ELSE LET x == NextToUndo(proc[p].mine) IN
            /\ file' = [file EXCEPT ![x] = None]
            /\ owner' = [owner EXCEPT ![x] = None]
            /\ proc' = [proc EXCEPT ![p].mine = @ \ {x}]
            /\ UNCHANGED make
    /\ UNCHANGED verdict
    /\ BundleKeeps

-----------------------------------------------------------------------------
(* Faults.                                                                 *)

\* A read, a write or a child process fails.
StepFails ==
    /\ fails < MaxFails
    /\ fails' = fails + 1
    /\ \/ \E p \in Procs : proc[p].cmd # None /\ proc[p].at # 0 /\ BundleFails(p)
       \/ /\ make.at \notin {"idle", "failed", "generate", "verify", "done"}
          /\ MakeFails
          /\ UNCHANGED <<owner, proc, verdict>>
    /\ UNCHANGED <<profile, edits, runs>>

\* A bundle command is killed; what it wrote stays.
Killed ==
    /\ fails < MaxFails
    /\ fails' = fails + 1
    /\ \E p \in Procs :
          /\ proc[p].cmd # None
          /\ proc' = [proc EXCEPT ![p] = NoProc]
          /\ make' = IF p = "make" THEN [make EXCEPT !.at = "failed"] ELSE make
    /\ UNCHANGED <<profile, file, owner, verdict, edits, runs>>

-----------------------------------------------------------------------------
MakeWindows ==
    \/ VerifyMakerInputs \/ PackageApplication \/ GenerateCompliance
    \/ VerifyCompliance \/ MakeInstaller \/ InspectPackage \/ VerifyProvenance
    \/ WriteMakerEvidence \/ VerifyRuntime \/ WriteKeyEvidence

Bundle(p) ==
    \/ RequireAbsent(p) \/ RequirePresent(p) \/ RequireSameLock(p)
    \/ CopySourceLock(p) \/ OpenOutput(p) \/ FillOutput(p) \/ Inspect(p)
    \/ CompareBundle(p) \/ Undo(p)

System ==
    \/ MakeWindows
    \/ \E p \in Procs : Bundle(p)
    \/ \E cmd \in {"generate", "verify"} : Begin("make", cmd)

Next ==
    \/ System
    \/ StartMake
    \/ \E cmd \in {"generate", "verify"} : Begin("person", cmd)
    \/ Edit \/ Remake \/ ClearOutputs
    \/ StepFails \/ Killed

Spec == Init /\ [][Next]_vars

\* Node runs each command to its end.
FairSpec == Spec /\ WF_vars(System)

-----------------------------------------------------------------------------
(* Properties.                                                             *)

\* What a manifest holds, or a command has seen.
Listing(s, e) ==
    /\ s = [x \in Listed |-> s[x]]
    /\ \A x \in Listed : s[x] \in OrNone(Content(x, e))

\* A command under way, or none.
Command(r, e) ==
    /\ r = [cmd |-> r.cmd, at |-> r.at, seen |-> r.seen, mine |-> r.mine,
            start |-> r.start, alone |-> r.alone]
    /\ r.cmd \in {None, "generate", "verify"} /\ r.at \in 0 .. Len(Steps(r.cmd))
    /\ r.cmd = None => r = NoProc
    /\ Listing(r.seen, e) /\ Listing(r.start, e)
    /\ r.mine \subseteq Outputs /\ r.alone \in BOOLEAN

\* The sources are there, and everything else may be.
Directory(f, e) ==
    /\ f = [x \in Files |-> f[x]]
    /\ \A x \in Sources : f[x] \in Content(x, e)
    /\ \A x \in Files \ {"manifest"} : f[x] \in OrNone(Content(x, e))
    /\ f["manifest"] \in {None, Partial} \/ Listing(f["manifest"], e)

\* The variables stay in their domains, where no content is from a later edit.
TypeOK ==
    /\ profile \in Profiles
    /\ edits \in 0 .. MaxEdits /\ runs \in 0 .. MaxRuns /\ fails \in 0 .. MaxFails
    /\ Directory(file, edits)
    /\ owner \in [Outputs -> Procs \cup {None}]
    /\ make \in [at : {Pipeline[i] : i \in 1 .. Len(Pipeline)} \cup {"idle", "failed"},
                 setup : OrNone(Setups(edits)), package : OrNone(Packages(edits))]
    /\ proc = [p \in Procs |-> proc[p]]
    /\ \A p \in Procs : Command(proc[p], edits)

\* A bundle that verifies with no other command beside it describes one moment:
\* version, commit, installer, package and evidence all had the listed contents
\* when verifyReleaseBundle began, although generate and verify each read them
\* one after another and nothing kept them from changing in between.
VerifiedIsOneMoment ==
    verdict # None /\ verdict.alone => verdict.manifest = verdict.start

\* What ships is what the evidence describes: in a bundle the build verified,
\* the package carries the payload its SBOM lists and the SBOM listed beside
\* it, and Setup.exe embeds that package and comes from the pinned
\* electron-winstaller, whatever was edited or made again during the build.
ShippedIsListed ==
    verdict # None /\ verdict.by = "make" =>
        LET m == verdict.manifest IN
        /\ m["package"].entries.payload = m["sbom"].payload
        /\ m["package"].entries.sbom = m["sbom"]
        /\ m["setup"].embeds = m["package"]
        /\ m["setup"].inputs = PinnedInputs

\* generateReleaseBundle never removes what another run wrote: an output that a
\* step of a command takes away is one that command created.
OnlyOwnOutputsRemoved ==
    [][\A p \in Procs, x \in Outputs :
          Undo(p) /\ file[x] # None /\ file'[x] = None => owner[x] = p]_vars

\* The manifest is written last and removed first, so that a directory that has
\* one also has the checksums and the lockfile, of the same run, even when a
\* generation failed or was killed on the way.
ManifestIsLast ==
    file["manifest"] # None =>
        /\ file["checksums"] \notin {None, Partial}
        /\ file["lockcopy"] # None
        /\ owner["checksums"] = owner["manifest"]
        /\ owner["lockcopy"] = owner["manifest"]

\* docs/PUBLIC_RELEASE_RUNBOOK.ko.md: a public build in which every gate holds
\* goes on to a verified bundle.
PublicBuildIsVerified ==
    (profile = "public" /\ make.at = "inputs") ~> make.at = "done"

-----------------------------------------------------------------------------
(* Why they hold: the inductive invariants, for ReleaseBuildProofs.        *)

\* The steps of the build before its bundle is generated, and after the SBOM, the
\* installer, the maker's evidence and the second attestation.
Early == {Pipeline[i] : i \in 1 .. 18}
Complied == {Pipeline[i] : i \in 4 .. 21}
Installed == {Pipeline[i] : i \in 9 .. 21}
Witnessed == {Pipeline[i] : i \in 15 .. 21}
Attested == {Pipeline[i] : i \in 17 .. 21}

Running(p) == proc[p].cmd # None
Read(p, x) == \E i \in 1 .. proc[p].at - 1 : Steps(proc[p].cmd)[i] = x

\* There is no bundle, nor a command for one, before the build's last step, and
\* the build's own commands run while it waits for them.
PhaseInvariant ==
    /\ make.at \in Early \cup {"idle"} => file["keys"] = None
    /\ file["keys"] = None =>
          /\ make.at \notin {"generate", "verify", "done"}
          /\ \A p \in Procs : ~Running(p)
          /\ \A x \in Outputs : file[x] = None /\ owner[x] = None
    /\ Running("make") => make.at = proc["make"].cmd

\* A Setup.exe of this build has the SBOM in its package; its payload is the one
\* the SBOM lists, or else the packaged directory is another one by now.
Descends(setup) ==
    /\ setup.embeds.entries.sbom = file["sbom"]
    /\ \/ setup.embeds.entries.payload = file["sbom"].payload
       \/ file["payload"] # file["sbom"].payload

\* The build's evidence is about a Setup.exe of this build.
MakeInvariant ==
    /\ make.at \in Complied => file["sbom"] \in Boms(edits)
    /\ make.at \in Installed => file["setup"] # None /\ Descends(file["setup"])
    /\ make.at \in {"provenance-package", "evidence"} =>
          Descends(make.setup) /\ make.setup.inputs = PinnedInputs
    /\ make.at = "evidence" => make.setup.embeds = make.package
    /\ make.at \in Witnessed =>
          LET e == file["evidence"] IN
          /\ Descends(e.setup)
          /\ e.setup.inputs = PinnedInputs /\ e.setup.embeds = e.package
    /\ make.at \in Attested =>
          file["evidence"].setup.embeds.entries.payload = file["sbom"].payload

\* What a bundle command has read of the records it compares with.
SeenInvariant ==
    \A p \in Procs :
       /\ \A x \in {"evidence", "sbom"} : Read(p, x) => proc[p].seen[x] = file[x]
       /\ \A x \in {"setup", "package"} :
             Read(p, x) => proc[p].seen[x] = file["evidence"][x]

\* Nothing that differed from the manifest when a lone verification began equals
\* it again, nor was it read as equal; the manifest it has found stays.
MomentInvariant ==
    \A p \in Procs :
       Running(p) /\ proc[p].alone =>
          /\ \A q \in Procs \ {p} : ~Running(q)
          /\ Read(p, "present") => file["manifest"] # None
          /\ proc[p].cmd = "verify" /\ file["manifest"] \notin {None, Partial} =>
                \A x \in Listed :
                   LET listed == file["manifest"][x] IN
                   proc[p].start[x] # listed =>
                      file[x] # listed /\ (Read(p, x) => proc[p].seen[x] # listed)

\* A generation holds what it created, lockfile, checksums and manifest in this
\* order, and nobody else removes it.
OutputInvariant ==
    /\ \A x \in Outputs : file[x] # None => owner[x] # None
    /\ owner["manifest"] # None =>
          /\ file["checksums"] \notin {None, Partial} /\ file["lockcopy"] # None
          /\ owner["checksums"] = owner["manifest"]
          /\ owner["lockcopy"] = owner["manifest"]
    /\ \A p \in Procs :
          LET mine == proc[p].mine IN
          /\ proc[p].cmd = "verify" => mine = {}
          /\ \A x \in mine : owner[x] = p
          /\ mine # {} => "lockcopy" \in mine /\ file["lockcopy"] # None
          /\ mine # {} /\ owner["manifest"] # None => "manifest" \in mine
          /\ "manifest" \in mine => "checksums" \in mine
          /\ Read(p, "copy") => "lockcopy" \in mine
          /\ Read(p, "checksums") => "checksums" \in mine
          /\ Read(p, "fill-checksums") => file["checksums"] \notin {None, Partial}
          /\ Read(p, "manifest") => "manifest" \in mine
=============================================================================
