------------------------------ MODULE FileReads ------------------------------
(***************************************************************************)
(* How the program reads a file that other programs may be changing.  One  *)
(* name is watched; between any two system calls of a reader an editor may *)
(* write a block of the file in place, save it by renaming another file    *)
(* over it, link it, remove it, lead the name elsewhere or put another     *)
(* directory in the place of its root.  Each reader is the sequence of     *)
(* system calls its function makes, with the comparisons made after each:  *)
(*   preview   inspectCandidateFile in core/src/vault.ts, between the      *)
(*             identity checks of the scan;                                *)
(*   commit    prepareFile, which must find what the preview listed;       *)
(*   bundle    inspectFile of scripts/release-bundle.mjs;                  *)
(*   runtime   readBoundedRegularFile of encrypted-sqlite-runtime.mjs;     *)
(*   maker     readRegularFile of squirrel-maker-provenance.mjs.           *)
(* Bytes are blocks, a digest is the bytes it was computed over, and every *)
(* write changes a file's stamps.                                          *)
(***************************************************************************)
EXTENDS Naturals, Sequences, FiniteSets

CONSTANTS
    Inodes,      \* the files of the disk
    Values,      \* the values of a block
    MaxChanges,  \* how often the disk changes
    None

ASSUME BoundAssumption == MaxChanges \in Nat

VARIABLES
    disk,     \* [Inodes -> [data, written, touched, links]]: mtime and ctime
    name,     \* [to, kind]: the file the name leads to, and how
    root,     \* "picked": the directory the user chose; "other": a later one
    changes,  \* how often the disk has changed (bounds the environment)
    run,      \* the reader under way
    held,     \* what the name has led to since the reader started (history)
    preview,  \* what the preview listed, with the history of its read
    answer    \* the last bytes a reader handed back

vars == <<disk, name, root, changes, run, held, preview, answer>>

Readers == {"preview", "commit", "bundle", "runtime", "maker"}

Limit == 2   \* maxFileBytes, in blocks
Contents == UNION {[1..n -> Values] : n \in 1..(Limit + 1)}

\* What an observer of the name may see, and what a reader may hand back.
Sights == [data : Contents, links : {1, 2}, root : {"picked", "other"},
           inside : BOOLEAN]
Answers == [who : Readers, bytes : Seq(Values), held : SUBSET Sights]

ASSUME NoneAssumption == None \notin Inodes \cup Readers /\ None \notin Answers

\* The bytes the repository pins for the packages it reads.
Pinned == CHOOSE c \in Contents : Len(c) = Limit /\ c[1] # c[2]

Idle == [who |-> None, at |-> 0, file |-> None, looked |-> None,
         first |-> None, bytes |-> <<>>, digest |-> None, since |-> 0]

-----------------------------------------------------------------------------
(* The calls each reader makes.                                            *)

ImportScript ==
    <<"root", "open", "stat", "resolve", "match", "read",
      "restat", "resolve", "match", "compare", "root">>

BundleScript ==
    <<"look", "resolve", "look", "open", "stat",
      "read", "restat", "relook", "resolve",
      "again", "restat", "relook", "resolve", "compare">>

RuntimeScript ==
    <<"look", "resolve", "open", "stat", "read", "restat", "relook", "compare">>

MakerScript == <<"resolve", "look", "open", "read", "compare">>

Script(r) ==
    CASE r \in {"preview", "commit"} -> ImportScript
      [] r = "bundle" -> BundleScript
      [] r = "runtime" -> RuntimeScript
      [] r = "maker" -> MakerScript

-----------------------------------------------------------------------------
(* What a call shows.                                                      *)

Size(f) == Len(disk[f].data)

\* lstat of the path: a regular file that is not a link.
Regular == name.to # None /\ name.kind # "link"

\* realpath of the path stays below the root.
Within == name.to # None /\ name.kind = "plain"

\* stat through the handle.
StatOf(f) == [size |-> Size(f), written |-> disk[f].written,
              touched |-> disk[f].touched]

\* open(path): the two importers and the runtime do not follow a link.
Opens(r) ==
    /\ name.to # None
    /\ name.kind = "link" => r \in {"bundle", "maker"}

\* What an observer sees under the name now, and whether it lies below the root.
Now ==
    IF ~Regular THEN {}
    ELSE {[data |-> disk[name.to].data, links |-> disk[name.to].links,
           root |-> root, inside |-> Within]}

-----------------------------------------------------------------------------
Init ==
    /\ \E c \in [Inodes -> {d \in Contents : Len(d) = Limit /\ d[1] = Pinned[1]}] :
          disk = [f \in Inodes |-> [data |-> c[f], written |-> 0,
                                    touched |-> 0, links |-> 1]]
    /\ \E f \in Inodes : name = [to |-> f, kind |-> "plain"]
    /\ root = "picked"
    /\ changes = 0
    /\ run = Idle
    /\ held = {}
    /\ preview = None
    /\ answer = None

-----------------------------------------------------------------------------
(* The environment.                                                        *)

Changes ==
    /\ changes < MaxChanges
    /\ changes' = changes + 1
    /\ held' = held \cup Now'
    /\ UNCHANGED <<run, preview, answer>>

\* A program writes into the open file: over a block, after it, or it cuts
\* the file short.
WriteInPlace ==
    /\ \E f \in Inodes, c \in Contents :
          /\ c # disk[f].data
          /\ Cardinality({k \in 1..(Limit + 1) :
                 (k \in DOMAIN c) # (k \in DOMAIN disk[f].data)
                    \/ (k \in DOMAIN c /\ c[k] # disk[f].data[k])}) = 1
          /\ disk' = [disk EXCEPT ![f].data = c, ![f].written = @ + 1,
                                  ![f].touched = @ + 1]
    /\ UNCHANGED <<name, root>>
    /\ Changes

\* An editor saves by renaming a new file over the old one.
SaveByRename ==
    /\ Within
    /\ \E f \in Inodes \ {name.to} :
          /\ disk[f].links = 1
          /\ name' = [name EXCEPT !.to = f]
          /\ disk' = [disk EXCEPT ![f].touched = @ + 1]
    /\ UNCHANGED root
    /\ Changes

\* A second link to the file is made, or taken away.
Relink ==
    /\ \E f \in Inodes :
          disk' = [disk EXCEPT ![f].links = 3 - @, ![f].touched = @ + 1]
    /\ UNCHANGED <<name, root>>
    /\ Changes

Remove ==
    /\ name.to # None
    /\ name' = [name EXCEPT !.to = None]
    /\ UNCHANGED <<disk, root>>
    /\ Changes

\* The name becomes a link, or its directory is moved away and linked to;
\* neither is put back.
Redirect ==
    /\ name.kind = "plain"
    /\ \E f \in Inodes, k \in {"link", "outside"} :
          name' = [to |-> f, kind |-> k]
    /\ UNCHANGED <<disk, root>>
    /\ Changes

\* Another directory takes the place of the root; the first does not return.
ReplaceRoot ==
    /\ root = "picked"
    /\ root' = "other"
    /\ \E f \in Inodes : name' = [to |-> f, kind |-> "plain"]
    /\ UNCHANGED disk
    /\ Changes

-----------------------------------------------------------------------------
(* The readers.                                                            *)

World == <<disk, name, root, changes>>

Begin(r) ==
    /\ run = Idle
    /\ r = "commit" => preview # None
    /\ run' = [Idle EXCEPT !.who = r, !.at = 1, !.since = changes]
    /\ held' = Now
    /\ answer' = None
    /\ UNCHANGED <<World, preview>>

At(step) == run.who # None /\ Script(run.who)[run.at] = step

Passes(r) ==
    /\ run' = [r EXCEPT !.at = @ + 1]
    /\ UNCHANGED <<World, held, preview, answer>>

\* An issue, or DirectoryImportScopeChangedError, or the scripts' errors.
Refuses ==
    /\ run' = Idle
    /\ held' = {}
    /\ UNCHANGED <<World, preview, answer>>

Accepts ==
    /\ run' = Idle
    /\ answer' = [who |-> run.who, bytes |-> run.bytes, held |-> held]
    /\ preview' = IF run.who = "preview"
                  THEN [bytes |-> run.bytes, held |-> held, asOf |-> run.since]
                  ELSE preview
    /\ held' = {}
    /\ UNCHANGED World

Check(holds, next) == IF holds THEN Passes(next) ELSE Refuses

Last == run.at = Len(Script(run.who))

\* mutant: the root is not compared again after the files were read
RootOfFirstUse == run.at > 1 \/ root = "picked"

\* safeRoot and assertDirectoryRootIdentity.
RootIsSame == root = "picked"

CheckRoot ==
    /\ At("root")
    /\ IF ~RootIsSame THEN Refuses ELSE IF Last THEN Accepts ELSE Passes(run)

\* lstat(path): identity and size are kept for the comparisons to come.
Look ==
    /\ At("look")
    /\ IF Regular /\ (Size(name.to) <= Limit \/ run.who = "bundle")
       THEN Passes([run EXCEPT !.looked = [file |-> name.to,
                                           size |-> Size(name.to)]])
       ELSE Refuses

Resolve ==
    /\ At("resolve")
    /\ Check(Within, run)

Open ==
    /\ At("open")
    /\ Check(Opens(run.who), [run EXCEPT !.file = name.to])

\* mutant: a file as large as the limit is turned away
StatBelowLimit(f) ==
    CASE run.who \in {"preview", "commit"} -> disk[f].links = 1 /\ Size(f) < Limit
      [] OTHER -> f = run.looked.file

\* The first stat through the handle.
StatIsFit(f) ==
    CASE run.who \in {"preview", "commit"} -> disk[f].links = 1 /\ Size(f) <= Limit
      [] OTHER -> f = run.looked.file

Stat ==
    /\ At("stat")
    /\ Check(StatIsFit(run.file), [run EXCEPT !.first = StatOf(run.file)])

\* lstat of the resolved path in openedPathBoundaryStatus.
Match ==
    /\ At("match")
    /\ Check(/\ Regular
             /\ name.to = run.file
             /\ disk[run.file].links = 1, run)

\* How far a reader reads: to the end of the file, or the size it was told.
Complete ==
    IF run.who = "bundle" THEN Len(run.bytes) = run.first.size
    ELSE Len(run.bytes) >= Size(run.file)

\* One read call; a reader stops at its limit or at a file cut short.
ReadBlock ==
    /\ At("read") \/ At("again")
    /\ IF Complete THEN
          IF run.who = "maker" /\ Len(run.bytes) # run.looked.size THEN Refuses
          ELSE IF At("read") /\ run.who = "bundle"
          THEN Passes([run EXCEPT !.digest = run.bytes, !.bytes = <<>>])
          ELSE Passes(run)
       ELSE IF Len(run.bytes) >= Size(run.file) THEN Refuses
       ELSE IF Len(run.bytes) = Limit /\ run.who # "bundle" THEN Refuses
       ELSE /\ run' = [run EXCEPT !.bytes =
                          Append(@, disk[run.file].data[Len(@) + 1])]
            /\ UNCHANGED <<World, held, preview, answer>>

\* mutant: the preview compares sizes and not times after the read
RestatOfSizes(now) ==
    CASE run.who = "preview" -> disk[run.file].links = 1 /\ now.size = run.first.size
      [] run.who = "commit" -> disk[run.file].links = 1
      [] run.who = "bundle" -> now = run.first
      [] OTHER -> now.size = Len(run.bytes)

\* The second stat through the handle: the preview compares the size and the
\* time of the last write, the bundle the time of the last change as well,
\* the commit only the links, the runtime only the size.
RestatIsFit(now) ==
    CASE run.who = "preview" ->
            /\ disk[run.file].links = 1
            /\ now.size = run.first.size
            /\ now.written = run.first.written
            /\ now.size = Len(run.bytes)
      [] run.who = "commit" -> disk[run.file].links = 1
      [] run.who = "bundle" -> now = run.first
      [] OTHER -> now.size = Len(run.bytes)

Restat ==
    /\ At("restat")
    /\ Check(RestatIsFit(StatOf(run.file)), run)

\* The path again: still the file that was read.
Relook ==
    /\ At("relook")
    /\ Check(/\ Regular
             /\ name.to = run.file
             /\ run.who = "runtime" => Size(name.to) = Len(run.bytes), run)

\* mutant: prepareFile compares only the length with the preview's
CompareLengths ==
    CASE run.who = "preview" -> TRUE
      [] run.who = "commit" -> Len(run.bytes) = Len(preview.bytes)
      [] run.who = "bundle" -> run.bytes = run.digest
      [] OTHER -> run.bytes = Pinned

\* The digest against the preview's, the first pass's or the pinned one.
DigestIsRight ==
    CASE run.who = "preview" -> TRUE
      [] run.who = "commit" -> run.bytes = preview.bytes
      [] run.who = "bundle" -> run.bytes = run.digest
      [] OTHER -> run.bytes = Pinned

Compare ==
    /\ At("compare")
    /\ IF ~DigestIsRight THEN Refuses ELSE IF Last THEN Accepts ELSE Passes(run)

-----------------------------------------------------------------------------
Environment ==
    WriteInPlace \/ SaveByRename \/ Relink \/ Remove \/ Redirect \/ ReplaceRoot

Reads ==
    \/ CheckRoot \/ Look \/ Resolve \/ Open \/ Stat \/ Match
    \/ ReadBlock \/ Restat \/ Relook \/ Compare

Next == Environment \/ Reads \/ \E r \in Readers : Begin(r)

Spec == Init /\ [][Next]_vars

-----------------------------------------------------------------------------
(* Properties.                                                             *)

\* The variables stay in their domains, and no reader holds a file or a
\* first stat it has not yet obtained.
TypeOK ==
    /\ DOMAIN disk = Inodes
    /\ \A f \in Inodes : /\ disk[f].data \in Contents
                         /\ disk[f].links \in {1, 2}
                         /\ disk[f].written <= disk[f].touched
    /\ name \in [to : Inodes \cup {None}, kind : {"plain", "link", "outside"}]
    /\ run.who = None <=> run = Idle
    /\ run.who # None => run.at \in 1..Len(Script(run.who))
    /\ Len(run.bytes) <= Limit + 1

\* The content of a file with a single name below the directory the user picked.
PickedIn(h, bytes) ==
    \E o \in h : o.data = bytes /\ o.links = 1 /\ o.inside /\ o.root = "picked"

\* What inspectCandidateFile lists was, at one moment of its read, the whole
\* content of a file with a single name in the directory the user picked; what
\* inspectFile hashes for the release was, at one moment of its read, the whole
\* content of the regular file at that path. No mixture of two versions passes,
\* whatever is written, renamed or moved between the calls.
WholeContent ==
    answer # None =>
        /\ answer.who = "preview" => PickedIn(answer.held, answer.bytes)
        /\ answer.who = "bundle" => \E o \in answer.held : o.data = answer.bytes

\* What prepareFile imports is what the user was shown: the bytes the name led
\* to at one moment of the preview, although prepareFile itself compares no
\* time stamps and its own read may mix two versions.
CommitIsPreviewed ==
    answer # None /\ answer.who = "commit" => PickedIn(preview.held, answer.bytes)

\* A file nobody touches is read: a refusal of an ordinary file within the
\* limit means something changed since the reader started, for the commit since
\* the preview it repeats, and for the readers of pinned packages that the
\* bytes are not the pinned ones.
Ordinary ==
    /\ Within
    /\ root = "picked"
    /\ disk[name.to].links = 1
    /\ Size(name.to) <= Limit

RefusalMeansChange ==
    [][Refuses /\ Ordinary =>
          \/ changes > (IF run.who = "commit" THEN preview.asOf ELSE run.since)
          \/ run.who \in {"runtime", "maker"} /\ disk[name.to].data # Pinned]_vars

-----------------------------------------------------------------------------
(* Why they hold: the inductive invariants, for FileReadsProofs.           *)

Files == [data : Contents, written : Nat, touched : Nat, links : {1, 2}]

Stats == [size : Nat, written : Nat, touched : Nat]
Runs == [who : Readers \cup {None}, at : Nat, file : Inodes \cup {None},
         looked : {None} \cup [file : Inodes, size : Nat],
         first : {None} \cup Stats,
         bytes : Seq(Values), digest : {None} \cup Seq(Values), since : Nat]

\* The parts of the state that the readers' comparisons are about.
StateType ==
    /\ disk \in [Inodes -> Files]
    /\ name \in [to : Inodes \cup {None}, kind : {"plain", "link", "outside"}]
    /\ root \in {"picked", "other"}
    /\ changes \in Nat
    /\ held \subseteq Sights
    /\ run \in Runs
    /\ run.who = None => run = Idle
    /\ run.who # None => run.at \in 1..Len(Script(run.who))
    /\ answer # None => run.who = None

\* The reader has made the call.
Past(step) == \E j \in 1..(run.at - 1) : Script(run.who)[j] = step

\* The reader has a file open, and its first stat.
OpenFile ==
    run.who # None =>
        /\ Past("open") => run.file \in Inodes
        /\ Past("stat") => run.first \in Stats

\* What was read is the beginning of the data.
StartOf(bytes, data) ==
    /\ Len(bytes) <= Len(data)
    /\ \A k \in 1..Len(bytes) : bytes[k] = data[k]

\* The import's reader is about to make one of the calls.
Importing(from, to) == run.who \in {"preview", "commit"} /\ run.at \in from..to
Bundling(from, to) == run.who = "bundle" /\ run.at \in from..to

\* The preview. As long as the time of the last write is the one it saw first,
\* it reads one version; if the name lies below the picked directory in the end,
\* it did so when the name was matched with the open file, and that is when the
\* observer saw this version in its place.
PreviewReads ==
    /\ Importing(1, 5) => run.bytes = <<>>
    /\ Importing(4, 7) =>
          /\ run.first.written <= disk[run.file].written
          /\ run.first.written = disk[run.file].written =>
                StartOf(run.bytes, disk[run.file].data)
    /\ Importing(6, 7) /\ root = "picked" /\ name.kind = "plain" =>
          \E o \in held :
              /\ o.links = 1 /\ o.inside /\ o.root = "picked"
              /\ run.first.written = disk[run.file].written =>
                    o.data = disk[run.file].data
    /\ run.who = "preview" /\ run.at = 8 /\ root = "picked" /\ name.kind = "plain" =>
          PickedIn(held, run.bytes)
    /\ run.who = "preview" /\ run.at \in 9..11 /\ root = "picked" =>
          PickedIn(held, run.bytes)

\* The bundle. As long as the time of the last change is the one it saw first,
\* both passes read one version, and it was in its place between them.
BundleReads ==
    /\ Bundling(6, 11) => run.first.touched <= disk[run.file].touched
    /\ Bundling(10, 11) /\ run.first.touched = disk[run.file].touched =>
          StartOf(run.bytes, disk[run.file].data)
    /\ Bundling(9, 11) /\ run.first.touched = disk[run.file].touched =>
          \E o \in held : o.data = disk[run.file].data
    /\ Bundling(11, 11) => Len(run.bytes) = run.first.size
    /\ Bundling(7, 9) => run.bytes = <<>>
    /\ Bundling(12, 14) => \E o \in held : o.data = run.bytes

\* The preview's result, and the commit that repeats it.
CommitRepeats ==
    /\ preview # None => PickedIn(preview.held, preview.bytes)
    /\ run.who = "commit" => preview # None
    /\ run.who = "commit" /\ run.at = 11 => run.bytes = preview.bytes
    /\ answer # None /\ answer.who = "commit" =>
          preview # None /\ answer.bytes = preview.bytes

ReadInvariant ==
    /\ run.who # None => Now \subseteq held
    /\ OpenFile /\ PreviewReads /\ BundleReads /\ CommitRepeats
    /\ WholeContent

\* The moment since which a change would explain a refusal.
Since == IF run.who = "commit" THEN preview.asOf ELSE run.since

\* While nothing changes, what a reader has seen is what there is.
AsSeen ==
    /\ Past("look") =>
          run.looked = [file |-> name.to, size |-> Size(name.to)]
    /\ Past("open") => run.file = name.to
    /\ Past("stat") => run.first = StatOf(name.to)
    /\ StartOf(run.bytes, disk[name.to].data)
    /\ (Past("read") /\ run.who # "bundle") \/ Past("again") =>
          run.bytes = disk[name.to].data
    /\ Past("read") /\ run.who = "bundle" => run.digest = disk[name.to].data

QuietInvariant ==
    /\ run.who # None => run.since <= changes
    /\ run.who # None /\ changes = Since /\ Ordinary => AsSeen
    /\ preview # None =>
          /\ preview.asOf \in Nat /\ preview.asOf <= changes
          /\ changes = preview.asOf /\ Ordinary => preview.bytes = disk[name.to].data
=============================================================================
