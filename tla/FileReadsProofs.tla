--------------------------- MODULE FileReadsProofs ---------------------------
(***************************************************************************)
(* What a reader hands back, for any number of files, values and changes.  *)
(* WholeContent and CommitIsPreviewed follow from ReadInvariant: the time  *)
(* stamp a reader saw first binds the version it reads, and the name was   *)
(* seen to lead to that version between two of its calls.                  *)
(* RefusalMeansChange follows from QuietInvariant: while nothing changes,  *)
(* what the reader has kept is what there is, so every comparison holds.   *)
(***************************************************************************)
EXTENDS FileReads, TLAPS

-----------------------------------------------------------------------------
(* Data.                                                                   *)

\* The content of a file is a sequence of one to Limit + 1 blocks.
LEMMA ContentIsSequence ==
    ASSUME NEW d, d \in Contents
    PROVE  /\ d \in Seq(Values)
           /\ Len(d) \in 1..3
           /\ DOMAIN d = 1..Len(d)
<1>1. PICK n \in 1..3 : d \in [1..n -> Values]
  BY DEF Contents, Limit
<1>2. d \in Seq(Values) /\ Len(d) = n
  BY <1>1
<1> QED BY <1>1, <1>2

\* What a reader has read to the end of the data is the data.
LEMMA StartIsAll ==
    ASSUME NEW d, d \in Contents, NEW b, b \in Seq(Values),
           StartOf(b, d), Len(b) >= Len(d)
    PROVE  b = d
<1>1. d \in Seq(Values) /\ Len(d) \in Nat /\ Len(b) \in Nat
  BY ContentIsSequence
<1>2. Len(b) = Len(d) /\ \A k \in 1..Len(b) : b[k] = d[k]
  BY <1>1 DEF StartOf
<1> QED BY <1>1, <1>2

\* One more block of the data keeps what was read its beginning.
LEMMA OneMoreBlock ==
    ASSUME NEW d, d \in Contents, NEW b, b \in Seq(Values), Len(b) < Len(d),
           NEW c, c = Append(b, d[Len(b) + 1])
    PROVE  /\ c \in Seq(Values)
           /\ StartOf(b, d) => StartOf(c, d)
<1>1. d \in Seq(Values) /\ Len(d) \in Nat /\ Len(b) \in Nat
  BY ContentIsSequence
<1>2. Len(b) + 1 \in 1..Len(d)
  BY <1>1
<1>3. d[Len(b) + 1] \in Values
  BY <1>1, <1>2
<1>4. /\ c \in Seq(Values) /\ Len(c) = Len(b) + 1
      /\ \A k \in 1..Len(b) : c[k] = b[k]
      /\ c[Len(b) + 1] = d[Len(b) + 1]
  BY <1>1, <1>3
<1>5. ASSUME StartOf(b, d)
      PROVE  StartOf(c, d)
  <2>1. \A k \in 1..Len(c) : c[k] = d[k]
    BY <1>1, <1>4, <1>5 DEF StartOf
  <2> QED BY <1>1, <1>2, <1>4, <2>1 DEF StartOf
<1> QED BY <1>4, <1>5

\* Nothing read is the beginning of every content.
LEMMA NothingRead ==
    ASSUME NEW d, d \in Contents
    PROVE  StartOf(<<>>, d)
BY ContentIsSequence DEF StartOf

-----------------------------------------------------------------------------
(* The order of a reader's calls.                                          *)

\* The calls of the import's reader, by position.
LEMMA ImportCalls ==
    ASSUME run.who \in {"preview", "commit"}, run.at \in 1..Len(Script(run.who))
    PROVE  /\ run.at \in 1..11 /\ Len(Script(run.who)) = 11
           /\ ~At("look") /\ ~At("relook") /\ ~At("again")
           /\ At("root") <=> run.at \in {1, 11}
           /\ At("open") <=> run.at = 2
           /\ At("stat") <=> run.at = 3
           /\ At("resolve") <=> run.at \in {4, 8}
           /\ At("match") <=> run.at \in {5, 9}
           /\ At("read") <=> run.at = 6
           /\ At("restat") <=> run.at = 7
           /\ At("compare") <=> run.at = 10
<1>1. run.who # None
  BY NoneAssumption DEF Readers
<1>2. Script(run.who) = ImportScript
  BY DEF Script
<1> QED BY <1>1, <1>2 DEF At, ImportScript

\* The calls of the bundle's reader.
LEMMA BundleCalls ==
    ASSUME run.who = "bundle", run.at \in 1..Len(Script(run.who))
    PROVE  /\ run.at \in 1..14 /\ Len(Script(run.who)) = 14
           /\ ~At("root") /\ ~At("match")
           /\ At("look") <=> run.at \in {1, 3}
           /\ At("open") <=> run.at = 4
           /\ At("stat") <=> run.at = 5
           /\ At("resolve") <=> run.at \in {2, 9, 13}
           /\ At("read") <=> run.at = 6
           /\ At("again") <=> run.at = 10
           /\ At("restat") <=> run.at \in {7, 11}
           /\ At("relook") <=> run.at \in {8, 12}
           /\ At("compare") <=> run.at = 14
<1>1. run.who # None
  BY NoneAssumption DEF Readers
<1>2. Script(run.who) = BundleScript
  BY DEF Script
<1>3. Len(BundleScript) = 14
  BY DEF BundleScript
<1>4. \A c : At(c) <=> BundleScript[run.at] = c
  BY <1>1, <1>2 DEF At
<1>5. run.at \in 1..14
  BY <1>2, <1>3
<1>6. /\ ~At("root") /\ ~At("match")
      /\ At("look") <=> run.at \in {1, 3}
      /\ At("open") <=> run.at = 4
      /\ At("stat") <=> run.at = 5
  BY <1>4, <1>5, SMTT(40) DEF BundleScript
<1>7. /\ At("resolve") <=> run.at \in {2, 9, 13}
      /\ At("read") <=> run.at = 6
      /\ At("again") <=> run.at = 10
  BY <1>4, <1>5, SMTT(40) DEF BundleScript
<1>8. /\ At("restat") <=> run.at \in {7, 11}
      /\ At("relook") <=> run.at \in {8, 12}
      /\ At("compare") <=> run.at = 14
  BY <1>4, <1>5, SMTT(40) DEF BundleScript
<1> QED BY <1>2, <1>3, <1>5, <1>6, <1>7, <1>8

\* The calls of the runtime's reader.
LEMMA RuntimeCalls ==
    ASSUME run.who = "runtime", run.at \in 1..Len(Script(run.who))
    PROVE  /\ run.at \in 1..8 /\ Len(Script(run.who)) = 8
           /\ ~At("root") /\ ~At("match") /\ ~At("again")
           /\ At("look") <=> run.at = 1
           /\ At("resolve") <=> run.at = 2
           /\ At("open") <=> run.at = 3
           /\ At("stat") <=> run.at = 4
           /\ At("read") <=> run.at = 5
           /\ At("restat") <=> run.at = 6
           /\ At("relook") <=> run.at = 7
           /\ At("compare") <=> run.at = 8
<1>1. run.who # None
  BY NoneAssumption DEF Readers
<1>2. Script(run.who) = RuntimeScript
  BY DEF Script
<1>3. Len(RuntimeScript) = 8
  BY DEF RuntimeScript
<1>4. \A c : At(c) <=> RuntimeScript[run.at] = c
  BY <1>1, <1>2 DEF At
<1>5. run.at \in 1..8
  BY <1>2, <1>3
<1> QED BY <1>2, <1>3, <1>4, <1>5 DEF RuntimeScript

\* The calls of the maker's reader.
LEMMA MakerCalls ==
    ASSUME run.who = "maker", run.at \in 1..Len(Script(run.who))
    PROVE  /\ run.at \in 1..5 /\ Len(Script(run.who)) = 5
           /\ ~At("root") /\ ~At("match") /\ ~At("again") /\ ~At("stat")
           /\ ~At("restat") /\ ~At("relook")
           /\ At("resolve") <=> run.at = 1
           /\ At("look") <=> run.at = 2
           /\ At("open") <=> run.at = 3
           /\ At("read") <=> run.at = 4
           /\ At("compare") <=> run.at = 5
<1>1. run.who # None
  BY NoneAssumption DEF Readers
<1>2. Script(run.who) = MakerScript
  BY DEF Script
<1> QED BY <1>1, <1>2 DEF At, MakerScript
\* What the import's reader has done before its position.
LEMMA ImportPast ==
    ASSUME run.who \in {"preview", "commit"}, run.at \in 1..11
    PROVE  /\ Past("open") <=> run.at > 2
           /\ Past("stat") <=> run.at > 3
           /\ Past("read") <=> run.at > 6
           /\ ~Past("look")
           /\ ~Past("again")
<1>1. \A c : Past(c) <=> \E j \in 1..(run.at - 1) : ImportScript[j] = c
  BY DEF Past, Script
<1>2. Past("open") <=> run.at > 2
  BY <1>1 DEF ImportScript
<1>3. Past("stat") <=> run.at > 3
  BY <1>1 DEF ImportScript
<1>4. Past("read") <=> run.at > 6
  BY <1>1 DEF ImportScript
<1>5. ~Past("look")
  BY <1>1 DEF ImportScript
<1>6. ~Past("again")
  BY <1>1 DEF ImportScript
<1> QED BY <1>2, <1>3, <1>4, <1>5, <1>6

\* What the bundle's reader has done before its position.
LEMMA BundlePast ==
    ASSUME run.who = "bundle", run.at \in 1..14
    PROVE  /\ Past("look") <=> run.at > 1
           /\ Past("open") <=> run.at > 4
           /\ Past("stat") <=> run.at > 5
           /\ Past("read") <=> run.at > 6
           /\ Past("again") <=> run.at > 10
<1>1. \A c : Past(c) <=> \E j \in 1..(run.at - 1) : BundleScript[j] = c
  BY DEF Past, Script
<1>2. Past("look") <=> run.at > 1
  BY <1>1 DEF BundleScript
<1>3. Past("open") <=> run.at > 4
  BY <1>1 DEF BundleScript
<1>4. Past("stat") <=> run.at > 5
  BY <1>1 DEF BundleScript
<1>5. Past("read") <=> run.at > 6
  BY <1>1 DEF BundleScript
<1>6. Past("again") <=> run.at > 10
  BY <1>1 DEF BundleScript
<1> QED BY <1>2, <1>3, <1>4, <1>5, <1>6

\* What the runtime's reader has done before its position.
LEMMA RuntimePast ==
    ASSUME run.who = "runtime", run.at \in 1..8
    PROVE  /\ Past("look") <=> run.at > 1
           /\ Past("open") <=> run.at > 3
           /\ Past("stat") <=> run.at > 4
           /\ Past("read") <=> run.at > 5
           /\ ~Past("again")
<1>1. \A c : Past(c) <=> \E j \in 1..(run.at - 1) : RuntimeScript[j] = c
  BY DEF Past, Script
<1>2. Past("look") <=> run.at > 1
  BY <1>1 DEF RuntimeScript
<1>3. Past("open") <=> run.at > 3
  BY <1>1 DEF RuntimeScript
<1>4. Past("stat") <=> run.at > 4
  BY <1>1 DEF RuntimeScript
<1>5. Past("read") <=> run.at > 5
  BY <1>1 DEF RuntimeScript
<1>6. ~Past("again")
  BY <1>1 DEF RuntimeScript
<1> QED BY <1>2, <1>3, <1>4, <1>5, <1>6

\* What the maker's reader has done before its position.
LEMMA MakerPast ==
    ASSUME run.who = "maker", run.at \in 1..5
    PROVE  /\ Past("look") <=> run.at > 2
           /\ Past("open") <=> run.at > 3
           /\ Past("read") <=> run.at > 4
           /\ ~Past("stat")
           /\ ~Past("again")
<1>1. \A c : Past(c) <=> \E j \in 1..(run.at - 1) : MakerScript[j] = c
  BY DEF Past, Script
<1>2. Past("look") <=> run.at > 2
  BY <1>1 DEF MakerScript
<1>3. Past("open") <=> run.at > 3
  BY <1>1 DEF MakerScript
<1>4. Past("read") <=> run.at > 4
  BY <1>1 DEF MakerScript
<1>5. ~Past("stat")
  BY <1>1 DEF MakerScript
<1>6. ~Past("again")
  BY <1>1 DEF MakerScript
<1> QED BY <1>2, <1>3, <1>4, <1>5, <1>6
\* What a reader has done when it obtains the file and looks at it.
OpenedBefore ==
    /\ At("stat") \/ At("match") => Past("open")
    /\ At("stat") => run.who # "maker"
    /\ At("stat") /\ run.who \notin {"preview", "commit"} => Past("look")
    /\ At("match") => run.who \in {"preview", "commit"}

\* What a reader has done when it reads.
StattedBefore ==
    /\ At("read") \/ At("again") => Past("open")
    /\ At("read") /\ run.who \in {"bundle", "preview"} => Past("stat")
    /\ At("read") /\ run.who = "maker" => Past("look")
    /\ At("read") /\ run.who = "bundle" => ~Past("again") /\ ~At("again")
    /\ At("again") => run.who = "bundle" /\ Past("read") /\ Past("stat")

\* What a reader has done when it compares what it read.
ReadBefore ==
    /\ At("restat") => Past("open") /\ Past("stat") /\ run.who # "maker"
    /\ At("restat") /\ run.who # "bundle" => Past("read")
    /\ At("relook") => Past("open") /\ run.who \in {"bundle", "runtime"}
    /\ At("relook") /\ run.who = "runtime" => Past("read")

\* What a reader has done when it is about to hand back what it read.
AllBefore ==
    /\ At("compare") => Past("read")
    /\ At("compare") /\ run.who = "bundle" => Past("again")
    /\ Last => Past("read") /\ (At("root") \/ At("compare"))

\* Every reader makes its calls in an order its comparisons rely on.
LEMMA CallsInOrder ==
    ASSUME run.who \in Readers, run.at \in 1..Len(Script(run.who))
    PROVE  OpenedBefore /\ StattedBefore /\ ReadBefore /\ AllBefore
<1>1. CASE run.who \in {"preview", "commit"}
  <2>1. run.at \in 1..11
    BY <1>1, ImportCalls
  <2>2. Len(Script(run.who)) = 11
    BY <1>1, ImportCalls
  <2>3. OpenedBefore
    BY <1>1, <2>1, ImportCalls, ImportPast DEF OpenedBefore
  <2>4. StattedBefore
    BY <1>1, <2>1, ImportCalls, ImportPast DEF StattedBefore
  <2>5. ReadBefore
    BY <1>1, <2>1, ImportCalls, ImportPast DEF ReadBefore
  <2>6. Last <=> run.at = 11
    BY <2>2 DEF Last
  <2>7. At("compare") <=> run.at = 10
    BY <1>1, ImportCalls
  <2>8. Past("read") <=> run.at > 6
    BY <1>1, <2>1, ImportPast
  <2>9. At("root") <=> run.at \in {1, 11}
    BY <1>1, ImportCalls
  <2>10. AllBefore
    BY <1>1, <2>6, <2>7, <2>8, <2>9 DEF AllBefore
  <2> QED BY <2>3, <2>4, <2>5, <2>10
<1>2. CASE run.who = "bundle"
  <2>1. run.at \in 1..14
    BY <1>2, BundleCalls
  <2>2. Len(Script(run.who)) = 14
    BY <1>2, BundleCalls
  <2>3. OpenedBefore
    BY <1>2, <2>1, BundleCalls, BundlePast DEF OpenedBefore
  <2>4. StattedBefore
    BY <1>2, <2>1, BundleCalls, BundlePast DEF StattedBefore
  <2>5. ReadBefore
    BY <1>2, <2>1, BundleCalls, BundlePast DEF ReadBefore
  <2>6. Last <=> run.at = 14
    BY <2>2 DEF Last
  <2>7. At("compare") <=> run.at = 14
    BY <1>2, BundleCalls
  <2>8. Past("read") <=> run.at > 6
    BY <1>2, <2>1, BundlePast
  <2>9. Past("again") <=> run.at > 10
    BY <1>2, <2>1, BundlePast
  <2>10. AllBefore
    BY <1>2, <2>6, <2>7, <2>8, <2>9 DEF AllBefore
  <2> QED BY <2>3, <2>4, <2>5, <2>10
<1>3. CASE run.who = "runtime"
  <2>1. run.at \in 1..8
    BY <1>3, RuntimeCalls
  <2>2. Len(Script(run.who)) = 8
    BY <1>3, RuntimeCalls
  <2>3. OpenedBefore
    BY <1>3, <2>1, RuntimeCalls, RuntimePast DEF OpenedBefore
  <2>4. StattedBefore
    BY <1>3, <2>1, RuntimeCalls, RuntimePast DEF StattedBefore
  <2>5. ReadBefore
    BY <1>3, <2>1, RuntimeCalls, RuntimePast DEF ReadBefore
  <2>6. Last <=> run.at = 8
    BY <2>2 DEF Last
  <2>7. At("compare") <=> run.at = 8
    BY <1>3, RuntimeCalls
  <2>8. Past("read") <=> run.at > 5
    BY <1>3, <2>1, RuntimePast
  <2>10. AllBefore
    BY <1>3, <2>6, <2>7, <2>8 DEF AllBefore
  <2> QED BY <2>3, <2>4, <2>5, <2>10
<1>4. CASE run.who = "maker"
  <2>1. run.at \in 1..5
    BY <1>4, MakerCalls
  <2>2. Len(Script(run.who)) = 5
    BY <1>4, MakerCalls
  <2>3. OpenedBefore
    BY <1>4, <2>1, MakerCalls, MakerPast DEF OpenedBefore
  <2>4. StattedBefore
    BY <1>4, <2>1, MakerCalls, MakerPast DEF StattedBefore
  <2>5. ReadBefore
    BY <1>4, <2>1, MakerCalls, MakerPast DEF ReadBefore
  <2>6. Last <=> run.at = 5
    BY <2>2 DEF Last
  <2>7. At("compare") <=> run.at = 5
    BY <1>4, MakerCalls
  <2>8. Past("read") <=> run.at > 4
    BY <1>4, <2>1, MakerPast
  <2>10. AllBefore
    BY <1>4, <2>6, <2>7, <2>8 DEF AllBefore
  <2> QED BY <2>3, <2>4, <2>5, <2>10
<1> QED BY <1>1, <1>2, <1>3, <1>4 DEF Readers

\* A call made is past.
LEMMA CallIsPast ==
    ASSUME run.who # None, run.at \in Nat \ {0}, NEW step,
           run'.who = run.who, run'.at = run.at + 1
    PROVE  Past(step)' <=> Past(step) \/ At(step)
<1>1. Past(step)' <=> \E j \in 1..(run'.at - 1) : Script(run'.who)[j] = step
  BY DEF Past, Script
<1>2. \A j : j \in 1..run.at <=> j \in 1..(run.at - 1) \/ j = run.at
  OBVIOUS
<1>3. run'.at - 1 = run.at /\ Script(run'.who) = Script(run.who)
  OBVIOUS
<1> QED BY <1>1, <1>2, <1>3 DEF Past, At

\* A reader that has just started has made no call.
LEMMA NothingPast ==
    ASSUME run.at = 1, NEW step
    PROVE  ~Past(step)
BY DEF Past

-----------------------------------------------------------------------------
(* The environment.                                                        *)

\* What an observer sees has the form of a sight.
LEMMA NowIsSight ==
    ASSUME StateType
    PROVE  Now \subseteq Sights
<1>1. CASE Regular
  <2>1. name.to \in Inodes
    BY <1>1 DEF StateType, Regular
  <2>2. disk[name.to] \in Files
    BY <2>1 DEF StateType
  <2>3. Within \in BOOLEAN
    BY DEF Within
  <2>4. root \in {"picked", "other"}
    BY DEF StateType
  <2>5. [data |-> disk[name.to].data, links |-> disk[name.to].links,
         root |-> root, inside |-> Within] \in Sights
    BY <2>2, <2>3, <2>4 DEF Files, Sights
  <2> QED BY <1>1, <2>5 DEF Now
<1>2. CASE ~Regular
  BY <1>2 DEF Now
<1> QED BY <1>1, <1>2

\* A change of the disk keeps its files in their domain, moves no stamp back,
\* and gives a file whose data it changes new stamps.
LEMMA FilesChange ==
    ASSUME StateType, Environment
    PROVE  /\ disk' \in [Inodes -> Files]
           /\ \A f \in Inodes :
                 /\ disk[f].written <= disk'[f].written
                 /\ disk[f].touched <= disk'[f].touched
                 /\ disk'[f].written = disk[f].written \/ disk'[f].touched = disk[f].touched
                       => disk'[f].data = disk[f].data
<1>1. disk \in [Inodes -> Files]
  BY DEF StateType
<1>2. \A f \in Inodes : /\ disk[f].written \in Nat /\ disk[f].touched \in Nat
                        /\ disk[f].links \in {1, 2} /\ disk[f].data \in Contents
  BY <1>1 DEF Files
<1>3. CASE WriteInPlace
  <2>1. PICK f \in Inodes, c \in Contents :
           disk' = [disk EXCEPT ![f].data = c, ![f].written = @ + 1,
                                ![f].touched = @ + 1]
    BY <1>3 DEF WriteInPlace
  <2>2. disk'[f] = [data |-> c, written |-> disk[f].written + 1,
                    touched |-> disk[f].touched + 1, links |-> disk[f].links]
    BY <1>1, <2>1 DEF Files
  <2>3. \A g \in Inodes \ {f} : disk'[g] = disk[g]
    BY <1>1, <2>1
  <2>4. disk'[f] \in Files
    BY <1>2, <2>2 DEF Files
  <2>5. disk' \in [Inodes -> Files]
    BY <1>1, <2>1, <2>3, <2>4
  <2> QED BY <1>2, <2>2, <2>3, <2>5
<1>4. CASE SaveByRename
  <2>1. PICK f \in Inodes : disk' = [disk EXCEPT ![f].touched = @ + 1]
    BY <1>4 DEF SaveByRename
  <2>2. disk'[f] = [data |-> disk[f].data, written |-> disk[f].written,
                    touched |-> disk[f].touched + 1, links |-> disk[f].links]
    BY <1>1, <2>1 DEF Files
  <2>3. \A g \in Inodes \ {f} : disk'[g] = disk[g]
    BY <1>1, <2>1
  <2>4. disk'[f] \in Files
    BY <1>2, <2>2 DEF Files
  <2>5. disk' \in [Inodes -> Files]
    BY <1>1, <2>1, <2>3, <2>4
  <2> QED BY <1>2, <2>2, <2>3, <2>5
<1>5. CASE Relink
  <2>1. PICK f \in Inodes :
           disk' = [disk EXCEPT ![f].links = 3 - @, ![f].touched = @ + 1]
    BY <1>5 DEF Relink
  <2>2. disk'[f] = [data |-> disk[f].data, written |-> disk[f].written,
                    touched |-> disk[f].touched + 1, links |-> 3 - disk[f].links]
    BY <1>1, <2>1 DEF Files
  <2>3. \A g \in Inodes \ {f} : disk'[g] = disk[g]
    BY <1>1, <2>1
  <2>4. disk'[f] \in Files
    BY <1>2, <2>2 DEF Files
  <2>5. disk' \in [Inodes -> Files]
    BY <1>1, <2>1, <2>3, <2>4
  <2> QED BY <1>2, <2>2, <2>3, <2>5
<1>6. CASE disk' = disk
  BY <1>1, <1>2, <1>6
<1>7. CASE Remove \/ Redirect \/ ReplaceRoot
  BY <1>6, <1>7 DEF Remove, Redirect, ReplaceRoot
<1> QED BY <1>3, <1>4, <1>5, <1>7 DEF Environment

\* A change leads the name to some file or none, never back below the picked
\* root once it left it, and touches no reader.
LEMMA NameChanges ==
    ASSUME StateType, Environment
    PROVE  /\ name' \in [to : Inodes \cup {None}, kind : {"plain", "link", "outside"}]
           /\ root' \in {"picked", "other"}
           /\ root' = "picked" /\ name'.kind = "plain" =>
                 root = "picked" /\ name.kind = "plain"
           /\ changes' = changes + 1
           /\ held' = held \cup Now'
           /\ UNCHANGED <<run, preview, answer>>
<1>1. /\ name \in [to : Inodes \cup {None}, kind : {"plain", "link", "outside"}]
      /\ root \in {"picked", "other"}
  BY DEF StateType
<1>2. CASE WriteInPlace \/ Relink
  BY <1>1, <1>2 DEF WriteInPlace, Relink, Changes
<1>3. CASE SaveByRename
  <2>1. PICK f \in Inodes : name' = [name EXCEPT !.to = f]
    BY <1>3 DEF SaveByRename
  <2> QED BY <1>1, <1>3, <2>1 DEF SaveByRename, Changes
<1>4. CASE Remove
  BY <1>1, <1>4 DEF Remove, Changes
<1>5. CASE Redirect
  BY <1>1, <1>5 DEF Redirect, Changes
<1>6. CASE ReplaceRoot
  BY <1>1, <1>6 DEF ReplaceRoot, Changes
<1> QED BY <1>2, <1>3, <1>4, <1>5, <1>6 DEF Environment
-----------------------------------------------------------------------------
(* What a call does.                                                       *)

\* A reader with a call to make after this one.
LEMMA NotTheLast ==
    ASSUME StateType, run.who # None, ~Last
    PROVE  run.at \in Nat \ {0} /\ run.at + 1 \in 1..Len(Script(run.who))
<1>1. run.who \in Readers /\ run.at \in 1..Len(Script(run.who))
  BY DEF StateType, Runs
<1>2. Len(Script(run.who)) \in Nat
  BY <1>1, ImportCalls, BundleCalls, RuntimeCalls, MakerCalls DEF Readers
<1> QED BY <1>1, <1>2 DEF Last

\* The reader goes on to its next call, and nothing else happens.
Moves ==
    /\ StateType'
    /\ UNCHANGED <<disk, name, root, changes, held, preview, answer>>
    /\ run'.who = run.who /\ run'.at = run.at + 1 /\ run'.since = run.since

\* The reader goes on with what it knows now.
LEMMA Moving ==
    ASSUME StateType, run.who # None, ~Last,
           NEW r, r \in Runs, r.who = run.who, r.at = run.at,
           r.since = run.since, Passes(r)
    PROVE  /\ Moves
           /\ run'.file = r.file /\ run'.looked = r.looked
           /\ run'.first = r.first /\ run'.bytes = r.bytes
           /\ run'.digest = r.digest
<1>1. run' = [r EXCEPT !.at = r.at + 1]
  BY DEF Passes
<1>2. run.at + 1 \in Nat
  BY NotTheLast
<1>3. r.at + 1 = run.at + 1
  OBVIOUS
<1>4. run' = [who |-> r.who, at |-> run.at + 1, file |-> r.file,
              looked |-> r.looked, first |-> r.first, bytes |-> r.bytes,
              digest |-> r.digest, since |-> r.since]
  BY <1>1, <1>3 DEF Runs
<1>5. /\ r.who \in Readers \cup {None} /\ r.file \in Inodes \cup {None}
      /\ r.looked \in {None} \cup [file : Inodes, size : Nat]
      /\ r.first \in {None} \cup Stats
      /\ r.bytes \in Seq(Values) /\ r.digest \in {None} \cup Seq(Values)
      /\ r.since \in Nat
  BY DEF Runs
<1>6. run' \in Runs
  BY <1>2, <1>4, <1>5 DEF Runs
<1>7. UNCHANGED <<disk, name, root, changes, held, preview, answer>>
  BY DEF Passes, World
<1>8. run'.at \in 1..Len(Script(run'.who))
  BY <1>4, NotTheLast
<1>9. run'.who # None
  BY <1>4
<1>10. answer' = None
  BY <1>7 DEF StateType
<1>11. StateType'
  BY <1>6, <1>7, <1>8, <1>9, <1>10 DEF StateType
<1> QED BY <1>4, <1>7, <1>11 DEF Moves

\* A call that is neither the root's nor the digest's comparison is not the last.
LEMMA CallsFollow ==
    ASSUME StateType, NEW c, c \notin {"root", "compare"}, At(c)
    PROVE  ~Last /\ run.who # None /\ run.who \in Readers
<1>1. run.who \in Readers /\ run.at \in 1..Len(Script(run.who))
  BY DEF StateType, Runs, At
<1>2. Last => At("root") \/ At("compare")
  BY <1>1, CallsInOrder DEF AllBefore
<1> QED BY <1>1, <1>2 DEF At

\* lstat keeps what the path leads to.
LEMMA Looking ==
    ASSUME StateType, Look
    PROVE  \/ Refuses
           \/ /\ At("look") /\ Regular /\ Moves
              /\ run'.looked = [file |-> name.to, size |-> Size(name.to)]
              /\ run'.file = run.file /\ run'.first = run.first
              /\ run'.bytes = run.bytes /\ run'.digest = run.digest
<1>1. At("look") /\ ~Last /\ run.who # None
  BY CallsFollow DEF Look
<1> DEFINE looked == [file |-> name.to, size |-> Size(name.to)]
           r == [run EXCEPT !.looked = looked]
<1>2. CASE Regular /\ Passes(r)
  <2>1. name.to \in Inodes
    BY <1>2 DEF Regular, StateType
  <2>2. Size(name.to) \in Nat
    BY <2>1, ContentIsSequence DEF StateType, Files, Size
  <2>3. looked \in [file : Inodes, size : Nat]
    BY <2>1, <2>2
  <2> HIDE DEF looked
  <2>4. /\ r \in Runs /\ r.who = run.who /\ r.at = run.at /\ r.since = run.since
        /\ r.file = run.file /\ r.looked = looked /\ r.first = run.first
        /\ r.bytes = run.bytes /\ r.digest = run.digest
    BY <2>3 DEF StateType, Runs
  <2>5. Passes(r)
    BY <1>2
  <2> HIDE DEF r
  <2>6. Moves /\ run'.looked = looked /\ run'.file = run.file
        /\ run'.first = run.first /\ run'.bytes = run.bytes
        /\ run'.digest = run.digest
    BY <1>1, <2>4, <2>5, Moving
  <2> QED BY <1>1, <1>2, <2>6 DEF looked
<1> QED BY <1>2 DEF Look

\* open gives the reader the file the path leads to.
LEMMA Opening ==
    ASSUME StateType, Open
    PROVE  \/ Refuses
           \/ /\ At("open") /\ name.to # None /\ Moves
              /\ run'.file = name.to
              /\ run'.looked = run.looked /\ run'.first = run.first
              /\ run'.bytes = run.bytes /\ run'.digest = run.digest
<1>1. At("open") /\ ~Last /\ run.who # None
  BY CallsFollow DEF Open
<1> DEFINE r == [run EXCEPT !.file = name.to]
<1>2. CASE Opens(run.who) /\ Passes(r)
  <2>1. name.to \in Inodes
    BY <1>2 DEF Opens, StateType
  <2>2. /\ r \in Runs /\ r.who = run.who /\ r.at = run.at /\ r.since = run.since
        /\ r.file = name.to /\ r.looked = run.looked /\ r.first = run.first
        /\ r.bytes = run.bytes /\ r.digest = run.digest
    BY <2>1 DEF StateType, Runs
  <2>3. Passes(r)
    BY <1>2
  <2> HIDE DEF r
  <2>4. Moves /\ run'.file = name.to /\ run'.looked = run.looked
        /\ run'.first = run.first /\ run'.bytes = run.bytes
        /\ run'.digest = run.digest
    BY <1>1, <2>2, <2>3, Moving
  <2> QED BY <1>1, <1>2, <2>4 DEF Opens
<1> QED BY <1>2 DEF Open, Check
\* Whoever looks through the handle has the file open.
LEMMA HandleIsOpen ==
    ASSUME StateType, OpenFile,
           At("stat") \/ At("match") \/ At("read") \/ At("again")
              \/ At("restat") \/ At("relook")
    PROVE  /\ run.who \in Readers /\ run.who # None /\ Past("open")
           /\ run.file \in Inodes
           /\ disk[run.file].data \in Contents
           /\ disk[run.file].written \in Nat /\ disk[run.file].touched \in Nat
           /\ Size(run.file) \in Nat
<1>1. run.who \in Readers /\ run.at \in 1..Len(Script(run.who)) /\ run.who # None
  BY DEF StateType, Runs, At
<1>2. Past("open")
  BY <1>1, CallsInOrder DEF OpenedBefore, StattedBefore, ReadBefore
<1>3. run.file \in Inodes
  BY <1>1, <1>2 DEF OpenFile
<1>4. disk[run.file] \in Files
  BY <1>3 DEF StateType
<1> QED BY <1>1, <1>2, <1>3, <1>4, ContentIsSequence DEF Files, Size

\* The first stat through the handle is kept.
LEMMA Stating ==
    ASSUME StateType, OpenFile, Stat
    PROVE  \/ Refuses
           \/ /\ At("stat") /\ Moves /\ StatIsFit(run.file)
              /\ run'.first = StatOf(run.file)
              /\ run'.file = run.file /\ run'.looked = run.looked
              /\ run'.bytes = run.bytes /\ run'.digest = run.digest
<1>1. At("stat") /\ ~Last /\ run.who # None
  BY CallsFollow DEF Stat
<1> DEFINE first == StatOf(run.file)
           r == [run EXCEPT !.first = first]
<1>2. CASE StatIsFit(run.file) /\ Passes(r)
  <2>1. first \in Stats
    BY <1>1, HandleIsOpen DEF StatOf, Stats
  <2> HIDE DEF first
  <2>2. /\ r \in Runs /\ r.who = run.who /\ r.at = run.at /\ r.since = run.since
        /\ r.file = run.file /\ r.looked = run.looked /\ r.first = first
        /\ r.bytes = run.bytes /\ r.digest = run.digest
    BY <2>1 DEF StateType, Runs
  <2>3. Passes(r)
    BY <1>2
  <2> HIDE DEF r
  <2>4. Moves /\ run'.first = first /\ run'.looked = run.looked
        /\ run'.file = run.file /\ run'.bytes = run.bytes
        /\ run'.digest = run.digest
    BY <1>1, <2>2, <2>3, Moving
  <2> QED BY <1>1, <1>2, <2>4 DEF first
<1> QED BY <1>2 DEF Stat, Check

\* What the reader knows is what it knew.
Knows ==
    /\ run'.file = run.file /\ run'.looked = run.looked
    /\ run'.first = run.first
    /\ run'.bytes = run.bytes /\ run'.digest = run.digest

\* A comparison that holds lets the reader go on with what it knew.
LEMMA GoingOn ==
    ASSUME StateType, run.who # None, ~Last, Passes(run)
    PROVE  Moves /\ Knows
<1>1. run \in Runs
  BY DEF StateType
<1> QED BY <1>1, Moving DEF Knows

\* realpath of the path is compared with the root.
LEMMA Resolving ==
    ASSUME StateType, Resolve
    PROVE  Refuses \/ (At("resolve") /\ Within /\ Moves /\ Knows)
BY CallsFollow, GoingOn DEF Resolve, Check

\* The resolved path is compared with the open file.
LEMMA Matching ==
    ASSUME StateType, Match
    PROVE  \/ Refuses
           \/ /\ At("match") /\ Moves /\ Knows
              /\ Regular /\ name.to = run.file /\ disk[run.file].links = 1
BY CallsFollow, GoingOn DEF Match, Check

\* The second stat through the handle.
LEMMA Restating ==
    ASSUME StateType, Restat
    PROVE  \/ Refuses
           \/ /\ At("restat") /\ Moves /\ Knows
              /\ RestatIsFit(StatOf(run.file))
BY CallsFollow, GoingOn DEF Restat, Check

\* The path is compared with the open file.
LEMMA Relooking ==
    ASSUME StateType, Relook
    PROVE  \/ Refuses
           \/ /\ At("relook") /\ Moves /\ Knows /\ Regular /\ name.to = run.file
BY CallsFollow, GoingOn DEF Relook, Check

\* The root is compared; the last comparison hands the bytes back.
LEMMA CheckingRoot ==
    ASSUME StateType, CheckRoot
    PROVE  \/ Refuses
           \/ At("root") /\ root = "picked" /\ Moves /\ Knows
           \/ At("root") /\ root = "picked" /\ Last /\ Accepts
<1>1. run.who # None /\ At("root")
  BY DEF CheckRoot, At
<1>2. CASE ~RootIsSame
  BY <1>2 DEF CheckRoot
<1>3. CASE RootIsSame /\ Last
  BY <1>1, <1>3 DEF CheckRoot, RootIsSame
<1>4. CASE RootIsSame /\ ~Last
  <2>1. Passes(run)
    BY <1>4 DEF CheckRoot
  <2> QED BY <1>1, <1>4, <2>1, GoingOn DEF RootIsSame
<1> QED BY <1>2, <1>3, <1>4

\* The digest is compared; the last comparison hands the bytes back.
LEMMA Comparing ==
    ASSUME StateType, Compare
    PROVE  \/ Refuses
           \/ At("compare") /\ DigestIsRight /\ Moves /\ Knows
           \/ At("compare") /\ DigestIsRight /\ Last /\ Accepts
<1>1. run.who # None /\ At("compare")
  BY DEF Compare, At
<1>2. CASE ~DigestIsRight
  BY <1>2 DEF Compare
<1>3. CASE DigestIsRight /\ Last
  BY <1>1, <1>3 DEF Compare
<1>4. CASE DigestIsRight /\ ~Last
  <2>1. Passes(run)
    BY <1>4 DEF Compare
  <2> QED BY <1>1, <1>4, <2>1, GoingOn
<1> QED BY <1>2, <1>3, <1>4

\* The reader has one more block.
Appends ==
    /\ StateType'
    /\ UNCHANGED <<disk, name, root, changes, held, preview, answer>>
    /\ Len(run.bytes) < Size(run.file)
    /\ run'.bytes = Append(run.bytes, disk[run.file].data[Len(run.bytes) + 1])
    /\ run'.who = run.who /\ run'.at = run.at /\ run'.since = run.since
    /\ run'.file = run.file /\ run'.looked = run.looked
    /\ run'.first = run.first /\ run'.digest = run.digest

\* A read call: the reader refuses, has all, or has one more block.
LEMMA Reading ==
    ASSUME StateType, OpenFile, ReadBlock
    PROVE  \/ Refuses
           \/ /\ At("read") /\ run.who = "bundle" /\ Complete /\ Moves
              /\ run'.digest = run.bytes /\ run'.bytes = <<>>
              /\ run'.file = run.file /\ run'.looked = run.looked
              /\ run'.first = run.first
           \/ /\ (At("read") /\ run.who # "bundle") \/ At("again")
              /\ Complete /\ Moves /\ Knows
           \/ (At("read") \/ At("again")) /\ ~Complete /\ Appends
<1>1. (At("read") \/ At("again")) /\ ~Last /\ run.who # None
  BY CallsFollow DEF ReadBlock
<1> DEFINE one == run.bytes
           none == <<>>
           digested == [run EXCEPT !.digest = one, !.bytes = none]
           more == Append(run.bytes, disk[run.file].data[Len(run.bytes) + 1])
           r == [run EXCEPT !.bytes = more]
<1>2. CASE Complete /\ At("read") /\ run.who = "bundle" /\ Passes(digested)
  <2>1. one \in Seq(Values) /\ none \in Seq(Values)
    BY DEF StateType, Runs
  <2> HIDE DEF one, none
  <2>2. /\ digested \in Runs /\ digested.who = run.who
        /\ digested.at = run.at /\ digested.since = run.since
        /\ digested.file = run.file /\ digested.looked = run.looked
        /\ digested.first = run.first /\ digested.bytes = none
        /\ digested.digest = one
    BY <2>1 DEF StateType, Runs
  <2>3. Passes(digested)
    BY <1>2
  <2> HIDE DEF digested
  <2>4. Moves /\ run'.digest = one /\ run'.bytes = none
        /\ run'.file = run.file /\ run'.looked = run.looked
        /\ run'.first = run.first
    BY <1>1, <2>2, <2>3, Moving
  <2> QED BY <1>2, <2>4 DEF one, none
<1>3. CASE Complete /\ ~(At("read") /\ run.who = "bundle") /\ Passes(run)
  BY <1>1, <1>3, GoingOn
<1>4. CASE /\ ~Complete /\ Len(run.bytes) < Size(run.file)
           /\ run' = r /\ UNCHANGED <<World, held, preview, answer>>
  <2>1. /\ disk[run.file].data \in Contents /\ run.bytes \in Seq(Values)
        /\ Len(run.bytes) < Len(disk[run.file].data)
    BY <1>1, <1>4, HandleIsOpen DEF StateType, Runs, Size
  <2>2. more \in Seq(Values)
    BY <2>1, OneMoreBlock
  <2> HIDE DEF more
  <2>3. /\ r \in Runs /\ r.who = run.who /\ r.at = run.at /\ r.since = run.since
        /\ r.file = run.file /\ r.looked = run.looked /\ r.first = run.first
        /\ r.bytes = more /\ r.digest = run.digest
    BY <2>2 DEF StateType, Runs
  <2>4. run' = r /\ UNCHANGED <<disk, name, root, changes, held, preview, answer>>
    BY <1>4 DEF World
  <2> HIDE DEF r
  <2>5. StateType'
    BY <1>1, <2>3, <2>4 DEF StateType
  <2> QED BY <1>1, <1>4, <2>3, <2>4, <2>5 DEF Appends, more
<1>5. Len(run.bytes) >= Size(run.file) \/ Len(run.bytes) < Size(run.file)
  BY <1>1, HandleIsOpen DEF StateType, Runs
<1> QED BY <1>1, <1>2, <1>3, <1>4, <1>5 DEF ReadBlock
-----------------------------------------------------------------------------
(* The types.                                                              *)

\* A change of the disk keeps every variable in its domain.
LEMMA ChangeKeepsTypes ==
    ASSUME StateType, Environment
    PROVE  StateType'
<1>1. disk' \in [Inodes -> Files]
  BY FilesChange
<1>2. /\ name' \in [to : Inodes \cup {None}, kind : {"plain", "link", "outside"}]
      /\ root' \in {"picked", "other"} /\ changes' = changes + 1
      /\ held' = held \cup Now' /\ UNCHANGED <<run, preview, answer>>
  BY NameChanges
<1>3. Now' \subseteq Sights
  <2>1. CASE Regular'
    <3>1. name'.to \in Inodes
      BY <1>2, <2>1 DEF Regular
    <3>2. disk'[name'.to] \in Files
      BY <1>1, <3>1
    <3>3. Within' \in BOOLEAN
      BY DEF Within
    <3>4. [data |-> disk'[name'.to].data, links |-> disk'[name'.to].links,
           root |-> root', inside |-> Within'] \in Sights
      BY <1>2, <3>2, <3>3 DEF Files, Sights
    <3> QED BY <2>1, <3>4 DEF Now
  <2>2. CASE ~Regular'
    BY <2>2 DEF Now
  <2> QED BY <2>1, <2>2
<1>4. held' \subseteq Sights /\ changes' \in Nat
  BY <1>2, <1>3 DEF StateType
<1> QED BY <1>1, <1>2, <1>4 DEF StateType, Script

\* A reader begins with nothing looked at, opened or read.
LEMMA Beginning ==
    ASSUME StateType, NEW r, r \in Readers, Begin(r)
    PROVE  /\ StateType'
           /\ UNCHANGED <<disk, name, root, changes, preview>>
           /\ held' = Now /\ answer' = None
           /\ run'.who = r /\ run'.at = 1 /\ run'.since = changes
           /\ run'.bytes = <<>>
<1> DEFINE none == <<>>
<1>1. none \in Seq(Values) /\ changes \in Nat
  BY DEF StateType
<1>2. run' = [who |-> r, at |-> 1, file |-> None, looked |-> None,
              first |-> None, bytes |-> none, digest |-> None, since |-> changes]
  BY DEF Begin, Idle
<1> HIDE DEF none
<1>3. /\ run' \in Runs /\ run'.who = r /\ run'.at = 1 /\ run'.since = changes
      /\ run'.bytes = none
  BY <1>1, <1>2 DEF Runs
<1>4. /\ UNCHANGED <<disk, name, root, changes, preview>>
      /\ held' = Now /\ answer' = None
  BY DEF Begin, World
<1>5. r # None
  BY NoneAssumption
<1>6. Len(Script(r)) \in Nat \ {0}
  BY DEF Readers, Script, ImportScript, BundleScript, RuntimeScript, MakerScript
<1>7. run'.at \in 1..Len(Script(run'.who))
  BY <1>3, <1>6
<1>8. held' \subseteq Sights
  BY <1>4, NowIsSight
<1>9. StateType'
  BY <1>3, <1>4, <1>5, <1>7, <1>8 DEF StateType
<1> QED BY <1>3, <1>4, <1>9 DEF none

\* A refusal ends the reader and keeps everything else.
LEMMA Refusing ==
    ASSUME StateType, Refuses
    PROVE  /\ StateType' /\ run'.who = None /\ run'.at = 0
           /\ UNCHANGED <<disk, name, root, changes, preview, answer>>
<1> DEFINE none == <<>>
<1>1. none \in Seq(Values)
  OBVIOUS
<1>2. run' = [who |-> None, at |-> 0, file |-> None, looked |-> None,
              first |-> None, bytes |-> none, digest |-> None, since |-> 0]
  BY DEF Refuses, Idle
<1> HIDE DEF none
<1>3. run' \in Runs /\ run'.who = None /\ run'.at = 0
  BY <1>1, <1>2 DEF Runs
<1>4. UNCHANGED <<disk, name, root, changes, preview, answer>> /\ held' = {}
  BY DEF Refuses, World
<1>5. run' = Idle'
  BY DEF Refuses, Idle
<1> QED BY <1>3, <1>4, <1>5 DEF StateType

\* A reader that hands back what it read ends; the preview is kept.
LEMMA Accepting ==
    ASSUME StateType, run.who # None, Accepts
    PROVE  /\ StateType' /\ run'.who = None /\ run'.at = 0
           /\ UNCHANGED <<disk, name, root, changes>>
           /\ answer' = [who |-> run.who, bytes |-> run.bytes, held |-> held]
           /\ answer' # None
           /\ run.who = "preview" =>
                 preview' = [bytes |-> run.bytes, held |-> held, asOf |-> run.since]
           /\ run.who # "preview" => preview' = preview
<1> DEFINE none == <<>>
<1>1. none \in Seq(Values)
  OBVIOUS
<1>2. run' = [who |-> None, at |-> 0, file |-> None, looked |-> None,
              first |-> None, bytes |-> none, digest |-> None, since |-> 0]
  BY DEF Accepts, Idle
<1> HIDE DEF none
<1>3. run' \in Runs /\ run'.who = None /\ run'.at = 0
  BY <1>1, <1>2 DEF Runs
<1>4. /\ UNCHANGED <<disk, name, root, changes>> /\ held' = {}
      /\ answer' = [who |-> run.who, bytes |-> run.bytes, held |-> held]
      /\ run.who = "preview" =>
            preview' = [bytes |-> run.bytes, held |-> held, asOf |-> run.since]
      /\ run.who # "preview" => preview' = preview
  BY DEF Accepts, World
<1>5. answer' \in Answers
  BY <1>4 DEF StateType, Runs, Answers
<1>6. answer' # None
  BY <1>5, NoneAssumption
<1>7. run' = Idle'
  BY DEF Accepts, Idle
<1>8. StateType'
  BY <1>3, <1>4, <1>7 DEF StateType
<1> QED BY <1>3, <1>4, <1>6, <1>8

\* Every call of a reader refuses, moves on, hands back, or reads a block.
LEMMA CallEnds ==
    ASSUME StateType, OpenFile, Reads
    PROVE  run.who # None /\ (Refuses \/ Moves \/ Accepts \/ Appends)
<1>1. CASE CheckRoot
  BY <1>1, CheckingRoot DEF At, CheckRoot
<1>2. CASE Look
  BY <1>2, Looking DEF At, Look
<1>3. CASE Resolve
  BY <1>3, Resolving DEF At, Resolve
<1>4. CASE Open
  BY <1>4, Opening DEF At, Open
<1>5. CASE Stat
  BY <1>5, Stating DEF At, Stat
<1>6. CASE Match
  BY <1>6, Matching DEF At, Match
<1>7. CASE ReadBlock
  BY <1>7, Reading DEF At, ReadBlock
<1>8. CASE Restat
  BY <1>8, Restating DEF At, Restat
<1>9. CASE Relook
  BY <1>9, Relooking DEF At, Relook
<1>10. CASE Compare
  BY <1>10, Comparing DEF At, Compare
<1> QED BY <1>1, <1>2, <1>3, <1>4, <1>5, <1>6, <1>7, <1>8, <1>9, <1>10 DEF Reads

\* A step that changes nothing keeps the types.
LEMMA TypesStutter ==
    ASSUME StateType, UNCHANGED vars
    PROVE  StateType'
BY DEF StateType, vars, Script

\* Every step keeps every variable in its domain.
LEMMA TypesStep ==
    ASSUME StateType, OpenFile, [Next]_vars
    PROVE  StateType'
<1>1. CASE Environment
  BY <1>1, ChangeKeepsTypes
<1>2. CASE Reads
  <2>1. run.who # None /\ (Refuses \/ Moves \/ Accepts \/ Appends)
    BY <1>2, CallEnds
  <2>2. CASE Refuses
    BY <2>2, Refusing
  <2>3. CASE Accepts
    BY <2>1, <2>3, Accepting
  <2>4. CASE Moves \/ Appends
    BY <2>4 DEF Moves, Appends
  <2> QED BY <2>1, <2>2, <2>3, <2>4
<1>3. CASE \E r \in Readers : Begin(r)
  BY <1>3, Beginning
<1>4. CASE UNCHANGED vars
  BY <1>4, TypesStutter
<1> QED BY <1>1, <1>2, <1>3, <1>4 DEF Next
-----------------------------------------------------------------------------
(* What has been read.                                                     *)

\* A reader is at one call only.
LEMMA OneCall ==
    ASSUME NEW c, At(c), NEW e, e # c
    PROVE  ~At(e)
BY DEF At

\* A reader past its open call has a file.
LEMMA OpenFileStep ==
    ASSUME StateType, OpenFile, [Next]_vars
    PROVE  OpenFile'
<1>1. run.who # None => run.at \in Nat \ {0}
  BY DEF StateType
<1>2. CASE /\ run.who # None /\ Moves
           /\ IF At("open") THEN run'.file \in Inodes ELSE run'.file = run.file
           /\ IF At("stat") THEN run'.first \in Stats ELSE run'.first = run.first
  BY <1>1, <1>2, CallIsPast DEF OpenFile, Moves
<1>3. CASE Appends \/ UNCHANGED run
  <2>1. /\ run'.who = run.who /\ run'.at = run.at
        /\ run'.file = run.file /\ run'.first = run.first
    BY <1>3 DEF Appends
  <2> QED BY <2>1 DEF OpenFile, Past
<1>4. CASE run'.who = None
  BY <1>4 DEF OpenFile
<1>5. CASE Environment \/ UNCHANGED vars
  BY <1>3, <1>5, NameChanges DEF vars
<1>6. CASE \E r \in Readers : Begin(r)
  <2>1. run'.at = 1
    BY <1>6, Beginning
  <2>2. ~Past("open")' /\ ~Past("stat")'
    BY <2>1 DEF Past
  <2> QED BY <2>2 DEF OpenFile
<1>7. CASE Refuses \/ (run.who # None /\ Accepts)
  BY <1>4, <1>7, Refusing, Accepting
<1>8. CASE Reads
  <2>1. CASE CheckRoot
    BY <1>2, <1>7, <2>1, CheckingRoot, OneCall DEF At, Knows
  <2>2. CASE Look
    BY <1>2, <1>7, <2>2, Looking, OneCall DEF At
  <2>3. CASE Resolve
    BY <1>2, <1>7, <2>3, Resolving, OneCall DEF At, Knows
  <2>4. CASE Open
    <3>1. name.to # None => name.to \in Inodes
      BY DEF StateType
    <3> QED BY <1>2, <1>7, <2>4, <3>1, Opening DEF At
  <2>5. CASE Stat
    <3>1. StatOf(run.file) \in Stats
      BY <2>5, HandleIsOpen DEF Stat, StatOf, Stats
    <3> QED BY <1>2, <1>7, <2>5, <3>1, Stating, OneCall DEF At
  <2>6. CASE Match
    BY <1>2, <1>7, <2>6, Matching, OneCall DEF At, Knows
  <2>7. CASE ReadBlock
    BY <1>2, <1>3, <1>7, <2>7, Reading, OneCall DEF At, Knows
  <2>8. CASE Restat
    BY <1>2, <1>7, <2>8, Restating, OneCall DEF At, Knows
  <2>9. CASE Relook
    BY <1>2, <1>7, <2>9, Relooking, OneCall DEF At, Knows
  <2>10. CASE Compare
    BY <1>2, <1>7, <2>10, Comparing, OneCall DEF At, Knows
  <2> QED BY <1>8, <2>1, <2>2, <2>3, <2>4, <2>5, <2>6, <2>7, <2>8, <2>9, <2>10
          DEF Reads
<1> QED BY <1>5, <1>6, <1>8 DEF Next

\* What an observer has seen includes what the name leads to now.
LEMMA SeenStep ==
    ASSUME StateType, OpenFile, run.who # None => Now \subseteq held, [Next]_vars
    PROVE  run'.who # None => Now' \subseteq held'
<1>1. CASE Environment
  BY <1>1, NameChanges
<1>2. CASE Reads
  <2>1. run.who # None /\ (Refuses \/ Moves \/ Accepts \/ Appends)
    BY <1>2, CallEnds
  <2>2. CASE Refuses \/ Accepts
    BY <2>1, <2>2, Refusing, Accepting
  <2>3. CASE Moves \/ Appends
    <3>1. UNCHANGED <<disk, name, root, held>>
      BY <2>3 DEF Moves, Appends
    <3> QED BY <2>1, <3>1 DEF Now, Regular, Within
  <2> QED BY <2>1, <2>2, <2>3
<1>3. CASE \E r \in Readers : Begin(r)
  <2>1. UNCHANGED <<disk, name, root>> /\ held' = Now
    BY <1>3, Beginning
  <2> QED BY <2>1 DEF Now, Regular, Within
<1>4. CASE UNCHANGED vars
  BY <1>4 DEF vars, Now, Regular, Within
<1> QED BY <1>1, <1>2, <1>3, <1>4 DEF Next

\* A change of the disk keeps what is known of the preview's bytes.
LEMMA ChangeKeepsPreview ==
    ASSUME StateType, OpenFile, PreviewReads, Environment
    PROVE  PreviewReads'
<1>1. UNCHANGED run /\ held \subseteq held'
      /\ (root' = "picked" /\ name'.kind = "plain" =>
             root = "picked" /\ name.kind = "plain")
  BY NameChanges
<1>2. root' = "picked" => root = "picked"
  BY DEF Environment, WriteInPlace, SaveByRename, Relink, Remove, Redirect, ReplaceRoot
<1>3. ASSUME Importing(4, 7)
      PROVE  /\ run.file \in Inodes
             /\ run.first.written <= disk'[run.file].written
             /\ run.first.written = disk'[run.file].written =>
                   /\ run.first.written = disk[run.file].written
                   /\ disk'[run.file].data = disk[run.file].data
  <2>1. run.who \in {"preview", "commit"} /\ run.at \in 4..7 /\ run.who # None
    BY <1>3, NoneAssumption DEF Importing, Readers
  <2>2. Past("open")
    BY <2>1, ImportPast
  <2>3. run.file \in Inodes
    BY <2>1, <2>2 DEF OpenFile
  <2>4. disk[run.file].written \in Nat /\ disk'[run.file].written \in Nat
    BY <2>3, FilesChange DEF StateType, Files
  <2>5. run.first.written <= disk[run.file].written
    BY <1>3 DEF PreviewReads
  <2>6. /\ disk[run.file].written <= disk'[run.file].written
        /\ disk'[run.file].written = disk[run.file].written =>
              disk'[run.file].data = disk[run.file].data
    BY <2>3, FilesChange
  <2>7. run.first.written \in Nat
    BY <2>1, ImportPast DEF OpenFile, Stats
  <2> QED BY <2>3, <2>4, <2>5, <2>6, <2>7
<1>4. PreviewReads
  OBVIOUS
<1>5. Importing(1, 5)' => run'.bytes = <<>>
  BY <1>1, <1>4 DEF PreviewReads, Importing
<1>6. Importing(4, 7)' =>
         /\ run'.first.written <= disk'[run'.file].written
         /\ run'.first.written = disk'[run'.file].written =>
               StartOf(run'.bytes, disk'[run'.file].data)
  <2> SUFFICES ASSUME Importing(4, 7)'
               PROVE  /\ run.first.written <= disk'[run.file].written
                      /\ run.first.written = disk'[run.file].written =>
                            StartOf(run.bytes, disk'[run.file].data)
    BY <1>1
  <2>1. Importing(4, 7)
    BY <1>1 DEF Importing
  <2> QED BY <1>3, <1>4, <2>1 DEF PreviewReads
<1>7. Importing(6, 7)' /\ root' = "picked" /\ name'.kind = "plain" =>
         \E o \in held' :
             /\ o.links = 1 /\ o.inside /\ o.root = "picked"
             /\ run'.first.written = disk'[run'.file].written =>
                   o.data = disk'[run'.file].data
  <2> SUFFICES ASSUME Importing(6, 7)', root' = "picked", name'.kind = "plain"
               PROVE  \E o \in held' :
                         /\ o.links = 1 /\ o.inside /\ o.root = "picked"
                         /\ run.first.written = disk'[run.file].written =>
                               o.data = disk'[run.file].data
    BY <1>1
  <2>1. Importing(6, 7) /\ Importing(4, 7)
    BY <1>1 DEF Importing
  <2>2. PICK o \in held :
            /\ o.links = 1 /\ o.inside /\ o.root = "picked"
            /\ run.first.written = disk[run.file].written =>
                  o.data = disk[run.file].data
    BY <1>1, <1>4, <2>1 DEF PreviewReads
  <2>3. o \in held'
    BY <1>1, <2>2
  <2> QED BY <1>3, <2>1, <2>2, <2>3
<1>8. /\ run'.who = "preview" /\ run'.at = 8 /\ root' = "picked"
            /\ name'.kind = "plain" => PickedIn(held', run'.bytes)
      /\ run'.who = "preview" /\ run'.at \in 9..11 /\ root' = "picked" =>
            PickedIn(held', run'.bytes)
  BY <1>1, <1>2, <1>4 DEF PreviewReads, PickedIn
<1> QED BY <1>5, <1>6, <1>7, <1>8 DEF PreviewReads, PickedIn, StartOf
\* When the name leads to a regular file, an observer sees that file's data.
LEMMA SeenNow ==
    ASSUME Now \subseteq held, Regular
    PROVE  \E o \in held :
              /\ o.data = disk[name.to].data /\ o.links = disk[name.to].links
              /\ o.root = root /\ (o.inside <=> name.kind = "plain")
<1>1. [data |-> disk[name.to].data, links |-> disk[name.to].links,
       root |-> root, inside |-> Within] \in held
  BY DEF Now
<1>2. Within <=> name.kind = "plain"
  BY DEF Regular, Within
<1> QED BY <1>1, <1>2

\* A call of the import's reader keeps what is known of the preview's bytes.
LEMMA CallKeepsPreview ==
    ASSUME StateType, OpenFile, PreviewReads, Now \subseteq held, Reads
    PROVE  PreviewReads'
<1> USE DEF Importing
<1>1. run.who # None /\ run.who \in Readers /\ run.at \in 1..Len(Script(run.who))
      /\ (Refuses \/ Moves \/ Accepts \/ Appends)
  BY CallEnds DEF StateType, Runs
<1>2. CASE Refuses \/ Accepts
  <2>1. run'.who = None /\ run'.at = 0
    BY <1>1, <1>2, Refusing, Accepting
  <2>2. ~(run'.who \in {"preview", "commit"})
    BY <2>1, NoneAssumption DEF Readers
  <2> QED BY <2>2 DEF PreviewReads
<1>3. CASE run'.who = run.who /\ run.who \notin {"preview", "commit"}
  BY <1>3 DEF PreviewReads
<1>4. ASSUME ~Refuses, ~Accepts, run.who \in {"preview", "commit"}
      PROVE  PreviewReads'
  <2>1. UNCHANGED <<disk, name, root, held>> /\ run'.who = run.who
    BY <1>1, <1>4 DEF Moves, Appends
  <2>2. run.at \in 1..11 /\ run'.at \in 1..11
    <3>1. run'.at \in 1..Len(Script(run'.who))
      BY <1>1, <1>4, <2>1 DEF Moves, Appends, StateType
    <3>2. Len(Script(run.who)) = 11 /\ run.at \in 1..11
      BY <1>1, <1>4, ImportCalls
    <3>3. Script(run'.who) = Script(run.who)
      BY <2>1
    <3> QED BY <3>1, <3>2, <3>3
  <2>3. CASE CheckRoot
    <3>1. At("root") /\ run'.at = run.at + 1 /\ run'.bytes = run.bytes
      BY <1>4, <2>3, CheckingRoot DEF Moves, Knows
    <3>2. run.at = 1 /\ run'.at = 2
      BY <1>1, <1>4, <2>2, <3>1, ImportCalls
    <3> QED BY <1>4, <3>1, <3>2 DEF PreviewReads
  <2>4. CASE Look \/ Relook
    BY <1>1, <1>4, <2>4, ImportCalls DEF Look, Relook
  <2>5. CASE Open
    <3>1. At("open") /\ run'.at = run.at + 1 /\ run'.bytes = run.bytes
      BY <1>4, <2>5, Opening DEF Moves
    <3>2. run.at = 2 /\ run'.at = 3
      BY <1>1, <1>4, <3>1, ImportCalls
    <3> QED BY <1>4, <3>1, <3>2 DEF PreviewReads
  <2>6. CASE Stat
    <3>1. /\ At("stat") /\ run'.at = run.at + 1 /\ run'.bytes = run.bytes
          /\ run'.file = run.file /\ run'.first = StatOf(run.file)
      BY <1>4, <2>6, Stating DEF Moves
    <3>2. run.at = 3 /\ run'.at = 4
      BY <1>1, <1>4, <3>1, ImportCalls
    <3>3. disk[run.file].data \in Contents /\ disk[run.file].written \in Nat
      BY <3>1, HandleIsOpen
    <3>4. run'.bytes = <<>> /\ StartOf(<<>>, disk[run.file].data)
      BY <1>4, <3>1, <3>2, <3>3, NothingRead DEF PreviewReads
    <3>5. run'.first.written = disk'[run'.file].written
          /\ StartOf(run'.bytes, disk'[run'.file].data)
      BY <2>1, <3>1, <3>4 DEF StatOf
    <3>6. run'.first.written <= disk'[run'.file].written
      BY <2>1, <3>1, <3>3, <3>5
    <3> QED BY <3>2, <3>4, <3>5, <3>6 DEF PreviewReads, StartOf
  <2>7. CASE Resolve
    <3>1. /\ At("resolve") /\ Within /\ run'.at = run.at + 1 /\ Knows
      BY <1>4, <2>7, Resolving DEF Moves
    <3>2. (run.at = 4 /\ run'.at = 5) \/ (run.at = 8 /\ run'.at = 9)
      BY <1>1, <1>4, <3>1, ImportCalls
    <3>3. CASE run.at = 4 /\ run'.at = 5
      BY <1>4, <2>1, <3>1, <3>3 DEF PreviewReads, Knows, StartOf
    <3>4. CASE run.at = 8 /\ run'.at = 9
      BY <1>4, <2>1, <3>1, <3>4 DEF PreviewReads, Knows, Within, PickedIn
    <3> QED BY <3>2, <3>3, <3>4
  <2>8. CASE Match
    <3>1. /\ At("match") /\ run'.at = run.at + 1 /\ Knows
          /\ Regular /\ name.to = run.file /\ disk[run.file].links = 1
      BY <1>4, <2>8, Matching DEF Moves
    <3>2. (run.at = 5 /\ run'.at = 6) \/ (run.at = 9 /\ run'.at = 10)
      BY <1>1, <1>4, <3>1, ImportCalls
    <3>3. PICK o \in held : o.data = disk[name.to].data /\ o.links = disk[name.to].links
               /\ o.root = root /\ (o.inside <=> name.kind = "plain")
      BY <3>1, SeenNow
    <3>4. CASE run.at = 5 /\ run'.at = 6
      BY <1>4, <2>1, <3>1, <3>3, <3>4 DEF PreviewReads, Knows, StartOf
    <3>5. CASE run.at = 9 /\ run'.at = 10
      BY <1>4, <2>1, <3>1, <3>5 DEF PreviewReads, Knows, PickedIn
    <3> QED BY <3>2, <3>4, <3>5
  <2>9. CASE ReadBlock
    <3>1. run.at = 6 /\ At("read")
      BY <1>1, <1>4, <2>9, ImportCalls DEF ReadBlock
    <3>2. CASE Moves /\ Knows
      BY <1>4, <2>1, <3>1, <3>2 DEF PreviewReads, Moves, Knows, StartOf
    <3>3. CASE Appends
      <4>1. disk[run.file].data \in Contents /\ run.bytes \in Seq(Values)
            /\ Len(run.bytes) < Len(disk[run.file].data)
        BY <3>1, <3>3, HandleIsOpen DEF Appends, Size, StateType, Runs
      <4>2. StartOf(run.bytes, disk[run.file].data) =>
                StartOf(run'.bytes, disk[run.file].data)
        BY <3>3, <4>1, OneMoreBlock DEF Appends
      <4>3. run'.at = 6 /\ run'.file = run.file /\ run'.first = run.first
        BY <3>1, <3>3 DEF Appends
      <4> QED BY <1>4, <2>1, <3>1, <4>2, <4>3 DEF PreviewReads, StartOf
    <3> QED BY <1>4, <2>9, <3>2, <3>3, Reading DEF PreviewReads
  <2>10. CASE Restat
    <3>1. At("restat") /\ Moves /\ Knows /\ RestatIsFit(StatOf(run.file))
      BY <1>4, <2>10, Restating
    <3>2. run.at = 7 /\ run'.at = 8
      BY <1>1, <1>4, <3>1, ImportCalls DEF Moves
    <3>3. CASE run.who = "preview"
      <4>1. run.first.written = disk[run.file].written
            /\ Size(run.file) = Len(run.bytes)
        BY <3>1, <3>3 DEF RestatIsFit, StatOf
      <4>2. StartOf(run.bytes, disk[run.file].data)
        BY <1>4, <3>2, <4>1 DEF PreviewReads
      <4>3. disk[run.file].data \in Contents /\ run.bytes \in Seq(Values)
            /\ Len(run.bytes) \in Nat
        BY <3>1, HandleIsOpen DEF StateType, Runs
      <4>4. run.bytes = disk[run.file].data
        BY <4>1, <4>2, <4>3, StartIsAll DEF Size
      <4>5. root = "picked" /\ name.kind = "plain" => PickedIn(held, run.bytes)
        BY <1>4, <3>2, <4>1, <4>4 DEF PreviewReads, PickedIn
      <4> QED BY <2>1, <3>1, <3>2, <4>5 DEF PreviewReads, Knows, PickedIn
    <3>4. CASE run.who = "commit"
      BY <2>1, <3>2, <3>4 DEF PreviewReads
    <3> QED BY <1>4, <3>3, <3>4
  <2>11. CASE Compare
    <3>1. At("compare") /\ Moves /\ Knows
      BY <1>1, <1>4, <2>11, Comparing
    <3>2. run.at = 10 /\ run'.at = 11
      BY <1>1, <1>4, <3>1, ImportCalls DEF Moves
    <3> QED BY <1>4, <2>1, <3>1, <3>2 DEF PreviewReads, Knows, PickedIn
  <2> QED BY <2>3, <2>4, <2>5, <2>6, <2>7, <2>8, <2>9, <2>10, <2>11 DEF Reads
<1> QED BY <1>1, <1>2, <1>3, <1>4 DEF Moves, Appends
\* A change of the disk keeps what is known of the bundle's bytes.
LEMMA ChangeKeepsBundle ==
    ASSUME StateType, OpenFile, BundleReads, Environment
    PROVE  BundleReads'
<1>1. UNCHANGED run /\ held \subseteq held'
  BY NameChanges
<1>2. ASSUME Bundling(6, 11)
      PROVE  /\ run.first.touched <= disk'[run.file].touched
             /\ run.first.touched = disk'[run.file].touched =>
                   /\ run.first.touched = disk[run.file].touched
                   /\ disk'[run.file].data = disk[run.file].data
  <2>1. run.who = "bundle" /\ run.at \in 6..11 /\ run.who # None
    BY <1>2, NoneAssumption DEF Bundling, Readers
  <2>2. Past("open") /\ Past("stat")
    BY <2>1, BundlePast
  <2>3. run.file \in Inodes /\ run.first.touched \in Nat
    BY <2>1, <2>2 DEF OpenFile, Stats
  <2>4. disk[run.file].touched \in Nat /\ disk'[run.file].touched \in Nat
    BY <2>3, FilesChange DEF StateType, Files
  <2>5. run.first.touched <= disk[run.file].touched
    BY <1>2 DEF BundleReads
  <2>6. /\ disk[run.file].touched <= disk'[run.file].touched
        /\ disk'[run.file].touched = disk[run.file].touched =>
              disk'[run.file].data = disk[run.file].data
    BY <2>3, FilesChange
  <2> QED BY <2>3, <2>4, <2>5, <2>6
<1>3. Bundling(6, 11)' => run'.first.touched <= disk'[run'.file].touched
  BY <1>1, <1>2 DEF Bundling
<1>4. ASSUME Bundling(10, 11)', run'.first.touched = disk'[run'.file].touched
      PROVE  StartOf(run'.bytes, disk'[run'.file].data)
  <2>1. Bundling(6, 11) /\ Bundling(10, 11)
    BY <1>1, <1>4 DEF Bundling
  <2> QED BY <1>1, <1>2, <1>4, <2>1 DEF BundleReads
<1>5. ASSUME Bundling(9, 11)', run'.first.touched = disk'[run'.file].touched
      PROVE  \E o \in held' : o.data = disk'[run'.file].data
  <2>1. Bundling(6, 11) /\ Bundling(9, 11)
    BY <1>1, <1>5 DEF Bundling
  <2>2. PICK o \in held : o.data = disk[run.file].data
    BY <1>1, <1>2, <1>5, <2>1 DEF BundleReads
  <2>3. o \in held' /\ o.data = disk'[run'.file].data
    BY <1>1, <1>2, <1>5, <2>1, <2>2
  <2> QED BY <2>3
<1>6. /\ Bundling(11, 11)' => Len(run'.bytes) = run'.first.size
      /\ Bundling(7, 9)' => run'.bytes = <<>>
      /\ Bundling(12, 14)' => \E o \in held' : o.data = run'.bytes
  BY <1>1 DEF BundleReads, Bundling
<1> QED BY <1>3, <1>4, <1>5, <1>6 DEF BundleReads, StartOf

\* A call of the bundle's reader keeps what is known of its bytes.
LEMMA CallKeepsBundle ==
    ASSUME StateType, OpenFile, BundleReads, Now \subseteq held, Reads
    PROVE  BundleReads'
<1> USE DEF Bundling
<1>1. run.who # None /\ run.who \in Readers /\ run.at \in 1..Len(Script(run.who))
      /\ (Refuses \/ Moves \/ Accepts \/ Appends)
  BY CallEnds DEF StateType, Runs
<1>2. CASE Refuses \/ Accepts
  <2>1. run'.who = None /\ run'.at = 0
    BY <1>1, <1>2, Refusing, Accepting
  <2>2. run'.who # "bundle"
    BY <2>1, NoneAssumption DEF Readers
  <2> QED BY <2>2 DEF BundleReads
<1>3. CASE run'.who = run.who /\ run.who # "bundle"
  BY <1>3 DEF BundleReads
<1>4. ASSUME ~Refuses, ~Accepts, run.who = "bundle"
      PROVE  BundleReads'
  <2>1. UNCHANGED <<disk, name, root, held>> /\ run'.who = run.who
    BY <1>1, <1>4 DEF Moves, Appends
  <2>2. run.at \in 1..14 /\ run'.at \in 1..14
    <3>1. run'.at \in 1..Len(Script(run'.who))
      BY <1>1, <1>4, <2>1 DEF Moves, Appends, StateType
    <3>2. Len(Script(run.who)) = 14 /\ run.at \in 1..14
      BY <1>1, <1>4, BundleCalls
    <3>3. Script(run'.who) = Script(run.who)
      BY <2>1
    <3> QED BY <3>1, <3>2, <3>3
  <2>3. CASE CheckRoot \/ Match
    BY <1>1, <1>4, <2>3, BundleCalls DEF CheckRoot, Match
  <2>4. CASE Look
    <3>1. At("look") /\ run'.at = run.at + 1
      BY <1>4, <2>4, Looking DEF Moves
    <3>2. run.at \in {1, 3} /\ run'.at \in {2, 4}
      BY <1>1, <1>4, <3>1, BundleCalls
    <3> QED BY <3>2 DEF BundleReads
  <2>5. CASE Open
    <3>1. At("open") /\ run'.at = run.at + 1
      BY <1>4, <2>5, Opening DEF Moves
    <3>2. run.at = 4 /\ run'.at = 5
      BY <1>1, <1>4, <3>1, BundleCalls
    <3> QED BY <3>2 DEF BundleReads
  <2>6. CASE Stat
    <3>1. /\ At("stat") /\ run'.at = run.at + 1
          /\ run'.file = run.file /\ run'.first = StatOf(run.file)
      BY <1>4, <2>6, Stating DEF Moves
    <3>2. run.at = 5 /\ run'.at = 6
      BY <1>1, <1>4, <3>1, BundleCalls
    <3>3. disk[run.file].touched \in Nat
      BY <3>1, HandleIsOpen
    <3>4. run'.first.touched <= disk'[run'.file].touched
      BY <2>1, <3>1, <3>3 DEF StatOf
    <3> QED BY <3>2, <3>4 DEF BundleReads
  <2>7. CASE Resolve
    <3>1. At("resolve") /\ run'.at = run.at + 1 /\ Knows
      BY <1>4, <2>7, Resolving DEF Moves
    <3>2. \/ run.at = 2 /\ run'.at = 3
          \/ run.at = 9 /\ run'.at = 10
          \/ run.at = 13 /\ run'.at = 14
      BY <1>1, <1>4, <3>1, BundleCalls
    <3>3. CASE run.at = 2 /\ run'.at = 3
      BY <3>3 DEF BundleReads
    <3>4. CASE run.at = 9 /\ run'.at = 10
      <4>1. run.bytes = <<>>
        BY <1>4, <3>4 DEF BundleReads
      <4>2. disk[run.file].data \in Contents
        <5>1. Past("open")
          BY <1>4, <2>2, <3>4, BundlePast
        <5>2. run.file \in Inodes
          BY <1>1, <5>1 DEF OpenFile
        <5> QED BY <5>2 DEF StateType, Files
      <4>3. StartOf(run.bytes, disk[run.file].data)
        BY <4>1, <4>2, NothingRead
      <4> QED BY <1>4, <2>1, <3>1, <3>4, <4>3 DEF BundleReads, Knows, StartOf
    <3>5. CASE run.at = 13 /\ run'.at = 14
      BY <1>4, <2>1, <3>1, <3>5 DEF BundleReads, Knows
    <3> QED BY <3>2, <3>3, <3>4, <3>5
  <2>8. CASE ReadBlock
    <3>1. (run.at = 6 /\ At("read") /\ ~At("again"))
             \/ (run.at = 10 /\ At("again") /\ ~At("read"))
      BY <1>1, <1>4, <2>8, BundleCalls DEF ReadBlock
    <3>2. CASE run.at = 6 /\ Moves /\ run'.bytes = <<>>
               /\ run'.file = run.file /\ run'.first = run.first
      BY <1>4, <2>1, <3>2 DEF BundleReads, Moves
    <3>3. CASE run.at = 10 /\ Complete /\ Moves /\ Knows
      <4>1. Len(run.bytes) = run.first.size
        BY <1>4, <3>3 DEF Complete
      <4> QED BY <1>4, <2>1, <3>3, <4>1 DEF BundleReads, Moves, Knows, StartOf
    <3>4. CASE Appends
      <4>1. disk[run.file].data \in Contents /\ run.bytes \in Seq(Values)
            /\ Len(run.bytes) < Len(disk[run.file].data)
        BY <3>1, <3>4, HandleIsOpen DEF Appends, Size, StateType, Runs
      <4>2. StartOf(run.bytes, disk[run.file].data) =>
                StartOf(run'.bytes, disk[run.file].data)
        BY <3>4, <4>1, OneMoreBlock DEF Appends
      <4>3. run'.at = run.at /\ run'.file = run.file /\ run'.first = run.first
        BY <3>4 DEF Appends
      <4>4. CASE run.at = 6
        BY <1>4, <2>1, <4>3, <4>4 DEF BundleReads
      <4>5. CASE run.at = 10
        BY <1>4, <2>1, <4>2, <4>3, <4>5 DEF BundleReads, StartOf
      <4> QED BY <3>1, <4>4, <4>5
    <3> QED BY <1>4, <2>8, <3>1, <3>2, <3>3, <3>4, Reading
  <2>9. CASE Restat
    <3>1. At("restat") /\ Moves /\ Knows /\ RestatIsFit(StatOf(run.file))
      BY <1>4, <2>9, Restating
    <3>2. (run.at = 7 /\ run'.at = 8) \/ (run.at = 11 /\ run'.at = 12)
      BY <1>1, <1>4, <3>1, BundleCalls DEF Moves
    <3>3. CASE run.at = 7 /\ run'.at = 8
      BY <1>4, <2>1, <3>1, <3>3 DEF BundleReads, Knows
    <3>4. CASE run.at = 11 /\ run'.at = 12
      <4>1. run.first = StatOf(run.file)
        BY <1>4, <3>1 DEF RestatIsFit
      <4>2. run.first.touched = disk[run.file].touched
            /\ run.first.size = Size(run.file)
        BY <4>1 DEF StatOf
      <4>3. /\ StartOf(run.bytes, disk[run.file].data)
            /\ \E o \in held : o.data = disk[run.file].data
            /\ Len(run.bytes) = Size(run.file)
        BY <1>4, <3>4, <4>2 DEF BundleReads
      <4>4. disk[run.file].data \in Contents /\ run.bytes \in Seq(Values)
            /\ Len(run.bytes) \in Nat
        BY <3>1, HandleIsOpen DEF StateType, Runs
      <4>5. run.bytes = disk[run.file].data
        BY <4>3, <4>4, StartIsAll DEF Size
      <4> QED BY <2>1, <3>1, <3>4, <4>3, <4>5 DEF BundleReads, Knows
    <3> QED BY <3>2, <3>3, <3>4
  <2>10. CASE Relook
    <3>1. At("relook") /\ Moves /\ Knows /\ Regular /\ name.to = run.file
      BY <1>4, <2>10, Relooking
    <3>2. (run.at = 8 /\ run'.at = 9) \/ (run.at = 12 /\ run'.at = 13)
      BY <1>1, <1>4, <3>1, BundleCalls DEF Moves
    <3>3. CASE run.at = 8 /\ run'.at = 9
      <4>1. \E o \in held : o.data = disk[run.file].data
        BY <3>1, SeenNow
      <4> QED BY <1>4, <2>1, <3>1, <3>3, <4>1 DEF BundleReads, Knows
    <3>4. CASE run.at = 12 /\ run'.at = 13
      BY <1>4, <2>1, <3>1, <3>4 DEF BundleReads, Knows
    <3> QED BY <3>2, <3>3, <3>4
  <2>11. CASE Compare
    <3>1. run.at = 14
      BY <1>1, <1>4, <2>11, BundleCalls DEF Compare
    <3>2. run'.at = 15
      BY <1>4, <2>11, <3>1, Comparing DEF Moves
    <3> QED BY <2>2, <3>2
  <2> QED BY <2>3, <2>4, <2>5, <2>6, <2>7, <2>8, <2>9, <2>10, <2>11 DEF Reads
<1> QED BY <1>1, <1>2, <1>3, <1>4 DEF Moves, Appends
\* A reader hands back what it read after its last comparison: for the import
\* that of the root, for the bundle that of the two passes.
LEMMA HandingBack ==
    ASSUME StateType, OpenFile, Reads, Accepts
    PROVE  /\ run.who \in {"preview", "commit"} => run.at = 11 /\ root = "picked"
           /\ run.who = "bundle" => run.at = 14
<1>1. run.who # None /\ run.who \in Readers /\ run.at \in 1..Len(Script(run.who))
  BY CallEnds DEF StateType, Runs
<1>2. run'.who = None /\ answer' # None /\ answer = None
  BY <1>1, Accepting DEF StateType
<1>3. ~Refuses /\ ~Moves /\ ~Appends
  BY <1>1, <1>2, Refusing DEF Moves, Appends
<1>4. CASE CheckRoot
  <2>1. At("root") /\ root = "picked" /\ Last
    BY <1>3, <1>4, CheckingRoot
  <2> QED BY <1>1, <2>1, ImportCalls, BundleCalls DEF Last
<1>5. CASE Compare
  <2>1. At("compare") /\ Last
    BY <1>3, <1>5, Comparing
  <2>2. run.at = Len(Script(run.who))
    BY <2>1 DEF Last
  <2>3. run.who \notin {"preview", "commit"}
    <3> SUFFICES ASSUME run.who \in {"preview", "commit"}
                   PROVE  FALSE
      OBVIOUS
    <3>2. Len(Script(run.who)) = 11
      BY <1>1, ImportCalls
    <3>3. run.at = 10
      BY <1>1, <2>1, ImportCalls
    <3> QED BY <2>2, <3>2, <3>3
  <2>4. run.who = "bundle" => run.at = 14
    BY <1>1, <2>2, BundleCalls
  <2> QED BY <2>3, <2>4
<1>6. CASE Look \/ Resolve \/ Open \/ Stat
  BY <1>3, <1>6, Looking, Resolving, Opening, Stating
<1>7. CASE Match \/ ReadBlock \/ Restat \/ Relook
  BY <1>3, <1>7, Matching, Reading, Restating, Relooking
<1> QED BY <1>4, <1>5, <1>6, <1>7 DEF Reads

\* What a commit hands back is what the preview listed.
LEMMA RepeatStep ==
    ASSUME StateType, OpenFile, PreviewReads, CommitRepeats, [Next]_vars
    PROVE  CommitRepeats'
<1>1. CASE Environment \/ UNCHANGED vars
  <2>1. UNCHANGED <<run, preview, answer>>
    BY <1>1, NameChanges DEF vars
  <2> QED BY <2>1 DEF CommitRepeats, PickedIn
<1>2. CASE \E r \in Readers : Begin(r)
  <2>1. PICK r \in Readers : Begin(r)
    BY <1>2
  <2>2. /\ run'.who = r /\ run'.at = 1 /\ preview' = preview /\ answer' = None
    BY <2>1, Beginning
  <2>3. r = "commit" => preview # None
    BY <2>1 DEF Begin
  <2> QED BY <2>2, <2>3 DEF CommitRepeats, PickedIn
<1>3. CASE Reads
  <2>1. run.who # None /\ run.who \in Readers /\ run.at \in 1..Len(Script(run.who))
        /\ (Refuses \/ Moves \/ Accepts \/ Appends)
    BY <1>3, CallEnds DEF StateType, Runs
  <2>2. answer = None
    BY <2>1 DEF StateType
  <2>3. None # "commit"
    BY NoneAssumption DEF Readers
  <2>4. CASE Refuses
    <3>1. run'.who = None /\ UNCHANGED <<preview, answer>>
      BY <2>4, Refusing
    <3> QED BY <2>2, <2>3, <3>1 DEF CommitRepeats, PickedIn
  <2>5. CASE Moves
    <3>1. run'.who = run.who /\ run'.at = run.at + 1 /\ UNCHANGED <<preview, answer>>
      BY <2>5 DEF Moves
    <3>2. run.who = "commit" /\ run'.at = 11 => run'.bytes = preview.bytes
      <4> SUFFICES ASSUME run.who = "commit", run'.at = 11
                   PROVE  run'.bytes = preview.bytes
        OBVIOUS
      <4>1. run.at = 10 /\ At("compare")
        BY <2>1, <3>1, ImportCalls
      <4>2. Compare
        BY <1>3, <4>1, OneCall DEF Reads, CheckRoot, Look, Resolve, Open, Stat,
           Match, ReadBlock, Restat, Relook
      <4>3. ~Refuses /\ ~Accepts
        BY <2>1, <3>1, Refusing, Accepting
      <4>4. DigestIsRight /\ Knows
        BY <4>2, <4>3, Comparing
      <4> QED BY <4>4 DEF DigestIsRight, Knows
    <3> QED BY <2>2, <3>1, <3>2 DEF CommitRepeats, PickedIn
  <2>6. CASE Appends
    <3>1. /\ run'.who = run.who /\ run'.at = run.at
          /\ UNCHANGED <<preview, answer>>
      BY <2>6 DEF Appends
    <3>2. ~(run.who = "commit" /\ run.at = 11)
      <4> SUFFICES ASSUME run.who = "commit", run.at = 11
                   PROVE  FALSE
        OBVIOUS
      <4>1. CheckRoot
        BY <1>3, <2>1, ImportCalls, OneCall DEF Reads, Look, Resolve, Open, Stat,
           Match, ReadBlock, Restat, Relook, Compare
      <4>2. run'.who = None \/ run'.at = run.at + 1
        BY <2>1, <4>1, CheckingRoot, Refusing, Accepting DEF Moves
      <4> QED BY <2>1, <3>1, <4>2
    <3> QED BY <2>2, <3>1, <3>2 DEF CommitRepeats, PickedIn
  <2>7. CASE Accepts
    <3>1. /\ run'.who = None
          /\ answer'.who = run.who /\ answer'.bytes = run.bytes
      BY <2>1, <2>7, Accepting
    <3>2. CASE run.who = "preview"
      <4>1. preview' = [bytes |-> run.bytes, held |-> held, asOf |-> run.since]
        BY <2>1, <2>7, <3>2, Accepting
      <4>2. run.at = 11 /\ root = "picked"
        BY <1>3, <2>7, <3>2, HandingBack
      <4>3. PickedIn(held, run.bytes)
        BY <3>2, <4>2 DEF PreviewReads
      <4> QED BY <2>3, <3>1, <3>2, <4>1, <4>3 DEF CommitRepeats, PickedIn
    <3>3. CASE run.who # "preview"
      <4>1. preview' = preview
        BY <2>1, <2>7, <3>3, Accepting
      <4>2. run.who = "commit" => run.at = 11 /\ preview # None
        BY <1>3, <2>7, HandingBack DEF CommitRepeats
      <4>3. run.who = "commit" => run.bytes = preview.bytes
        BY <4>2 DEF CommitRepeats
      <4> QED BY <2>3, <3>1, <4>1, <4>2, <4>3 DEF CommitRepeats, PickedIn
    <3> QED BY <3>2, <3>3
  <2> QED BY <2>1, <2>4, <2>5, <2>6, <2>7
<1> QED BY <1>1, <1>2, <1>3 DEF Next
\* What the preview and the bundle hand back was there, whole.
LEMMA WholeStep ==
    ASSUME StateType, OpenFile, PreviewReads, BundleReads, WholeContent, [Next]_vars
    PROVE  WholeContent'
<1>1. CASE answer' = answer
  BY <1>1 DEF WholeContent, PickedIn
<1>2. CASE Environment \/ UNCHANGED vars
  BY <1>1, <1>2, NameChanges DEF vars
<1>3. CASE \E r \in Readers : Begin(r)
  BY <1>3, Beginning DEF WholeContent
<1>4. CASE Reads
  <2>1. run.who # None /\ (Refuses \/ Moves \/ Accepts \/ Appends)
    BY <1>4, CallEnds
  <2>2. CASE Refuses \/ Moves \/ Appends
    BY <1>1, <2>2, Refusing DEF Moves, Appends
  <2>3. CASE Accepts
    <3>1. answer' = [who |-> run.who, bytes |-> run.bytes, held |-> held]
      BY <2>1, <2>3, Accepting
    <3>2. run.who = "preview" => PickedIn(held, run.bytes)
      BY <1>4, <2>3, HandingBack DEF PreviewReads
    <3>3. run.who = "bundle" => \E o \in held : o.data = run.bytes
      BY <1>4, <2>3, HandingBack DEF BundleReads, Bundling
    <3> QED BY <3>1, <3>2, <3>3 DEF WholeContent, PickedIn
  <2> QED BY <2>1, <2>2, <2>3
<1> QED BY <1>2, <1>3, <1>4 DEF Next

\* Nothing has been read in the beginning.
LEMMA InitReads ==
    ASSUME Init
    PROVE  StateType /\ ReadInvariant
<1> DEFINE none == <<>>
<1>1. none \in Seq(Values)
  OBVIOUS
<1>2. run = [who |-> None, at |-> 0, file |-> None, looked |-> None,
             first |-> None, bytes |-> none, digest |-> None, since |-> 0]
  BY DEF Init, Idle
<1> HIDE DEF none
<1>3. run \in Runs /\ run.who = None /\ run = Idle
  BY <1>1, <1>2 DEF Runs, Init
<1>4. disk \in [Inodes -> Files]
  <2>1. PICK c \in [Inodes -> {d \in Contents : Len(d) = Limit /\ d[1] = Pinned[1]}] :
           disk = [f \in Inodes |-> [data |-> c[f], written |-> 0,
                                     touched |-> 0, links |-> 1]]
    BY DEF Init
  <2>2. \A f \in Inodes : c[f] \in Contents
    BY <2>1
  <2> QED BY <2>1, <2>2 DEF Files
<1>5. /\ name \in [to : Inodes \cup {None}, kind : {"plain", "link", "outside"}]
      /\ root = "picked" /\ changes = 0 /\ held = {} /\ preview = None /\ answer = None
  BY DEF Init
<1>6. StateType
  BY <1>3, <1>4, <1>5 DEF StateType
<1>7. None \notin {"preview", "commit", "bundle"}
  BY NoneAssumption DEF Readers
<1> QED BY <1>3, <1>5, <1>6, <1>7
       DEF ReadInvariant, OpenFile, PreviewReads, BundleReads, CommitRepeats,
           WholeContent, Importing, Bundling

\* Every step keeps the inductive invariant of the readers.
LEMMA ReadStep ==
    ASSUME StateType, ReadInvariant, [Next]_vars
    PROVE  StateType' /\ ReadInvariant'
<1> USE DEF ReadInvariant
<1>1. StateType' /\ OpenFile'
  BY TypesStep, OpenFileStep
<1>2. run'.who # None => Now' \subseteq held'
  BY SeenStep
<1>3. PreviewReads' /\ BundleReads'
  <2>1. CASE Environment
    BY <2>1, ChangeKeepsPreview, ChangeKeepsBundle
  <2>2. CASE Reads
    <3>1. Now \subseteq held
      BY <2>2, CallEnds
    <3> QED BY <2>2, <3>1, CallKeepsPreview, CallKeepsBundle
  <2>3. CASE \E r \in Readers : Begin(r)
    <3>1. run'.at = 1 /\ run'.bytes = <<>>
      BY <2>3, Beginning
    <3> QED BY <3>1 DEF PreviewReads, BundleReads, Importing, Bundling
  <2>4. CASE UNCHANGED vars
    BY <2>4 DEF vars, PreviewReads, BundleReads, Importing, Bundling, PickedIn, StartOf
  <2> QED BY <2>1, <2>2, <2>3, <2>4 DEF Next
<1>4. CommitRepeats' /\ WholeContent'
  BY RepeatStep, WholeStep
<1> QED BY <1>1, <1>2, <1>3, <1>4

-----------------------------------------------------------------------------
(* While nothing changes.                                                  *)

\* An ordinary file is a file of the disk, with a content.
LEMMA OrdinaryFile ==
    ASSUME StateType, Ordinary
    PROVE  /\ name.to \in Inodes /\ disk[name.to].data \in Contents
           /\ Regular /\ Size(name.to) \in Nat
<1>1. name.to \in Inodes
  BY DEF StateType, Ordinary, Within
<1> QED BY <1>1, ContentIsSequence DEF StateType, Files, Ordinary, Within, Regular, Size

\* The reader learns what there is.
LEMMA SeenMoving ==
    ASSUME StateType, Ordinary, AsSeen, run.who # None, Moves,
           IF At("look") THEN run'.looked = [file |-> name.to, size |-> Size(name.to)]
                         ELSE run'.looked = run.looked,
           IF At("open") THEN run'.file = name.to ELSE run'.file = run.file,
           IF At("stat") THEN run'.first = StatOf(name.to) ELSE run'.first = run.first,
           IF At("read") /\ run.who = "bundle"
           THEN run'.bytes = <<>> /\ run'.digest = disk[name.to].data /\ ~Past("again")
           ELSE run'.bytes = run.bytes /\ run'.digest = run.digest,
           (At("read") /\ run.who # "bundle") \/ At("again") =>
               run.bytes = disk[name.to].data
    PROVE  AsSeen'
<1>1. \A c : Past(c)' <=> Past(c) \/ At(c)
  BY CallIsPast DEF Moves, StateType
<1>2. UNCHANGED <<disk, name>> /\ run'.who = run.who
  BY DEF Moves
<1>3. ~(At("read") /\ At("again"))
  BY OneCall
<1>4. Past("look")' => run'.looked = [file |-> name'.to, size |-> Size(name.to)']
  BY <1>1, <1>2 DEF AsSeen, Size
<1>5. Past("open")' => run'.file = name'.to
  BY <1>1, <1>2 DEF AsSeen
<1>6. Past("stat")' => run'.first = StatOf(name.to)'
  BY <1>1, <1>2 DEF AsSeen, StatOf, Size
<1>7. StartOf(<<>>, disk[name.to].data)
  BY OrdinaryFile, NothingRead
<1>8. StartOf(run.bytes, disk[name.to].data)'
  BY <1>2, <1>7 DEF AsSeen, StartOf
<1>9. (Past("read")' /\ run'.who # "bundle") \/ Past("again")' =>
          run'.bytes = disk'[name'.to].data
  BY <1>1, <1>2, <1>3 DEF AsSeen
<1>10. Past("read")' /\ run'.who = "bundle" => run'.digest = disk'[name'.to].data
  BY <1>1, <1>2 DEF AsSeen
<1> QED BY <1>4, <1>5, <1>6, <1>8, <1>9, <1>10 DEF AsSeen

\* A reader that has all of an ordinary file has its content.
LEMMA AllIsRead ==
    ASSUME StateType, OpenFile, Ordinary, AsSeen, ReadBlock, Complete
    PROVE  run.bytes = disk[name.to].data
<1>1. At("read") \/ At("again")
  BY DEF ReadBlock
<1>2. run.who \in Readers /\ run.at \in 1..Len(Script(run.who))
  BY <1>1 DEF StateType, Runs, At
<1>3. Past("open") /\ (run.who = "bundle" => Past("stat"))
  BY <1>1, <1>2, CallsInOrder DEF StattedBefore
<1>4. run.file = name.to /\ (run.who = "bundle" => run.first = StatOf(name.to))
      /\ StartOf(run.bytes, disk[name.to].data)
  BY <1>3 DEF AsSeen
<1>5. run.bytes \in Seq(Values) /\ Len(run.bytes) \in Nat
      /\ disk[name.to].data \in Contents /\ Size(name.to) \in Nat
  BY OrdinaryFile DEF StateType, Runs
<1>6. Len(run.bytes) >= Len(disk[name.to].data)
  <2>1. CASE run.who = "bundle"
    BY <1>4, <1>5, <2>1 DEF Complete, StatOf, Size
  <2>2. CASE run.who # "bundle"
    BY <1>4, <2>2 DEF Complete, Size
  <2> QED BY <2>1, <2>2
<1> QED BY <1>4, <1>5, <1>6, StartIsAll

\* While nothing changes, what the reader has seen stays what there is.
LEMMA SeenCall ==
    ASSUME StateType, OpenFile, Ordinary, AsSeen, Reads, ~Refuses, ~Accepts
    PROVE  AsSeen'
<1>1. run.who # None /\ run.who \in Readers /\ run.at \in 1..Len(Script(run.who))
  BY CallEnds DEF StateType, Runs
<1>2. ASSUME Moves, Knows, ~At("look"), ~At("open"), ~At("stat"), ~At("read"), ~At("again")
      PROVE  AsSeen'
  BY <1>1, <1>2, SeenMoving DEF Knows
<1>3. CASE CheckRoot
  BY <1>2, <1>3, CheckingRoot, OneCall
<1>4. CASE Look
  <2>1. /\ At("look") /\ ~At("open") /\ ~At("stat") /\ ~At("read") /\ ~At("again")
    BY <1>4, OneCall DEF Look
  <2> QED BY <1>1, <1>4, <2>1, Looking, SeenMoving
<1>5. CASE Resolve
  BY <1>2, <1>5, Resolving, OneCall
<1>6. CASE Open
  <2>1. /\ At("open") /\ ~At("look") /\ ~At("stat") /\ ~At("read") /\ ~At("again")
    BY <1>6, OneCall DEF Open
  <2> QED BY <1>1, <1>6, <2>1, Opening, SeenMoving
<1>7. CASE Stat
  <2>1. /\ At("stat") /\ ~At("look") /\ ~At("open") /\ ~At("read") /\ ~At("again")
    BY <1>7, OneCall DEF Stat
  <2>2. run.file = name.to
    BY <1>1, <2>1, CallsInOrder DEF OpenedBefore, AsSeen
  <2> QED BY <1>1, <1>7, <2>1, <2>2, Stating, SeenMoving
<1>8. CASE Match
  BY <1>2, <1>8, Matching, OneCall
<1>9. CASE ReadBlock
  <2>1. (At("read") \/ At("again")) /\ ~At("look") /\ ~At("open") /\ ~At("stat")
    BY <1>9, OneCall DEF ReadBlock
  <2>2. Complete => run.bytes = disk[name.to].data
    BY <1>9, AllIsRead
  <2>3. CASE /\ At("read") /\ run.who = "bundle" /\ Complete /\ Moves
             /\ run'.digest = run.bytes /\ run'.bytes = <<>>
             /\ run'.file = run.file /\ run'.looked = run.looked
             /\ run'.first = run.first
    <3>1. ~Past("again") /\ ~At("again")
      BY <1>1, <2>3, CallsInOrder DEF StattedBefore
    <3> QED BY <1>1, <2>1, <2>2, <2>3, <3>1, SeenMoving
  <2>4. CASE /\ (At("read") /\ run.who # "bundle") \/ At("again")
             /\ Complete /\ Moves /\ Knows
    <3>1. ~(At("read") /\ run.who = "bundle")
      BY <2>4, OneCall
    <3> QED BY <1>1, <2>1, <2>2, <2>4, <3>1, SeenMoving DEF Knows
  <2>5. CASE Appends
    <3>1. run.file = name.to
      BY <1>1, <2>1, CallsInOrder DEF StattedBefore, AsSeen
    <3>2. /\ disk[name.to].data \in Contents /\ run.bytes \in Seq(Values)
          /\ Len(run.bytes) < Len(disk[name.to].data)
      BY <2>5, <3>1, OrdinaryFile DEF Appends, Size, StateType, Runs
    <3>3. StartOf(run'.bytes, disk[name.to].data)
      BY <2>5, <3>1, <3>2, OneMoreBlock DEF Appends, AsSeen
    <3>4. run.bytes # disk[name.to].data
      BY <3>2
    <3>5. /\ UNCHANGED <<disk, name>> /\ run'.who = run.who /\ run'.at = run.at
          /\ run'.file = run.file /\ run'.looked = run.looked
          /\ run'.first = run.first /\ run'.digest = run.digest
      BY <2>5 DEF Appends
    <3>6. \A c : Past(c)' <=> Past(c)
      BY <3>5 DEF Past
    <3>7. (Past("read") /\ run.who # "bundle") \/ Past("again") =>
              run.bytes = disk[name.to].data
      BY DEF AsSeen
    <3>8. ~(Past("read")' /\ run'.who # "bundle") /\ ~Past("again")'
      BY <3>4, <3>5, <3>6, <3>7
    <3>9. (Past("look")' => run'.looked = [file |-> name'.to, size |-> Size(name.to)'])
          /\ (Past("open")' => run'.file = name'.to)
          /\ (Past("stat")' => run'.first = StatOf(name.to)')
      BY <3>5, <3>6 DEF AsSeen, StatOf, Size
    <3>10. Past("read")' /\ run'.who = "bundle" => run'.digest = disk'[name'.to].data
      BY <3>5, <3>6 DEF AsSeen
    <3> QED BY <3>3, <3>5, <3>8, <3>9, <3>10 DEF AsSeen, StartOf
  <2> QED BY <1>9, <2>3, <2>4, <2>5, Reading
<1>10. CASE Restat
  BY <1>2, <1>10, Restating, OneCall
<1>11. CASE Relook
  BY <1>2, <1>11, Relooking, OneCall
<1>12. CASE Compare
  BY <1>2, <1>12, Comparing, OneCall
<1> QED BY <1>3, <1>4, <1>5, <1>6, <1>7, <1>8, <1>9, <1>10, <1>11, <1>12 DEF Reads

\* Every step keeps what a quiet disk makes true.
LEMMA QuietStep ==
    ASSUME StateType, OpenFile, CommitRepeats, QuietInvariant, [Next]_vars
    PROVE  QuietInvariant'
<1>1. /\ changes \in Nat /\ run.since \in Nat
      /\ preview # None => preview.asOf \in Nat /\ preview.asOf <= changes
      /\ run.who # None => run.since <= changes
      /\ run.who = "commit" => preview # None
  BY DEF StateType, Runs, QuietInvariant, CommitRepeats
<1>2. CASE Environment
  <2>1. changes' = changes + 1 /\ UNCHANGED <<run, preview>>
    BY <1>2, NameChanges
  <2>2. Since' = Since
    BY <2>1 DEF Since
  <2>3. run.who # None => Since \in Nat /\ Since <= changes
    BY <1>1 DEF Since
  <2> QED BY <1>1, <2>1, <2>2, <2>3 DEF QuietInvariant
<1>3. ASSUME UNCHANGED <<disk, name, root, changes>>, preview' = preview
      PROVE  preview' # None =>
                /\ preview'.asOf \in Nat /\ preview'.asOf <= changes'
                /\ changes' = preview'.asOf /\ Ordinary' =>
                      preview'.bytes = disk'[name'.to].data
  BY <1>3 DEF QuietInvariant, Ordinary, Within, Size
<1>4. CASE \E r \in Readers : Begin(r)
  <2>1. /\ UNCHANGED <<disk, name, root, changes, preview>>
        /\ run'.at = 1 /\ run'.since = changes /\ run'.bytes = <<>>
    BY <1>4, Beginning
  <2>2. \A c : ~Past(c)'
    BY <2>1 DEF Past
  <2>3. Ordinary' => Ordinary
    BY <2>1 DEF Ordinary, Within, Size
  <2>4. Ordinary => StartOf(run'.bytes, disk'[name'.to].data)
    BY <2>1, OrdinaryFile, NothingRead
  <2>5. Ordinary' => AsSeen'
    BY <2>2, <2>3, <2>4 DEF AsSeen, StartOf
  <2> QED BY <1>1, <1>3, <2>1, <2>5 DEF QuietInvariant
<1>5. CASE Reads
  <2>1. run.who # None /\ (Refuses \/ Moves \/ Accepts \/ Appends)
        /\ run.who \in Readers
    BY <1>5, CallEnds DEF StateType, Runs
  <2>2. CASE Refuses
    <3>1. run'.who = None /\ UNCHANGED <<disk, name, root, changes, preview>>
      BY <2>2, Refusing
    <3> QED BY <1>3, <3>1 DEF QuietInvariant
  <2>3. CASE Accepts
    <3>1. run'.who = None /\ UNCHANGED <<disk, name, root, changes>>
      BY <2>1, <2>3, Accepting
    <3>2. CASE run.who # "preview"
      <4>1. preview' = preview
        BY <2>1, <2>3, <3>2, Accepting
      <4> QED BY <1>3, <3>1, <4>1 DEF QuietInvariant
    <3>3. CASE run.who = "preview"
      <4>1. preview' = [bytes |-> run.bytes, held |-> held, asOf |-> run.since]
        BY <2>1, <2>3, <3>3, Accepting
      <4>2. run.at = 11
        BY <1>5, <2>3, <3>3, HandingBack
      <4>3. Past("read")
        BY <3>3, <4>2, ImportPast
      <4>4. ASSUME changes = run.since, Ordinary
            PROVE  run.bytes = disk[name.to].data
        <5>1. AsSeen
          BY <2>1, <3>3, <4>4 DEF QuietInvariant, Since
        <5> QED BY <3>3, <4>3, <5>1 DEF AsSeen
      <4>5. Ordinary' => Ordinary
        BY <3>1 DEF Ordinary, Within, Size
      <4> QED BY <1>1, <2>1, <3>1, <4>1, <4>4, <4>5 DEF QuietInvariant
    <3> QED BY <3>2, <3>3
  <2>4. CASE ~Refuses /\ ~Accepts
    <3>1. /\ UNCHANGED <<disk, name, root, changes, preview>>
          /\ run'.who = run.who /\ run'.since = run.since
      BY <2>1, <2>4 DEF Moves, Appends
    <3>2. Ordinary' => Ordinary
      BY <3>1 DEF Ordinary, Within, Size
    <3>3. Since' = Since
      BY <3>1 DEF Since
    <3>4. changes' = Since' /\ Ordinary' => AsSeen'
      <4> SUFFICES ASSUME changes' = Since', Ordinary'
                   PROVE  AsSeen'
        OBVIOUS
      <4>1. changes = Since /\ Ordinary
        BY <3>1, <3>2, <3>3
      <4>2. AsSeen
        BY <2>1, <4>1 DEF QuietInvariant
      <4> QED BY <1>5, <2>4, <4>1, <4>2, SeenCall
    <3> QED BY <1>1, <1>3, <3>1, <3>4 DEF QuietInvariant
  <2> QED BY <2>1, <2>2, <2>3, <2>4
<1>6. CASE UNCHANGED vars
  BY <1>6 DEF vars, QuietInvariant, Since, AsSeen, Ordinary, Within, Size, StatOf,
     StartOf, Past
<1> QED BY <1>2, <1>4, <1>5, <1>6 DEF Next

\* A reader that goes on does not refuse.
LEMMA PassingIsNoRefusal ==
    ASSUME run.who # None, NEW r, r \in Runs, r.who = run.who, Passes(r)
    PROVE  ~Refuses
<1>1. run'.who = run.who
  BY DEF Passes, Runs
<1> QED BY <1>1 DEF Refuses, Idle

\* While nothing changes, a reader of an ordinary file goes on: every call's
\* condition holds, unless the bytes are to be the pinned ones and are not.
LEMMA QuietReaderGoesOn ==
    ASSUME StateType, OpenFile, Ordinary, AsSeen, Reads, Refuses,
           run.who = "commit" => preview.bytes = disk[name.to].data
    PROVE  run.who \in {"runtime", "maker"} /\ disk[name.to].data # Pinned
<1>1. /\ run.who # None /\ run.who \in Readers /\ run.at \in 1..Len(Script(run.who))
      /\ run \in Runs /\ answer = None
  BY CallEnds DEF StateType, Runs
<1>2. /\ name.to \in Inodes /\ disk[name.to].data \in Contents /\ Regular /\ Within
      /\ root = "picked" /\ disk[name.to].links = 1 /\ Size(name.to) \in Nat
      /\ Size(name.to) <= Limit /\ name.to # None /\ name.kind = "plain"
  BY OrdinaryFile DEF Ordinary, Within
<1>3. ~Passes(run)
  BY <1>1, PassingIsNoRefusal
<1>4. ~Accepts
  <2>1. answer' = answer
    BY DEF Refuses
  <2> QED BY <1>1, <2>1, Accepting
<1>5. ~CheckRoot
  BY <1>2, <1>3, <1>4 DEF CheckRoot, RootIsSame
<1>6. ~Look
  <2> DEFINE looked == [file |-> name.to, size |-> Size(name.to)]
             r == [run EXCEPT !.looked = looked]
  <2>1. looked \in [file : Inodes, size : Nat]
    BY <1>2
  <2> HIDE DEF looked
  <2>2. r \in Runs /\ r.who = run.who
    BY <1>1, <2>1 DEF Runs
  <2> HIDE DEF r
  <2>3. ~Passes(r)
    BY <1>1, <2>2, PassingIsNoRefusal
  <2> QED BY <1>2, <2>3 DEF Look, r, looked
<1>7. ~Resolve
  BY <1>2, <1>3 DEF Resolve, Check
<1>8. ~Open
  <2> DEFINE r == [run EXCEPT !.file = name.to]
  <2>1. r \in Runs /\ r.who = run.who
    BY <1>1, <1>2 DEF Runs
  <2> HIDE DEF r
  <2>2. ~Passes(r)
    BY <1>1, <2>1, PassingIsNoRefusal
  <2> QED BY <1>2, <2>2 DEF Open, Check, Opens, r
<1>9. ~Stat
  <2> SUFFICES ASSUME Stat
               PROVE  FALSE
    OBVIOUS
  <2> DEFINE first == StatOf(run.file)
             r == [run EXCEPT !.first = first]
  <2>1. At("stat")
    BY DEF Stat
  <2>2. /\ run.file = name.to
        /\ run.who \notin {"preview", "commit"} => run.looked.file = name.to
    BY <1>1, <2>1, CallsInOrder DEF OpenedBefore, AsSeen
  <2>3. StatIsFit(run.file)
    BY <1>2, <2>2 DEF StatIsFit
  <2>4. first \in Stats
    BY <2>1, HandleIsOpen DEF StatOf, Stats
  <2> HIDE DEF first
  <2>5. r \in Runs /\ r.who = run.who
    BY <1>1, <2>4 DEF Runs
  <2> HIDE DEF r
  <2>6. ~Passes(r)
    BY <1>1, <2>5, PassingIsNoRefusal
  <2> QED BY <2>3, <2>6 DEF Stat, Check, r, first
<1>10. ~Match
  BY <1>1, <1>2, <1>3, CallsInOrder DEF Match, Check, OpenedBefore, AsSeen
<1>11. ~ReadBlock
  <2> SUFFICES ASSUME ReadBlock
               PROVE  FALSE
    OBVIOUS
  <2>1. At("read") \/ At("again")
    BY DEF ReadBlock
  <2>2. /\ run.file = name.to
        /\ run.who = "bundle" => run.first = StatOf(name.to)
        /\ At("read") /\ run.who = "maker" => run.looked.size = Size(name.to)
        /\ At("again") => run.who = "bundle"
    BY <1>1, <2>1, CallsInOrder DEF StattedBefore, AsSeen
  <2>3. /\ StartOf(run.bytes, disk[name.to].data) /\ Len(run.bytes) \in Nat
        /\ run.bytes \in Seq(Values)
    BY <1>1 DEF AsSeen, Runs
  <2>4. CASE Complete
    <3> DEFINE one == run.bytes
               none == <<>>
               r == [run EXCEPT !.digest = one, !.bytes = none]
    <3>1. run.bytes = disk[name.to].data
      BY <2>4, AllIsRead
    <3>2. ~(run.who = "maker" /\ Len(run.bytes) # run.looked.size)
      BY <2>1, <2>2, <3>1 DEF Size
    <3>3. one \in Seq(Values) /\ none \in Seq(Values)
      BY <2>3
    <3> HIDE DEF one, none
    <3>4. r \in Runs /\ r.who = run.who
      BY <1>1, <3>3 DEF Runs
    <3> HIDE DEF r
    <3>5. ~Passes(r)
      BY <1>1, <3>4, PassingIsNoRefusal
    <3> QED BY <1>3, <2>4, <3>2, <3>5 DEF ReadBlock, r, one, none
  <2>5. CASE ~Complete
    <3>1. Len(run.bytes) < Size(name.to)
      <4>1. Len(run.bytes) <= Size(name.to)
        BY <2>3 DEF StartOf, Size
      <4>2. Len(run.bytes) # Size(name.to)
        BY <1>2, <2>2, <2>5 DEF Complete, StatOf
      <4> QED BY <1>2, <2>3, <4>1, <4>2
    <3>2. ~(Len(run.bytes) >= Size(run.file)) /\ Len(run.bytes) # Limit
      <4> DEFINE n == Len(run.bytes)
                 size == Size(run.file)
      <4>1. n \in Nat /\ size \in 1..Limit /\ n < size
        BY <1>2, <2>2, <2>3, <3>1
      <4> HIDE DEF n, size
      <4>2. ~(n >= size) /\ n # 2
        BY <4>1 DEF Limit
      <4> QED BY <4>2 DEF n, size, Limit
    <3>3. run' = [run EXCEPT !.bytes =
                     Append(run.bytes, disk[run.file].data[Len(run.bytes) + 1])]
      BY <2>5, <3>2 DEF ReadBlock
    <3>4. run'.who = run.who
      BY <1>1, <3>3 DEF Runs
    <3> QED BY <1>1, <3>4 DEF Refuses, Idle
  <2> QED BY <2>4, <2>5
<1>12. ~Restat
  <2> SUFFICES ASSUME Restat
               PROVE  FALSE
    OBVIOUS
  <2>1. At("restat")
    BY DEF Restat
  <2>2. /\ run.file = name.to /\ run.first = StatOf(name.to)
        /\ run.who # "bundle" => run.bytes = disk[name.to].data
    BY <1>1, <2>1, CallsInOrder DEF ReadBefore, AsSeen
  <2>3. StatOf(run.file).size = Size(name.to)
        /\ (run.who # "bundle" => Size(name.to) = Len(run.bytes))
    BY <2>2 DEF StatOf, Size
  <2>4. RestatIsFit(StatOf(run.file))
    BY <1>2, <2>2, <2>3 DEF RestatIsFit
  <2> QED BY <1>3, <2>4 DEF Restat, Check
<1>13. ~Relook
  <2> SUFFICES ASSUME Relook
               PROVE  FALSE
    OBVIOUS
  <2>1. At("relook")
    BY DEF Relook
  <2>2. /\ run.file = name.to
        /\ run.who = "runtime" => run.bytes = disk[name.to].data
    BY <1>1, <2>1, CallsInOrder DEF ReadBefore, AsSeen
  <2>3. run.who = "runtime" => Size(name.to) = Len(run.bytes)
    BY <2>2 DEF Size
  <2> QED BY <1>2, <1>3, <2>2, <2>3 DEF Relook, Check
<1>14. CASE Compare
  <2>1. At("compare")
    BY <1>14 DEF Compare
  <2>2. /\ run.who # "bundle" => run.bytes = disk[name.to].data
        /\ run.who = "bundle" => run.bytes = run.digest
    BY <1>1, <2>1, CallsInOrder DEF AllBefore, AsSeen
  <2>3. ~DigestIsRight
    BY <1>3, <1>4, <1>14 DEF Compare
  <2> QED BY <1>1, <2>2, <2>3 DEF DigestIsRight, Readers
<1> QED BY <1>5, <1>6, <1>7, <1>8, <1>9, <1>10, <1>11, <1>12, <1>13, <1>14 DEF Reads

\* The step of RefusalMeansChange.
LEMMA RefusalStep ==
    ASSUME StateType, OpenFile, CommitRepeats, QuietInvariant, Next, Refuses, Ordinary
    PROVE  \/ changes > Since
           \/ run.who \in {"runtime", "maker"} /\ disk[name.to].data # Pinned
<1>1. UNCHANGED changes /\ run'.who = None
  BY Refusing
<1>2. ~Environment
  <2>1. changes \in Nat
    BY DEF StateType
  <2> QED BY <1>1, <2>1, NameChanges
<1>3. ~(\E r \in Readers : Begin(r))
  BY <1>1, Beginning, NoneAssumption
<1>4. Reads
  BY <1>2, <1>3 DEF Next
<1>5. run.who # None
  BY <1>4, CallEnds
<1>6. changes \in Nat /\ Since \in Nat /\ Since <= changes
  BY <1>5 DEF StateType, Runs, QuietInvariant, CommitRepeats, Since
<1>7. CASE changes = Since
  <2>1. AsSeen
    BY <1>5, <1>7 DEF QuietInvariant
  <2>2. run.who = "commit" => preview.bytes = disk[name.to].data
    BY <1>7 DEF QuietInvariant, CommitRepeats, Since
  <2> QED BY <1>4, <2>1, <2>2, QuietReaderGoesOn
<1> QED BY <1>6, <1>7

-----------------------------------------------------------------------------
(* The theorems.                                                           *)

\* The inductive invariant of the readers holds in every state: the variables
\* keep their types, and what a reader has read is tied to the stamps it saw.
THEOREM ReadInvariantHolds == Spec => [](StateType /\ ReadInvariant)
<1>1. Init => StateType /\ ReadInvariant
  BY InitReads
<1>2. StateType /\ ReadInvariant /\ [Next]_vars => (StateType /\ ReadInvariant)'
  BY ReadStep
<1> QED BY <1>1, <1>2, PTL DEF Spec

\* inspectCandidateFile lists, and the release's inspectFile hashes, only what
\* was at one moment of the read the whole content of a file in its place,
\* however many files, values and changes there are.
THEOREM WholeContentRead == Spec => []WholeContent
<1>1. StateType /\ ReadInvariant => WholeContent
  BY DEF ReadInvariant
<1> QED BY <1>1, ReadInvariantHolds, PTL

\* prepareFile imports only the bytes the preview listed.
THEOREM PreviewIsCommitted == Spec => []CommitIsPreviewed
<1>1. StateType /\ ReadInvariant => CommitIsPreviewed
  BY DEF ReadInvariant, CommitRepeats, CommitIsPreviewed, PickedIn
<1> QED BY <1>1, ReadInvariantHolds, PTL
\* While nothing changes, what a reader has kept is what there is, in every state.
THEOREM QuietInvariantHolds == Spec => []QuietInvariant
<1>1. Init => QuietInvariant
  BY InitReads DEF Init, Idle, QuietInvariant
<1>2. StateType /\ ReadInvariant /\ QuietInvariant /\ [Next]_vars => QuietInvariant'
  BY QuietStep DEF ReadInvariant
<1> QED BY <1>1, <1>2, ReadInvariantHolds, PTL DEF Spec

\* A reader that turns an ordinary file away had a reason: something changed
\* since it started, for the commit since the preview, or a package's bytes are
\* not the pinned ones.
THEOREM RefusalsMeanChange == Spec => RefusalMeansChange
<1>1. StateType /\ ReadInvariant /\ QuietInvariant /\ [Next]_vars =>
         [Refuses /\ Ordinary =>
             \/ changes > (IF run.who = "commit" THEN preview.asOf ELSE run.since)
             \/ run.who \in {"runtime", "maker"} /\ disk[name.to].data # Pinned]_vars
  BY RefusalStep DEF ReadInvariant, Since
<1> QED BY <1>1, ReadInvariantHolds, QuietInvariantHolds, PTL DEF Spec, RefusalMeansChange
=============================================================================
