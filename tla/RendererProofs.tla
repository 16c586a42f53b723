---------------------------- MODULE RendererProofs ----------------------------
(***************************************************************************)
(* Theorems about the page and the handlers it calls: for any number of    *)
(* gestures, reloads, previews and failures, in any interleaving.          *)
(***************************************************************************)
EXTENDS Renderer, SequenceTheorems, FiniteSetTheorems, TLAPS

-----------------------------------------------------------------------------
(* Queues *)

(* What is appended joins the queue's elements. *)
LEMMA AppendedRange ==
  ASSUME NEW S, NEW s \in Seq(S), NEW x \in S
  PROVE  Range(Append(s, x)) = Range(s) \cup {x}
<1> DEFINE t == Append(s, x)
           n == Len(s)
<1>1. n \in Nat /\ DOMAIN s = 1 .. n
  OBVIOUS
<1>2. DOMAIN t = 1 .. n + 1 /\ t[n + 1] = x /\ \A k \in 1 .. n : t[k] = s[k]
  OBVIOUS
<1> HIDE DEF t, n
<1>3. \A k \in 1 .. n + 1 : k \in 1 .. n \/ k = n + 1
  BY <1>1
<1>4. \A k \in 1 .. n : k \in 1 .. n + 1
  BY <1>1
<1>5. n + 1 \in 1 .. n + 1
  BY <1>1
<1>6. Range(t) \subseteq Range(s) \cup {x}
  BY <1>1, <1>2, <1>3 DEF Range
<1>7. Range(s) \cup {x} \subseteq Range(t)
  BY <1>1, <1>2, <1>4, <1>5 DEF Range
<1>. QED BY <1>6, <1>7 DEF t

(* What is taken from the head was in the queue, and the rest stays. *)
LEMMA TakenRange ==
  ASSUME NEW S, NEW s \in Seq(S), s # <<>>
  PROVE  /\ Head(s) \in S /\ Head(s) \in Range(s) /\ Tail(s) \in Seq(S)
         /\ Range(Tail(s)) \subseteq Range(s)
<1> DEFINE t == Tail(s)
           n == Len(s)
<1>1. n \in Nat /\ n >= 1 /\ DOMAIN s = 1 .. n
  BY EmptySeq
<1>2. Head(s) \in S /\ t \in Seq(S) /\ Len(t) = n - 1 /\ \A k \in 1 .. Len(t) : t[k] = s[k + 1]
  BY HeadTailProperties
<1>3. Head(s) = s[1]
  OBVIOUS
<1> HIDE DEF t, n
<1>4. DOMAIN t = 1 .. n - 1 /\ \A k \in 1 .. n - 1 : t[k] = s[k + 1]
  BY <1>2
<1>5. \A k \in 1 .. n - 1 : k + 1 \in 1 .. n
  BY <1>1
<1>6. Range(t) \subseteq Range(s)
  BY <1>1, <1>4, <1>5 DEF Range
<1>7. Head(s) \in Range(s)
  BY <1>1, <1>3 DEF Range
<1>. QED BY <1>2, <1>6, <1>7 DEF t

-----------------------------------------------------------------------------
(* Calls and answers *)

PageTyped == ui \in Pages /\ {gestures, since} \subseteq Nat /\ since <= gestures
VaultTyped == ver \in Versions /\ log \in Logs /\ clock \in Nat
QueuesTyped == inbox \in Seq(Calls) /\ outbox \in Seq(Answers)
HeldTyped ==
  /\ \A q \in native : q \in Calls /\ q.call \in {"prepare", "purge", "clear"}
  /\ \A q \in samples : q \in Calls /\ q.call = "sample"
  /\ work \in [q : Calls \cup {NoCall}, aborted : BOOLEAN, open : BOOLEAN]
  /\ work.open => work.q.call \in {"confirm", "sample"}
  /\ work # NoWork => work.q.call \in {"prepare", "confirm", "sample"}
IdsTyped == \A q \in Flying : q.id <= gestures
TokensTyped ==
  /\ issued \in Nat /\ due \in 0 .. issued /\ DOMAIN tokens \subseteq 1 .. issued
  /\ \A k \in DOMAIN tokens :
       tokens[k] \in [state : States, sender : {Window}, importable : BOOLEAN]

(* The calls' invariant in its parts. *)
LEMMA CallParts ==
  CallInvariant <=> PageTyped /\ VaultTyped /\ QueuesTyped /\ HeldTyped /\ IdsTyped
BY DEF CallInvariant, PageTyped, VaultTyped, QueuesTyped, HeldTyped, IdsTyped

(* A call is typed. *)
LEMMA CallTyped ==
  ASSUME NEW id \in Nat \ {0}, NEW by, NEW call, NEW arg \in Subjects \X Nat,
         <<by, call>> \in Kinds,
         call \in {"fetch", "preparePurge", "purge"} => arg[1] \in Sources,
         call = "refresh" => arg[1] \in Parted
  PROVE  Call(id, by, call, arg) \in Calls
<1>1. by \in Handlers /\ call \in Channels
  BY DEF Kinds, Handlers, Channels
<1>. QED BY <1>1 DEF Call, Calls

(* So are its parts. *)
LEMMA CallFields ==
  ASSUME NEW q \in Calls
  PROVE  /\ q.id \in Nat /\ q.id # 0 /\ q.arg \in Subjects \X Nat /\ q.arg[1] \in Subjects /\ q.arg[2] \in Nat
         /\ q.arg = <<q.arg[1], q.arg[2]>> /\ <<q.by, q.call>> \in Kinds
         /\ q.call \in {"fetch", "preparePurge", "purge"} => q.arg[1] \in Sources
         /\ q.call = "refresh" => q.arg[1] \in Parted
BY DEF Calls

(* And an answer's. *)
LEMMA AnswerFields ==
  ASSUME NEW r \in Answers
  PROVE  /\ r.of \in Calls /\ r.status \in Statuses(r.of.call) /\ r.got \subseteq Readable(r.of)
         /\ r.ver \in Versions /\ r.log \in Logs /\ r.token \in Nat /\ r.can \in BOOLEAN
         /\ r.draft \in BOOLEAN
         /\ r.token # 0 => r.of.call = "prepare" /\ r.status = "ready"
BY DEF Answers

(* An answer is typed. *)
LEMMA AnswerTyped ==
  ASSUME NEW q \in Calls, NEW s \in Statuses(q.call), NEW g, g \subseteq Readable(q),
         NEW v \in Versions, NEW l \in Logs, NEW t \in Nat, NEW c \in BOOLEAN,
         NEW d \in BOOLEAN, t # 0 => q.call = "prepare" /\ s = "ready"
  PROVE  [of |-> q, status |-> s, got |-> g, ver |-> v, log |-> l, token |-> t, can |-> c,
          draft |-> d] \in Answers
<1>1. Readable(q) \subseteq Subjects
  BY CallFields DEF Readable, Parts, Subjects, Parted
<1>2. q.call \in Channels
  BY DEF Calls
<1>. QED BY <1>1, <1>2 DEF Answers

(* The plain answer. *)
LEMMA PlainAnswer ==
  ASSUME NEW q \in Calls, NEW s \in Statuses(q.call)
  PROVE  /\ Answer(q, s) \in Answers
         /\ Answer(q, s).of = q /\ Answer(q, s).status = s /\ Answer(q, s).got = {}
         /\ Answer(q, s).token = 0 /\ ~Answer(q, s).draft
<1>1. NoVersions \in Versions /\ {} \in Logs /\ 0 \in Nat /\ FALSE \in BOOLEAN
  BY DEF NoVersions, Versions, Logs
<1>. QED BY <1>1, AnswerTyped DEF Answer

(* What an answer reads is put in. *)
LEMMA AnswerGot ==
  ASSUME NEW r \in Answers, NEW g, g \subseteq Readable(r.of)
  PROVE  LET a == [r EXCEPT !.got = g] IN
         /\ a \in Answers /\ a.of = r.of /\ a.status = r.status /\ a.got = g
         /\ a.ver = r.ver /\ a.log = r.log /\ a.token = r.token /\ a.draft = r.draft
<1> DEFINE a == [r EXCEPT !.got = g]
<1>1. Readable(r.of) \subseteq Subjects
  BY AnswerFields, CallFields DEF Readable, Parts, Subjects, Parted
<1>2. r \in [of : Calls, status : UNION {Statuses(c) : c \in Channels}, got : SUBSET Subjects,
             ver : Versions, log : Logs, token : Nat, can : BOOLEAN, draft : BOOLEAN]
  BY DEF Answers
<1>3. /\ a \in [of : Calls, status : UNION {Statuses(c) : c \in Channels}, got : SUBSET Subjects,
                ver : Versions, log : Logs, token : Nat, can : BOOLEAN, draft : BOOLEAN]
      /\ a.of = r.of /\ a.status = r.status /\ a.got = g
      /\ a.ver = r.ver /\ a.log = r.log /\ a.token = r.token /\ a.draft = r.draft
  BY <1>1, <1>2
<1>4. r.status \in Statuses(r.of.call) /\ (r.token # 0 => r.of.call = "prepare" /\ r.status = "ready")
  BY AnswerFields
<1> HIDE DEF a
<1>5. a \in Answers
  BY <1>3, <1>4 DEF Answers
<1>. QED BY <1>3, <1>5 DEF a

(* So is the vault's content, *)
LEMMA AnswerVer ==
  ASSUME NEW r \in Answers, NEW v \in Versions
  PROVE  LET a == [r EXCEPT !.ver = v] IN
         /\ a \in Answers /\ a.of = r.of /\ a.status = r.status /\ a.got = r.got
         /\ a.ver = v /\ a.log = r.log /\ a.token = r.token /\ a.draft = r.draft
<1> DEFINE a == [r EXCEPT !.ver = v]
<1>2. r \in [of : Calls, status : UNION {Statuses(c) : c \in Channels}, got : SUBSET Subjects,
             ver : Versions, log : Logs, token : Nat, can : BOOLEAN, draft : BOOLEAN]
  BY DEF Answers
<1>3. /\ a \in [of : Calls, status : UNION {Statuses(c) : c \in Channels}, got : SUBSET Subjects,
                ver : Versions, log : Logs, token : Nat, can : BOOLEAN, draft : BOOLEAN]
      /\ a.of = r.of /\ a.status = r.status /\ a.got = r.got
      /\ a.ver = v /\ a.log = r.log /\ a.token = r.token /\ a.draft = r.draft
  BY <1>2
<1>4. /\ r.status \in Statuses(r.of.call) /\ r.got \subseteq Readable(r.of)
      /\ (r.token # 0 => r.of.call = "prepare" /\ r.status = "ready")
  BY AnswerFields
<1> HIDE DEF a
<1>5. a \in Answers
  BY <1>3, <1>4 DEF Answers
<1>. QED BY <1>3, <1>5 DEF a

WithRead(r, g, v, d, l) == [r EXCEPT !.got = g, !.ver = v, !.draft = d, !.log = l]

(* both, *)
LEMMA AnswerRead ==
  ASSUME NEW r \in Answers, NEW g, g \subseteq Readable(r.of), NEW v \in Versions, NEW d \in BOOLEAN,
         NEW l \in Logs
  PROVE  LET a == WithRead(r, g, v, d, l) IN
         /\ a \in Answers /\ a.of = r.of /\ a.status = r.status /\ a.got = g
         /\ a.ver = v /\ a.log = l /\ a.token = r.token /\ a.draft = d
<1> DEFINE a == WithRead(r, g, v, d, l)
<1>1. Readable(r.of) \subseteq Subjects
  BY AnswerFields, CallFields DEF Readable, Parts, Subjects, Parted
<1>2. r \in [of : Calls, status : UNION {Statuses(c) : c \in Channels}, got : SUBSET Subjects,
             ver : Versions, log : Logs, token : Nat, can : BOOLEAN, draft : BOOLEAN]
  BY DEF Answers
<1>3. /\ a \in [of : Calls, status : UNION {Statuses(c) : c \in Channels}, got : SUBSET Subjects,
                ver : Versions, log : Logs, token : Nat, can : BOOLEAN, draft : BOOLEAN]
      /\ a.of = r.of /\ a.status = r.status /\ a.got = g
      /\ a.ver = v /\ a.log = l /\ a.token = r.token /\ a.draft = d
  BY <1>1, <1>2 DEF WithRead
<1>4. r.status \in Statuses(r.of.call) /\ (r.token # 0 => r.of.call = "prepare" /\ r.status = "ready")
  BY AnswerFields
<1> HIDE DEF a
<1>5. a \in Answers
  BY <1>3, <1>4 DEF Answers
<1>. QED BY <1>3, <1>5 DEF a

WithToken(r, t, c) == [r EXCEPT !.token = t, !.can = c]

(* and the token of a preview. *)
LEMMA AnswerToken ==
  ASSUME NEW r \in Answers, NEW t \in Nat, NEW c \in BOOLEAN,
         r.of.call = "prepare", r.status = "ready"
  PROVE  LET a == WithToken(r, t, c) IN
         /\ a \in Answers /\ a.of = r.of /\ a.status = r.status /\ a.got = r.got
         /\ a.ver = r.ver /\ a.log = r.log /\ a.token = t /\ a.draft = r.draft
<1> DEFINE a == WithToken(r, t, c)
<1>2. r \in [of : Calls, status : UNION {Statuses(x) : x \in Channels}, got : SUBSET Subjects,
             ver : Versions, log : Logs, token : Nat, can : BOOLEAN, draft : BOOLEAN]
  BY DEF Answers
<1>3. /\ a \in [of : Calls, status : UNION {Statuses(x) : x \in Channels}, got : SUBSET Subjects,
                ver : Versions, log : Logs, token : Nat, can : BOOLEAN, draft : BOOLEAN]
      /\ a.of = r.of /\ a.status = r.status /\ a.got = r.got
      /\ a.ver = r.ver /\ a.log = r.log /\ a.token = t /\ a.draft = r.draft
  BY <1>2 DEF WithToken
<1>4. /\ r.status \in Statuses(r.of.call) /\ r.got \subseteq Readable(r.of)
  BY AnswerFields
<1> HIDE DEF a
<1>5. a \in Answers
  BY <1>3, <1>4 DEF Answers
<1>. QED BY <1>3, <1>5 DEF a

-----------------------------------------------------------------------------
(* What a gesture does *)

Locking == {"add", "another", "dismiss", "confirm", "sample"}
Sent(q) == q \in Calls /\ q.id = gestures + 1 /\ inbox' = Append(inbox, q)
LockLeft == ui'.lock = ui.lock /\ ui'.preview = ui.preview
LockTaken(q) ==
  /\ ~ui.lock /\ ui'.lock /\ q.by \in Locking
  /\ \/ q.call = "confirm" /\ ui.preview # 0 /\ q.arg[2] = ui.preview /\ ui'.preview = ui.preview
     \/ q.call = "dismiss" /\ q.arg[2] = ui.preview /\ ui'.preview = 0
     \/ q.call \in {"prepare", "sample"} /\ ui.preview = 0 /\ ui'.preview = 0
LookKept ==
  /\ ui'.shown = ui.shown /\ ui'.history = ui.history /\ ui'.results = ui.results
  /\ ui'.drawer \in {ui.drawer, "none"}
GestureKeeps ==
  /\ gestures' = gestures + 1
  /\ UNCHANGED <<since, outbox, vaultVars, tokenVars, workVars, missed>>
GestureMade ==
  /\ GestureKeeps /\ ui' \in Pages /\ LookKept
  /\ \/ LockLeft /\ inbox' = inbox
     \/ LockLeft /\ \E q : Sent(q) /\ q.by \notin Locking
     \/ \E q : Sent(q) /\ LockTaken(q)

(* A gesture with a call. *)
LEMMA GestureSends ==
  ASSUME PageTyped, NEW by, NEW call, NEW arg \in Subjects \X Nat, Send(by, call, arg),
         <<by, call>> \in Kinds,
         call \in {"fetch", "preparePurge", "purge"} => arg[1] \in Sources,
         call = "refresh" => arg[1] \in Parted
  PROVE  \E q : Sent(q) /\ q.by = by /\ q.call = call /\ q.arg = arg
<1> DEFINE q == Call(gestures + 1, by, call, arg)
<1>1. gestures + 1 \in Nat \ {0}
  BY DEF PageTyped
<1>2. q \in Calls
  BY <1>1, CallTyped
<1>3. q.id = gestures + 1 /\ q.by = by /\ q.call = call /\ q.arg = arg
  BY DEF Call
<1>4. Sent(q)
  BY <1>2, <1>3 DEF Sent, Send
<1>. QED BY <1>3, <1>4

(* The gestures that leave the lock alone. *)
LEMMA FreeGestures ==
  ASSUME PageTyped,
         CancelImport \/ Search \/ KeepSource \/ ConfirmPurge \/ ClearHistory \/ RefreshHistory
         \/ Navigate \/ (\E s \in Sources : ViewContext(s) \/ RemoveSource(s))
  PROVE  GestureMade
<1>1. ui \in Pages
  BY DEF PageTyped
<1>2. \A x : <<x, 0>> \in Subjects \X Nat <=> x \in Subjects
  OBVIOUS
<1>3. Nowhere \in Subjects \X Nat /\ <<"activity", 0>> \in Subjects \X Nat
      /\ \A s \in Sources : <<s, 0>> \in Subjects \X Nat
  BY DEF Nowhere, Subjects, Parted
<1>4. ASSUME NEW by, NEW call, NEW arg, \E q : Sent(q) /\ q.by = by /\ q.call = call /\ q.arg = arg,
             by \notin Locking, GestureKeeps, ui' \in Pages, LookKept, LockLeft
      PROVE GestureMade
  BY <1>4 DEF GestureMade
<1>5. CASE CancelImport
  <2>1. GestureKeeps /\ ui' \in Pages /\ LookKept /\ LockLeft
    BY <1>1, <1>5 DEF CancelImport, Gesture, GestureKeeps, LookKept, LockLeft
  <2>2. \E q : Sent(q) /\ q.by = "cancel" /\ q.call = "cancel" /\ q.arg = Nowhere
    BY <1>3, <1>5, GestureSends DEF CancelImport, Kinds
  <2>. QED BY <1>4, <2>1, <2>2 DEF Locking
<1>6. CASE Search
  <2>1. GestureKeeps /\ ui' \in Pages /\ LookKept /\ LockLeft
    BY <1>1, <1>6 DEF Search, Gesture, GestureKeeps, LookKept, LockLeft, Pages
  <2>2. \E q : Sent(q) /\ q.by = "search" /\ q.call = "search" /\ q.arg = Nowhere
    BY <1>3, <1>6, GestureSends DEF Search, Kinds
  <2>. QED BY <1>4, <2>1, <2>2 DEF Locking
<1>7. CASE KeepSource
  <2>1. GestureKeeps /\ ui' \in Pages /\ LookKept /\ LockLeft /\ inbox' = inbox
    BY <1>1, <1>7 DEF KeepSource, Gesture, GestureKeeps, LookKept, LockLeft, Pages
  <2>. QED BY <2>1 DEF GestureMade
<1>8. CASE ConfirmPurge
  <2>1. GestureKeeps /\ ui' \in Pages /\ LookKept /\ LockLeft
    BY <1>1, <1>8 DEF ConfirmPurge, Gesture, GestureKeeps, LookKept, LockLeft, Pages
  <2>2. ui.overlay \in Sources \X Nat
    BY <1>1, <1>8 DEF ConfirmPurge, Pages
  <2>3. ui.overlay \in Subjects \X Nat /\ ui.overlay[1] \in Sources
    BY <2>2 DEF Subjects
  <2>4. \E q : Sent(q) /\ q.by = "purge" /\ q.call = "purge" /\ q.arg = ui.overlay
    BY <1>8, <2>3, GestureSends DEF ConfirmPurge, Kinds
  <2>. QED BY <1>4, <2>1, <2>4 DEF Locking
<1>9. CASE ClearHistory
  <2>1. GestureKeeps /\ ui' \in Pages /\ LookKept /\ LockLeft
    BY <1>1, <1>9 DEF ClearHistory, Gesture, GestureKeeps, LookKept, LockLeft, Pages
  <2>2. \E q : Sent(q) /\ q.by = "clear" /\ q.call = "clear" /\ q.arg = Nowhere
    BY <1>3, <1>9, GestureSends DEF ClearHistory, Kinds
  <2>. QED BY <1>4, <2>1, <2>2 DEF Locking
<1>10. CASE RefreshHistory
  <2>1. GestureKeeps /\ ui' \in Pages /\ LookKept /\ LockLeft
    BY <1>1, <1>10 DEF RefreshHistory, Gesture, GestureKeeps, LookKept, LockLeft, Pages
  <2>2. \E q : Sent(q) /\ q.by = "history" /\ q.call = "refresh" /\ q.arg = <<"activity", 0>>
    BY <1>3, <1>10, GestureSends DEF RefreshHistory, Kinds, Parted
  <2>. QED BY <1>4, <2>1, <2>2 DEF Locking
<1>11. CASE Navigate
  <2>1. GestureKeeps /\ ui' \in Pages /\ LookKept /\ LockLeft
    BY <1>1, <1>11 DEF Navigate, Gesture, GestureKeeps, LookKept, LockLeft, Pages
  <2>2. inbox' = inbox
        \/ \E q : Sent(q) /\ q.by = "view" /\ q.call = "refresh" /\ q.arg = <<"activity", 0>>
    BY <1>3, <1>11, GestureSends DEF Navigate, Kinds, Parted
  <2>. QED BY <1>4, <2>1, <2>2 DEF Locking, GestureMade
<1>12. ASSUME NEW s \in Sources, ViewContext(s) PROVE GestureMade
  <2>1. GestureKeeps /\ ui' \in Pages /\ LookKept /\ LockLeft
    BY <1>1, <1>12 DEF ViewContext, Gesture, GestureKeeps, LookKept, LockLeft
  <2>2. \E q : Sent(q) /\ q.by = "fetch" /\ q.call = "fetch" /\ q.arg = <<s, 0>>
    BY <1>3, <1>12, GestureSends DEF ViewContext, Kinds
  <2>. QED BY <1>4, <2>1, <2>2 DEF Locking
<1>13. ASSUME NEW s \in Sources, RemoveSource(s) PROVE GestureMade
  <2>1. GestureKeeps /\ ui' \in Pages /\ LookKept /\ LockLeft
    BY <1>1, <1>13 DEF RemoveSource, Gesture, GestureKeeps, LookKept, LockLeft
  <2>2. \E q : Sent(q) /\ q.by = "begin" /\ q.call = "preparePurge" /\ q.arg = <<s, 0>>
    BY <1>3, <1>13, GestureSends DEF RemoveSource, Kinds
  <2>. QED BY <1>4, <2>1, <2>2 DEF Locking
<1>. QED BY <1>5, <1>6, <1>7, <1>8, <1>9, <1>10, <1>11, <1>12, <1>13

(* Those that take it. *)
LEMMA LockingGestures ==
  ASSUME PageTyped,
         AddFolder \/ ImportSample \/ ConfirmImport \/ CancelPreview \/ ChooseAnother
  PROVE  GestureMade
<1>1. ui \in Pages /\ ui.preview \in Nat /\ ui.lock \in BOOLEAN
  BY DEF PageTyped, Pages
<1>2. Nowhere \in Subjects \X Nat /\ <<"token", ui.preview>> \in Subjects \X Nat
  BY <1>1 DEF Nowhere, Subjects, Parted
<1>3. ASSUME GestureKeeps, ui' \in Pages, LookKept, \E q : Sent(q) /\ LockTaken(q)
      PROVE GestureMade
  BY <1>3 DEF GestureMade
<1>4. CASE AddFolder
  <2>1. GestureKeeps /\ ui' \in Pages /\ LookKept
    BY <1>1, <1>4 DEF AddFolder, Gesture, GestureKeeps, LookKept, Pages
  <2>2. ~ui.lock /\ ui'.lock /\ ui.preview = 0 /\ ui'.preview = 0
    BY <1>1, <1>4 DEF AddFolder, InView, Modal, Gesture, Pages
  <2>3. \E q : Sent(q) /\ q.by = "add" /\ q.call = "prepare" /\ q.arg = Nowhere
    BY <1>2, <1>4, GestureSends DEF AddFolder, Kinds
  <2>. QED BY <1>3, <2>1, <2>2, <2>3 DEF LockTaken, Locking
<1>5. CASE ImportSample
  <2>1. GestureKeeps /\ ui' \in Pages /\ LookKept
    BY <1>1, <1>5 DEF ImportSample, Gesture, GestureKeeps, LookKept, Pages
  <2>2. ~ui.lock /\ ui'.lock /\ ui.preview = 0 /\ ui'.preview = 0
    BY <1>1, <1>5 DEF ImportSample, InView, Modal, Gesture, Pages
  <2>3. \E q : Sent(q) /\ q.by = "sample" /\ q.call = "sample" /\ q.arg = Nowhere
    BY <1>2, <1>5, GestureSends DEF ImportSample, Kinds
  <2>. QED BY <1>3, <2>1, <2>2, <2>3 DEF LockTaken, Locking
<1>6. CASE ConfirmImport
  <2>1. GestureKeeps /\ ui' \in Pages /\ LookKept
    BY <1>1, <1>6 DEF ConfirmImport, Gesture, GestureKeeps, LookKept, Pages
  <2>2. ~ui.lock /\ ui'.lock /\ ui.preview # 0 /\ ui'.preview = ui.preview
    BY <1>1, <1>6 DEF ConfirmImport, InDialog, Modal, Gesture, Pages
  <2>3. \E q : Sent(q) /\ q.by = "confirm" /\ q.call = "confirm" /\ q.arg = <<"token", ui.preview>>
    BY <1>2, <1>6, GestureSends DEF ConfirmImport, Kinds
  <2>. QED BY <1>3, <2>1, <2>2, <2>3 DEF LockTaken, Locking
<1>7. CASE CancelPreview
  <2>1. GestureKeeps /\ ui' \in Pages /\ LookKept
    BY <1>1, <1>7 DEF CancelPreview, Gesture, GestureKeeps, LookKept, Pages
  <2>2. ~ui.lock /\ ui'.lock /\ ui'.preview = 0
    BY <1>1, <1>7 DEF CancelPreview, Gesture, Pages
  <2>3. \E q : Sent(q) /\ q.by = "dismiss" /\ q.call = "dismiss" /\ q.arg = <<"token", ui.preview>>
    BY <1>2, <1>7, GestureSends DEF CancelPreview, Kinds
  <2>. QED BY <1>3, <2>1, <2>2, <2>3 DEF LockTaken, Locking
<1>8. CASE ChooseAnother
  <2>1. GestureKeeps /\ ui' \in Pages /\ LookKept
    BY <1>1, <1>8 DEF ChooseAnother, Gesture, GestureKeeps, LookKept, Pages
  <2>2. ~ui.lock /\ ui'.lock /\ ui'.preview = 0
    BY <1>1, <1>8 DEF ChooseAnother, Gesture, Pages
  <2>3. \E q : Sent(q) /\ q.by = "another" /\ q.call = "dismiss" /\ q.arg = <<"token", ui.preview>>
    BY <1>2, <1>8, GestureSends DEF ChooseAnother, Kinds
  <2>. QED BY <1>3, <2>1, <2>2, <2>3 DEF LockTaken, Locking
<1>. QED BY <1>4, <1>5, <1>6, <1>7, <1>8

-----------------------------------------------------------------------------
(* What the main process does *)

\* An answer tells what has changed in the vault.
Told1(r) ==
  /\ ver' = ver \/ r.status \in {"imported", "purged"}
  /\ log' = log \/ r.of.call \in {"search", "fetch"} \/ r.status \in {"purged", "cleared"}
  /\ r.of.call = "refresh" =>
       ver' = ver /\ log' = log /\ (r.ver = ver \/ r.draft) /\ r.log = log
  /\ Present \subseteq Present' \/ r.status = "purged"
  /\ r.of.call \in {"search", "fetch"} => r.got \subseteq Present'
Replied(q) == \E r \in Answers : Reply(r) /\ r.of = q /\ Told1(r)
Unreplied == UNCHANGED <<outbox, ver, log>>
WorkKept ==
  /\ work' \in [q : {work.q}, aborted : BOOLEAN, open : {work.open}]
  /\ work = NoWork => work' = NoWork
Replies(q) == Replied(q) /\ UNCHANGED <<native, samples>> /\ WorkKept
ToNative(q) ==
  q.call \in {"prepare", "purge", "clear"} /\ native' = native \cup {q} /\ UNCHANGED <<samples, work>>
ToSamples(q) == q.call = "sample" /\ samples' = samples \cup {q} /\ UNCHANGED <<native, work>>
ToWork(q) ==
  work = NoWork /\ work' = [q |-> q, aborted |-> FALSE, open |-> q.call = "confirm"]
Handled(q) ==
  /\ VaultTyped'
  /\ \/ Replies(q)
     \/ Unreplied /\ ToNative(q)
     \/ Unreplied /\ ToSamples(q)
     \/ Unreplied /\ q.call = "confirm" /\ ToWork(q) /\ UNCHANGED <<native, samples>>

(* An answer that leaves the vault as it was. *)
LEMMA AnswerInPeace ==
  ASSUME NEW q \in Calls, q.call \notin {"search", "fetch", "refresh"},
         NEW s \in Statuses(q.call), Reply(Answer(q, s)), UNCHANGED vaultVars
  PROVE  Replied(q)
<1>1. Answer(q, s) \in Answers /\ Answer(q, s).of = q
  BY PlainAnswer
<1>2. Told1(Answer(q, s))
  BY <1>1 DEF Told1, vaultVars, Present
<1>. QED BY <1>1, <1>2 DEF Replied

(* The handlers that neither read nor change the vault. *)
LEMMA QuietHandlers ==
  ASSUME CallInvariant, NEW q \in Calls,
         \/ q.call = "prepare" /\ HandlePrepare(q)
         \/ q.call = "dismiss" /\ HandleDismiss(q)
         \/ q.call = "sample" /\ HandleSample(q)
         \/ q.call = "cancel" /\ HandleCancel(q)
         \/ q.call = "clear" /\ HandleClear(q)
  PROVE  Handled(q)
<1>1. VaultTyped /\ work \in [q : Calls \cup {NoCall}, aborted : BOOLEAN, open : BOOLEAN]
  BY CallParts DEF HeldTyped
<1>2. ASSUME UNCHANGED vaultVars PROVE VaultTyped'
  BY <1>1, <1>2 DEF VaultTyped, vaultVars
<1>3. work' = work => WorkKept
  BY <1>1 DEF WorkKept
<1>4. CASE q.call = "prepare" /\ HandlePrepare(q)
  <2>1. CASE Reply(Answer(q, "busy")) /\ UNCHANGED native
    <3>1. Replied(q)
      BY <1>4, <2>1, AnswerInPeace DEF HandlePrepare, SameVault, Statuses
    <3>. QED BY <1>2, <1>3, <1>4, <2>1, <3>1 DEF HandlePrepare, SameVault, Handled, Replies
  <2>2. CASE native' = native \cup {q} /\ UNCHANGED outbox
    BY <1>2, <1>4, <2>2 DEF HandlePrepare, SameVault, Handled, Unreplied, ToNative, vaultVars
  <2>. QED BY <1>4, <2>1, <2>2 DEF HandlePrepare
<1>5. CASE q.call = "dismiss" /\ HandleDismiss(q)
  <2>1. Replied(q)
    BY <1>5, AnswerInPeace DEF HandleDismiss, SameVault, Statuses
  <2>. QED BY <1>2, <1>3, <1>5, <2>1 DEF HandleDismiss, SameVault, SameWork, workVars, Handled, Replies
<1>6. CASE q.call = "sample" /\ HandleSample(q)
  <2>1. CASE Reply(Answer(q, "thrown")) /\ UNCHANGED samples
    <3>1. Replied(q)
      BY <1>6, <2>1, AnswerInPeace DEF HandleSample, SameVault, Statuses
    <3>. QED BY <1>2, <1>3, <1>6, <2>1, <3>1 DEF HandleSample, SameVault, Handled, Replies
  <2>2. CASE samples' = samples \cup {q} /\ UNCHANGED outbox
    BY <1>2, <1>6, <2>2 DEF HandleSample, SameVault, Handled, Unreplied, ToSamples, vaultVars
  <2>. QED BY <1>6, <2>1, <2>2 DEF HandleSample
<1>7. CASE q.call = "cancel" /\ HandleCancel(q)
  <2>1. Replied(q)
    BY <1>7, AnswerInPeace DEF HandleCancel, SameVault, Statuses
  <2>2. WorkKept
    <3>1. work' = [work EXCEPT !.aborted = work # NoWork]
      BY <1>7 DEF HandleCancel
    <3>2. CASE work = NoWork
      BY <3>1, <3>2 DEF NoWork, WorkKept
    <3>3. CASE work # NoWork
      BY <1>1, <3>1, <3>3 DEF WorkKept
    <3>. QED BY <3>2, <3>3
  <2>. QED BY <1>2, <1>7, <2>1, <2>2 DEF HandleCancel, SameVault, Handled, Replies
<1>8. CASE q.call = "clear" /\ HandleClear(q)
  BY <1>2, <1>8 DEF HandleClear, SameVault, Handled, Unreplied, ToNative, vaultVars
<1>. QED BY <1>4, <1>5, <1>6, <1>7, <1>8

(* The status of a confirmation. *)
LEMMA ConfirmedStatus ==
  ASSUME NEW t, NEW k, \A j \in DOMAIN t : t[j].state \in States
  PROVE  Confirmed(t, k) \in Statuses("confirm") \ {"busy"}
BY DEF Confirmed, EntryForSender, Statuses, States, Terminal

(* The confirmation's handler. *)
LEMMA ConfirmHandler ==
  ASSUME CallInvariant, \A j \in DOMAIN tokens : tokens[j].state \in States,
         NEW q \in Calls, q.call = "confirm", HandleConfirm(q)
  PROVE  Handled(q)
<1>1. VaultTyped /\ work \in [q : Calls \cup {NoCall}, aborted : BOOLEAN, open : BOOLEAN]
  BY CallParts DEF HeldTyped
<1>2. UNCHANGED <<ver, log>> /\ (UNCHANGED clock => VaultTyped' /\ UNCHANGED vaultVars)
  BY <1>1 DEF VaultTyped, vaultVars, HandleConfirm
<1>3. work' = work => WorkKept
  BY <1>1 DEF WorkKept
<1>4. CASE Reply(Answer(q, "busy")) /\ UNCHANGED <<work, clock>>
  <2>1. Replied(q)
    BY <1>2, <1>4, AnswerInPeace DEF Statuses
  <2>. QED BY <1>2, <1>3, <1>4, <2>1 DEF HandleConfirm, Handled, Replies
<1> DEFINE t == TakeForConfirmation(tokens, q.arg[2], due)
<1>5. \A j \in DOMAIN t : t[j].state \in States
  BY DEF TakeForConfirmation, Expire, SetState, States, Terminal
<1> HIDE DEF t
<1>6. CASE UNCHANGED <<work, clock>> /\ Reply(Answer(q, Confirmed(t, q.arg[2])))
  <2>1. Confirmed(t, q.arg[2]) \in Statuses(q.call)
    BY <1>5, ConfirmedStatus
  <2>2. Replied(q)
    BY <1>2, <1>6, <2>1, AnswerInPeace
  <2>. QED BY <1>2, <1>3, <1>6, <2>2 DEF HandleConfirm, Handled, Replies
<1>7. CASE /\ NotBusy /\ clock' = clock + 1 /\ UNCHANGED outbox
           /\ work' = [q |-> q, aborted |-> FALSE, open |-> TRUE]
  <2>1. VaultTyped'
    BY <1>1, <1>2, <1>7 DEF VaultTyped
  <2>. QED BY <1>2, <1>7, <2>1 DEF HandleConfirm, Handled, Unreplied, NotBusy, ToWork
<1>. QED BY <1>4, <1>6, <1>7 DEF HandleConfirm, t

(* A list of sources is a version of the vault, or a draft. *)
LEMMA ListingsTyped ==
  ASSUME VaultTyped, NEW listed \in Listings
  PROVE  listed.ver \in Versions /\ listed.draft \in BOOLEAN /\ (listed.ver = ver \/ listed.draft)
<1>1. \/ listed.ver = ver /\ listed.draft = FALSE
      \/ listed.ver = [ver EXCEPT ![Target] = clock] /\ listed.draft = TRUE
  BY DEF Listings, Listing
<1>2. ver \in [Sources -> Nat] /\ clock \in Nat
  BY DEF VaultTyped, Versions
<1>3. [ver EXCEPT ![Target] = clock] \in [Sources -> Nat]
  BY <1>2
<1>. QED BY <1>1, <1>2, <1>3 DEF Versions

(* The handlers that read. *)
LEMMA ReadingHandlers ==
  ASSUME CallInvariant, NEW q \in Calls,
         \/ q.call = "search" /\ HandleSearch(q)
         \/ q.call = "fetch" /\ HandleFetch(q)
         \/ q.call = "refresh" /\ HandleRefresh(q)
  PROVE  Handled(q)
<1>1. /\ VaultTyped /\ work \in [q : Calls \cup {NoCall}, aborted : BOOLEAN, open : BOOLEAN]
      /\ ver \in Versions /\ log \in Logs
  BY CallParts DEF HeldTyped, VaultTyped
<1>2. work' = work => WorkKept
  BY <1>1 DEF WorkKept
<1>3. /\ q.id \in Nat /\ (q.call = "fetch" => q.arg[1] \in Sources)
  BY CallFields
<1>4. NoVersions \in Versions /\ {} \in Logs
  BY DEF NoVersions, Versions, Logs
<1>5. ASSUME NEW found \in SUBSET Present PROVE log \cup Entries(q, found) \in Logs
  BY <1>1, <1>3 DEF Logs, Present, Entries
<1>6. ASSUME q.call \in {"search", "fetch"}, UNCHANGED <<ver, clock>>, SameWork,
             NEW r \in Answers, Reply(r), r.of = q, r.got \subseteq Present, log' \in Logs
      PROVE Handled(q)
  <2>1. VaultTyped'
    BY <1>1, <1>6 DEF VaultTyped
  <2>2. Told1(r)
    BY <1>6 DEF Told1, Present
  <2>. QED BY <1>2, <1>6, <2>1, <2>2 DEF Handled, Replies, Replied, SameWork, workVars
<1>7. CASE q.call = "search" /\ HandleSearch(q)
  <2>1. UNCHANGED <<ver, clock>> /\ SameWork
    BY <1>7 DEF HandleSearch
  <2>2. CASE Withheld(q)
    <3>1. Answer(q, "thrown") \in Answers /\ Answer(q, "thrown").of = q /\ Answer(q, "thrown").got = {}
      BY <1>7, PlainAnswer DEF Statuses
    <3>. QED BY <1>1, <1>6, <1>7, <2>1, <2>2, <3>1 DEF Withheld
  <2>3. ASSUME NEW found \in SUBSET Present, Retrieve(q, found)
        PROVE Handled(q)
    <3> DEFINE r == [Answer(q, "ok") EXCEPT !.got = found]
    <3>2. found \subseteq Present /\ found \subseteq Readable(q) /\ "ok" \in Statuses(q.call)
      BY <1>7, <2>3 DEF Readable, Present, Statuses
    <3>3. Answer(q, "ok") \in Answers /\ Answer(q, "ok").of = q
      BY <3>2, PlainAnswer
    <3>4. r \in Answers /\ r.of = q /\ r.got \subseteq Present
      BY <3>2, <3>3, AnswerGot
    <3>5. log' \in Logs
      BY <1>5, <2>3 DEF Retrieve
    <3>6. Reply(r)
      BY <2>3 DEF Retrieve
    <3> HIDE DEF r
    <3>. QED BY <1>6, <1>7, <2>1, <3>4, <3>5, <3>6
  <2>. QED BY <1>7, <2>2, <2>3 DEF HandleSearch
<1>8. CASE q.call = "fetch" /\ HandleFetch(q)
  <2> DEFINE found == {q.arg[1]} \cap Present
             r == [Answer(q, "ok") EXCEPT !.got = found]
  <2>1. UNCHANGED <<ver, clock>> /\ SameWork
    BY <1>8 DEF HandleFetch
  <2>2. CASE Withheld(q)
    <3>1. Answer(q, "thrown") \in Answers /\ Answer(q, "thrown").of = q /\ Answer(q, "thrown").got = {}
      BY <1>8, PlainAnswer DEF Statuses
    <3>. QED BY <1>1, <1>6, <1>8, <2>1, <2>2, <3>1 DEF Withheld
  <2>3. CASE Retrieve(q, found)
    <3>2. found \subseteq Present /\ found \subseteq Readable(q) /\ "ok" \in Statuses(q.call)
      BY <1>8 DEF Readable, Statuses
    <3>3. Answer(q, "ok") \in Answers /\ Answer(q, "ok").of = q
      BY <3>2, PlainAnswer
    <3> HIDE DEF found
    <3>4. r \in Answers /\ r.of = q /\ r.got \subseteq Present
      BY <3>2, <3>3, AnswerGot
    <3>5. log' \in Logs
      BY <1>5, <2>3, <3>2 DEF Retrieve
    <3>6. Reply(r)
      BY <2>3 DEF Retrieve
    <3> HIDE DEF r
    <3>. QED BY <1>6, <1>8, <2>1, <3>4, <3>5, <3>6
  <2>. QED BY <1>8, <2>2, <2>3 DEF HandleFetch
<1>9. CASE q.call = "refresh" /\ HandleRefresh(q)
  <2>1. PICK got \in SUBSET Parts(q), listed \in Listings :
          Reply([Answer(q, IF got = Parts(q) THEN "ok" ELSE "thrown") EXCEPT
                   !.got = got, !.ver = listed.ver, !.draft = listed.draft, !.log = log])
    BY <1>9 DEF HandleRefresh
  <2>0. listed.ver \in Versions /\ listed.draft \in BOOLEAN /\ (listed.ver = ver \/ listed.draft)
    BY <1>1, ListingsTyped
  <2> DEFINE s == IF got = Parts(q) THEN "ok" ELSE "thrown"
             b == Answer(q, s)
             r == WithRead(b, got, listed.ver, listed.draft, log)
  <2>2. got \subseteq Readable(q) /\ s \in Statuses(q.call)
    BY <1>9 DEF Readable, Statuses
  <2> HIDE DEF s
  <2>3. b \in Answers /\ b.of = q
    BY <2>2, PlainAnswer
  <2> HIDE DEF b
  <2>4. r \in Answers /\ r.of = b.of /\ r.ver = listed.ver /\ r.draft = listed.draft /\ r.log = log
    BY <1>1, <2>0, <2>2, <2>3, AnswerRead
  <2>5. r.of = q
    BY <2>3, <2>4
  <2>6. Reply(r)
    BY <2>1 DEF s, b, WithRead
  <2> HIDE DEF r
  <2>7. UNCHANGED <<ver, log, clock, native, samples, work>>
    BY <1>9 DEF HandleRefresh, SameVault, SameWork, workVars, vaultVars
  <2>8. Told1(r)
    BY <1>9, <2>0, <2>4, <2>5, <2>7 DEF Told1, Present
  <2>9. VaultTyped'
    BY <1>1, <2>7 DEF VaultTyped
  <2>. QED BY <1>2, <2>4, <2>5, <2>6, <2>7, <2>8, <2>9 DEF Handled, Replies, Replied
<1>. QED BY <1>7, <1>8, <1>9

(* The handlers of a removal. *)
LEMMA PurgeHandlers ==
  ASSUME CallInvariant, NEW q \in Calls,
         \/ q.call = "preparePurge" /\ HandlePreparePurge(q)
         \/ q.call = "purge" /\ HandlePurge(q)
  PROVE  Handled(q)
<1>1. /\ VaultTyped /\ work \in [q : Calls \cup {NoCall}, aborted : BOOLEAN, open : BOOLEAN] /\ ver \in Versions
  BY CallParts DEF HeldTyped, VaultTyped
<1>2. work' = work => WorkKept
  BY <1>1 DEF WorkKept
<1>3. UNCHANGED vaultVars /\ UNCHANGED work
  BY DEF HandlePreparePurge, HandlePurge, SameVault, SameWork, workVars
<1>4. VaultTyped'
  BY <1>1, <1>3 DEF VaultTyped, vaultVars
<1>5. CASE q.call = "preparePurge" /\ HandlePreparePurge(q)
  <2>1. UNCHANGED <<native, samples>>
    BY <1>5 DEF HandlePreparePurge, SameWork, workVars
  <2>2. CASE Reply(Answer(q, "import-in-progress")) \/ Reply(Answer(q, "not-found"))
    <3>1. Replied(q)
      BY <1>3, <1>5, <2>2, AnswerInPeace DEF Statuses
    <3>. QED BY <1>2, <1>3, <1>4, <2>1, <3>1 DEF Handled, Replies
  <2>3. CASE Reply([Answer(q, "ready") EXCEPT !.ver = ver])
    <3> DEFINE r == [Answer(q, "ready") EXCEPT !.ver = ver]
    <3>1. Answer(q, "ready") \in Answers /\ Answer(q, "ready").of = q
      BY <1>5, PlainAnswer DEF Statuses
    <3>2. r \in Answers
      BY <1>1, <3>1, AnswerVer
    <3>3. r.of = q
      BY <1>1, <3>1, AnswerVer
    <3> HIDE DEF r
    <3>4. Told1(r)
      BY <1>3, <1>5, <3>3 DEF Told1, vaultVars, Present
    <3>5. Replied(q)
      BY <2>3, <3>2, <3>3, <3>4 DEF Replied, r
    <3>. QED BY <1>2, <1>3, <1>4, <2>1, <3>5 DEF Handled, Replies
  <2>. QED BY <1>5, <2>2, <2>3 DEF HandlePreparePurge
<1>6. CASE q.call = "purge" /\ HandlePurge(q)
  <2>1. CASE PurgeStatus(q) # "ready" /\ Reply(Answer(q, PurgeStatus(q))) /\ UNCHANGED native
    <3>1. PurgeStatus(q) \in Statuses(q.call)
      BY <1>6, <2>1 DEF PurgeStatus, Statuses
    <3>2. Replied(q)
      BY <1>3, <1>6, <2>1, <3>1, AnswerInPeace
    <3>. QED BY <1>2, <1>3, <1>4, <1>6, <2>1, <3>2 DEF Handled, Replies, HandlePurge
  <2>2. CASE native' = native \cup {q} /\ UNCHANGED outbox
    BY <1>3, <1>4, <1>6, <2>2 DEF HandlePurge, Handled, Unreplied, ToNative, vaultVars
  <2>. QED BY <1>6, <2>1, <2>2 DEF HandlePurge
<1>. QED BY <1>5, <1>6

\* A held call is answered, or holds activeImport from now on.
Leaves(q) ==
  \/ q \in native /\ native' = native \ {q} /\ UNCHANGED <<samples, work>> /\ Replied(q)
  \/ q \in samples /\ samples' = samples \ {q} /\ UNCHANGED <<native, work>> /\ Replied(q)
  \/ work # NoWork /\ q = work.q /\ work' = NoWork /\ UNCHANGED <<native, samples>> /\ Replied(q)
  \/ /\ q \in native /\ q.call = "prepare" /\ native' = native \ {q} /\ UNCHANGED samples
     /\ ToWork(q) /\ Unreplied
  \/ /\ q \in samples /\ q.call = "sample" /\ samples' = samples \ {q} /\ UNCHANGED native
     /\ ToWork(q) /\ Unreplied
Left(q) ==
  q \in Calls /\ q \in Held /\ UNCHANGED <<pageVars, inbox, missed>> /\ VaultTyped' /\ Leaves(q)

(* An import's version of the vault. *)
LEMMA ImportsTyped ==
  ASSUME VaultTyped, NEW s \in Sources, Imports(s)
  PROVE  VaultTyped' /\ UNCHANGED log /\ Present \subseteq Present'
<1>1. ver \in Versions /\ log \in Logs /\ clock \in Nat /\ clock + 1 \in Nat /\ clock + 1 # 0
  BY DEF VaultTyped
<1>2. ver' = [ver EXCEPT ![s] = clock + 1] /\ clock' = clock + 1 /\ log' = log
  BY DEF Imports
<1>3. ver' \in Versions
  BY <1>1, <1>2 DEF Versions
<1>4. \A x \in Sources : ver[x] # 0 => ver'[x] # 0
  BY <1>1, <1>2 DEF Versions
<1>. QED BY <1>1, <1>2, <1>3, <1>4 DEF VaultTyped, Present

(* The answer to a native dialog. *)
LEMMA NativeAnswered ==
  ASSUME CallInvariant, NEW q \in native, native' = native \ {q},
         AnswerPicker(q) \/ AnswerPurge(q) \/ AnswerClear(q), UNCHANGED <<pageVars, inbox, samples, missed>>
  PROVE  Left(q)
<1>1. VaultTyped /\ q \in Calls /\ ver \in Versions /\ log \in Logs /\ q \in Held
  BY CallParts DEF HeldTyped, VaultTyped, Held
<1>2. ASSUME UNCHANGED vaultVars PROVE VaultTyped'
  BY <1>1, <1>2 DEF VaultTyped, vaultVars
<1>3. ASSUME VaultTyped', Replied(q), UNCHANGED work PROVE Left(q)
  BY <1>1, <1>3 DEF Left, Leaves
<1>4. CASE AnswerPicker(q)
  <2>1. UNCHANGED vaultVars /\ q.call = "prepare"
    BY <1>4 DEF AnswerPicker, SameVault
  <2>2. CASE (Reply(Answer(q, "canceled")) \/ Reply(Answer(q, "busy"))) /\ UNCHANGED work
    <3>1. Replied(q)
      BY <1>1, <2>1, <2>2, AnswerInPeace DEF Statuses
    <3>. QED BY <1>2, <1>3, <2>1, <2>2, <3>1
  <2>3. CASE work = NoWork /\ work' = [NoWork EXCEPT !.q = q] /\ UNCHANGED outbox
    BY <1>1, <1>2, <2>1, <2>3 DEF Left, Leaves, ToWork, Unreplied, vaultVars, NoWork
  <2>. QED BY <1>4, <2>2, <2>3 DEF AnswerPicker
<1>5. CASE AnswerPurge(q)
  <2>1. q.call = "purge" /\ UNCHANGED work
    BY <1>5 DEF AnswerPurge
  <2>2. PurgeStatus(q) # "ready" => PurgeStatus(q) \in Statuses(q.call)
    BY <2>1 DEF PurgeStatus, Statuses
  <2>3. ASSUME NEW s \in Statuses(q.call), Reply(Answer(q, s)), SameVault PROVE Left(q)
    <3>1. Replied(q)
      BY <1>1, <2>1, <2>3, AnswerInPeace DEF SameVault
    <3>. QED BY <1>2, <1>3, <2>1, <2>3, <3>1 DEF SameVault
  <2>4. CASE /\ PurgeStatus(q) = "ready" /\ ver' = [ver EXCEPT ![q.arg[1]] = 0] /\ UNCHANGED clock
             /\ log' = {e \in log : e[2] # q.arg[1]} /\ Reply(Answer(q, "purged"))
    <3>1. Answer(q, "purged") \in Answers /\ Answer(q, "purged").of = q
          /\ Answer(q, "purged").status = "purged"
      BY <1>1, <2>1, PlainAnswer DEF Statuses
    <3>2. Told1(Answer(q, "purged"))
      BY <2>1, <3>1 DEF Told1
    <3>3. ver' \in Versions
      BY <1>1, <2>4 DEF Versions
    <3>4. log' \in Logs
      BY <1>1, <2>4 DEF Logs
    <3>5. VaultTyped'
      BY <1>1, <2>4, <3>3, <3>4 DEF VaultTyped
    <3>6. Replied(q)
      BY <2>4, <3>1, <3>2 DEF Replied
    <3>. QED BY <1>3, <2>1, <3>5, <3>6
  <2>5. {"canceled", "thrown"} \subseteq Statuses(q.call)
    BY <2>1 DEF Statuses
  <2>. QED BY <1>5, <2>2, <2>3, <2>4, <2>5 DEF AnswerPurge
<1>6. CASE AnswerClear(q)
  <2>1. q.call = "clear" /\ UNCHANGED work /\ {"canceled", "thrown", "cleared"} \subseteq Statuses(q.call)
    BY <1>6 DEF AnswerClear, Statuses
  <2>2. ASSUME NEW s \in Statuses(q.call), Reply(Answer(q, s)), SameVault PROVE Left(q)
    <3>1. Replied(q)
      BY <1>1, <2>1, <2>2, AnswerInPeace DEF SameVault
    <3>. QED BY <1>2, <1>3, <2>1, <2>2, <3>1 DEF SameVault
  <2>3. CASE log' = {} /\ UNCHANGED <<ver, clock>> /\ Reply(Answer(q, "cleared"))
    <3>1. Answer(q, "cleared") \in Answers /\ Answer(q, "cleared").of = q
          /\ Answer(q, "cleared").status = "cleared"
      BY <1>1, <2>1, PlainAnswer
    <3>2. Told1(Answer(q, "cleared"))
      BY <2>1, <2>3, <3>1 DEF Told1, Present
    <3>3. VaultTyped'
      BY <1>1, <2>3 DEF VaultTyped, Logs
    <3>4. Replied(q)
      BY <2>3, <3>1, <3>2 DEF Replied
    <3>. QED BY <1>3, <2>1, <3>3, <3>4
  <2>. QED BY <1>6, <2>1, <2>2, <2>3 DEF AnswerClear
<1>. QED BY <1>4, <1>5, <1>6

(* The end of a scan or an import. *)
LEMMA WorkSettled ==
  ASSUME CallInvariant, TokensTyped, Settle
  PROVE  Left(work.q)
<1>1. VaultTyped /\ work \in [q : Calls \cup {NoCall}, aborted : BOOLEAN, open : BOOLEAN] /\ work # NoWork
      /\ work.q.call \in {"prepare", "confirm", "sample"} /\ work.q \in Held
  BY CallParts DEF HeldTyped, Settle, Held
<1> DEFINE q == work.q
<1>2. q \in Calls
  <2>1. NoCall.call = "none"
    BY DEF NoCall
  <2>. QED BY <1>1, <2>1
<1>3. work' = NoWork /\ UNCHANGED <<pageVars, inbox, native, samples, missed>>
  BY DEF Settle
<1>4. ASSUME UNCHANGED vaultVars PROVE VaultTyped'
  BY <1>1, <1>4 DEF VaultTyped, vaultVars
<1>5. ASSUME VaultTyped', Replied(q) PROVE Left(q)
  BY <1>1, <1>2, <1>3, <1>5 DEF Left, Leaves
<1>6. ASSUME NEW s \in Statuses(q.call), Reply(Answer(q, s)), UNCHANGED vaultVars PROVE Left(q)
  <2>1. Replied(q)
    BY <1>1, <1>2, <1>6, AnswerInPeace
  <2>. QED BY <1>4, <1>5, <1>6, <2>1
<1>7. ASSUME NEW s \in Sources, Imports(s), q.call \in {"confirm", "sample"}, Reply(Answer(q, "imported"))
      PROVE Left(q)
  <2>1. Answer(q, "imported") \in Answers /\ Answer(q, "imported").of = q
        /\ Answer(q, "imported").status = "imported"
    BY <1>2, <1>7, PlainAnswer DEF Statuses
  <2>2. VaultTyped' /\ UNCHANGED log /\ Present \subseteq Present'
    BY <1>1, <1>7, ImportsTyped
  <2>3. Told1(Answer(q, "imported"))
    BY <1>7, <2>1, <2>2 DEF Told1
  <2>4. Replied(q)
    BY <1>7, <2>1, <2>3 DEF Replied
  <2>. QED BY <1>5, <2>2, <2>4
<1>8. CASE SettleScan
  <2>1. q.call = "prepare" /\ UNCHANGED vaultVars
    BY <1>8 DEF SettleScan
  <2>2. ASSUME NEW s \in {"aborted", "failed"}, Reply(Answer(q, s)) PROVE Left(q)
    BY <1>6, <2>1, <2>2 DEF Statuses
  <2>3. ASSUME NEW t \in Nat, NEW can \in BOOLEAN,
               Reply([Answer(q, "ready") EXCEPT !.token = t, !.can = can])
        PROVE Left(q)
    <3> DEFINE b == Answer(q, "ready")
               r == WithToken(b, t, can)
    <3>1. b \in Answers /\ b.of = q /\ b.status = "ready"
      BY <1>2, <2>1, PlainAnswer DEF Statuses
    <3> HIDE DEF b
    <3>2. r \in Answers /\ r.of = q
      BY <2>1, <3>1, AnswerToken
    <3> HIDE DEF r
    <3>3. Told1(r)
      BY <2>1, <3>2 DEF Told1, vaultVars, Present
    <3>4. Replied(q)
      BY <2>3, <3>2, <3>3 DEF Replied, r, b, WithToken
    <3>. QED BY <1>4, <1>5, <2>1, <3>4
  <2>4. issued + 1 \in Nat
    BY DEF TokensTyped
  <2>. QED BY <1>8, <2>2, <2>3, <2>4 DEF SettleScan
<1>9. CASE SettleConfirm
  <2>1. q.call = "confirm" /\ {"aborted", "stale-scan"} \subseteq Statuses(q.call) /\ "folder" \in Sources
    BY <1>9 DEF SettleConfirm, Statuses, States, Terminal, Sources
  <2>. QED BY <1>6, <1>7, <1>9, <2>1 DEF SettleConfirm, SameVault
<1>10. CASE SettleSample
  <2>1. q.call = "sample" /\ "aborted" \in Statuses(q.call) /\ "sample" \in Sources
    BY <1>10 DEF SettleSample, Statuses, Sources
  <2>. QED BY <1>6, <1>7, <1>10, <2>1 DEF SettleSample, SameVault
<1>. QED BY <1>8, <1>9, <1>10 DEF Settle

(* The sample library is in place, or could not be put there. *)
LEMMA SampleLeaves ==
  ASSUME CallInvariant, SampleReady
  PROVE  \E q \in samples : Left(q)
<1>1. PICK q \in samples :
        /\ samples' = samples \ {q}
        /\ \/ work = NoWork /\ work' = [NoWork EXCEPT !.q = q] /\ UNCHANGED outbox
           \/ Reply(Answer(q, "thrown")) /\ UNCHANGED work
  BY DEF SampleReady
<1>2. VaultTyped /\ q \in Calls /\ q.call = "sample" /\ q \in Held
  BY CallParts DEF HeldTyped, Held
<1>3. UNCHANGED <<pageVars, inbox, missed, native>> /\ UNCHANGED vaultVars
  BY DEF SampleReady, SameVault
<1>4. VaultTyped'
  BY <1>2, <1>3 DEF VaultTyped, vaultVars
<1>5. CASE work = NoWork /\ work' = [NoWork EXCEPT !.q = q] /\ UNCHANGED outbox
  BY <1>1, <1>2, <1>3, <1>4, <1>5 DEF Left, Leaves, ToWork, Unreplied, vaultVars, NoWork
<1>6. CASE Reply(Answer(q, "thrown")) /\ UNCHANGED work
  <2>1. Replied(q)
    BY <1>2, <1>3, <1>6, AnswerInPeace DEF Statuses
  <2>. QED BY <1>1, <1>2, <1>3, <1>4, <1>6, <2>1 DEF Left, Leaves
<1>. QED BY <1>1, <1>5, <1>6

(* What is served is handled. *)
LEMMA Served ==
  ASSUME CallInvariant, TokensTyped, Serve
  PROVE  /\ inbox # <<>> /\ Head(inbox) \in Calls /\ inbox' = Tail(inbox)
         /\ UNCHANGED <<pageVars, missed>> /\ Handled(Head(inbox))
<1> DEFINE q == Head(inbox)
<1>1. inbox # <<>> /\ inbox' = Tail(inbox) /\ UNCHANGED <<pageVars, missed>>
  BY DEF Serve
<1>2. q \in Calls
  BY <1>1, CallParts, TakenRange DEF QueuesTyped
<1>3. \A j \in DOMAIN tokens : tokens[j].state \in States
  BY DEF TokensTyped
<1>4. Handled(q)
  <2>1. CASE \/ q.call = "prepare" /\ HandlePrepare(q)
             \/ q.call = "dismiss" /\ HandleDismiss(q)
             \/ q.call = "sample" /\ HandleSample(q)
             \/ q.call = "cancel" /\ HandleCancel(q)
             \/ q.call = "clear" /\ HandleClear(q)
    BY <1>2, <2>1, QuietHandlers
  <2>2. CASE q.call = "confirm" /\ HandleConfirm(q)
    BY <1>2, <1>3, <2>2, ConfirmHandler
  <2>3. CASE \/ q.call = "search" /\ HandleSearch(q)
             \/ q.call = "fetch" /\ HandleFetch(q)
             \/ q.call = "refresh" /\ HandleRefresh(q)
    BY <1>2, <2>3, ReadingHandlers
  <2>4. CASE \/ q.call = "preparePurge" /\ HandlePreparePurge(q)
             \/ q.call = "purge" /\ HandlePurge(q)
    BY <1>2, <2>4, PurgeHandlers
  <2>. QED BY <2>1, <2>2, <2>3, <2>4 DEF Serve
<1>. QED BY <1>1, <1>2, <1>4

-----------------------------------------------------------------------------
(* What the page does with an answer *)

NewCall(q, r) == q \in Calls /\ q.id = r.of.id /\ q.by = r.of.by /\ inbox' = Append(inbox, q)
\* The preview after an answer to a function that has the lock.
After(r) ==
  IF r.of.call = "prepare" THEN r.token
  ELSE IF r.of.by = "confirm" /\ r.status # "busy" THEN 0 ELSE ui.preview
LockCourse(r) ==
  \/ r.of.by \notin Locking /\ LockLeft /\ (inbox' = inbox \/ \E q : NewCall(q, r))
  \/ r.of.by \in Locking /\ inbox' = inbox /\ ~ui'.lock /\ ui'.preview = After(r)
  \/ /\ r.of.by \in Locking /\ r.status # "busy" /\ ui'.lock = ui.lock /\ ui'.preview = After(r)
     /\ \E q : NewCall(q, r) /\ q.call = IF r.of.call = "dismiss" THEN "prepare" ELSE "refresh"
ViewCourse(r) ==
  /\ ui'.shown = IF r.of.call = "refresh" /\ "sources" \in r.got THEN r.ver ELSE ui.shown
  /\ ui'.history = IF r.of.call = "refresh" /\ "activity" \in r.got THEN r.log ELSE ui.history
ResultCourse(r) ==
  /\ ui'.results \in {ui.results, {}} \/ (r.of.call = "search" /\ ui'.results = r.got)
  /\ ui'.drawer \in {ui.drawer, "none"} \/ (r.of.call = "fetch" /\ ui'.drawer \in r.got)
  /\ r.status = "purged" => ui'.results = {} /\ ui'.drawer = "none"
AskCourse(r) ==
  \A p \in {"sources", "activity"} :
    Tells(r, p) /\ r.of.call # "refresh" => \E q : Asks(q, p) /\ NewCall(q, r)
Learned(r) == ui' \in Pages /\ ViewCourse(r) /\ ResultCourse(r) /\ AskCourse(r) /\ LockCourse(r)

(* What a refreshed page shows. *)
LEMMA ShownFields ==
  ASSUME NEW u \in Pages, NEW r \in Answers
  PROVE  LET v == Shown(u, r) IN
         /\ v \in Pages /\ v.lock = u.lock /\ v.preview = u.preview /\ v.results = u.results
         /\ v.drawer = u.drawer
         /\ v.shown = IF "sources" \in r.got THEN r.ver ELSE u.shown
         /\ v.history = IF "activity" \in r.got THEN r.log ELSE u.history
<1>1. r.ver \in Versions /\ r.log \in Logs
  BY AnswerFields
<1>. QED BY <1>1 DEF Shown, Pages

(* The lock and the busy states given back. *)
LEMMA ReleasedFields ==
  ASSUME NEW u \in Pages
  PROVE  LET v == Released(u) IN
         /\ v \in Pages /\ ~v.lock /\ v.preview = u.preview /\ v.results = u.results
         /\ v.drawer = u.drawer /\ v.shown = u.shown /\ v.history = u.history
BY DEF Released, Pages

(* An answer on which the page reads anew, *)
LEMMA RefreshFollows ==
  ASSUME NEW r \in Answers, NEW u, NEW what \in Parted,
         <<r.of.by, "refresh">> \in Kinds, ThenCall(u, r, "refresh", what)
  PROVE  ui' = u /\ \E q : NewCall(q, r) /\ q.call = "refresh" /\ q.arg[1] = what
<1> DEFINE q == Call(r.of.id, r.of.by, "refresh", <<what, 0>>)
<1>1. r.of.id \in Nat \ {0} /\ <<what, 0>> \in Subjects \X Nat
  BY AnswerFields, CallFields DEF Subjects
<1>2. q \in Calls
  BY <1>1, CallTyped
<1>3. q.id = r.of.id /\ q.by = r.of.by /\ q.call = "refresh" /\ q.arg[1] = what
  BY DEF Call
<1>. QED BY <1>2, <1>3 DEF NewCall, ThenCall

(* or prepares another folder. *)
LEMMA PrepareFollows ==
  ASSUME NEW r \in Answers, NEW u,
         <<r.of.by, "prepare">> \in Kinds, ThenCall(u, r, "prepare", "none")
  PROVE  ui' = u /\ \E q : NewCall(q, r) /\ q.call = "prepare"
<1> DEFINE q == Call(r.of.id, r.of.by, "prepare", <<"none", 0>>)
<1>1. r.of.id \in Nat \ {0} /\ <<"none", 0>> \in Subjects \X Nat
  BY AnswerFields, CallFields DEF Subjects
<1>2. q \in Calls
  BY <1>1, CallTyped
<1>3. q.id = r.of.id /\ q.by = r.of.by /\ q.call = "prepare"
  BY DEF Call
<1>. QED BY <1>2, <1>3 DEF NewCall, ThenCall

(* An answer to one of the functions that have the lock. *)
LEMMA LockingLearn ==
  ASSUME ui \in Pages, NEW r \in Answers,
         AfterPrepare(r) \/ AfterConfirm(r) \/ AfterDismiss(r) \/ AfterSample(r)
  PROVE  Learned(r)
<1>1. /\ <<r.of.by, r.of.call>> \in Kinds /\ r.status \in Statuses(r.of.call)
      /\ r.got \subseteq Readable(r.of) /\ r.token \in Nat /\ r.can \in BOOLEAN
  BY AnswerFields, CallFields
<1>2. ASSUME r.of.call \in {"prepare", "confirm", "dismiss", "sample"}, NEW u \in Pages, ui' = u,
             u.shown = ui.shown, u.history = ui.history, u.results \in {ui.results, {}},
             u.drawer = ui.drawer
      PROVE /\ ui' \in Pages /\ ViewCourse(r) /\ ResultCourse(r)
  <2>1. r.status # "purged"
    BY <1>1, <1>2 DEF Statuses, States, Terminal
  <2>2. ViewCourse(r)
    BY <1>2 DEF ViewCourse
  <2>3. ResultCourse(r)
    BY <1>2, <2>1 DEF ResultCourse
  <2>. QED BY <1>2, <2>2, <2>3
<1>3. ASSUME r.of.call = "refresh", NEW u \in Pages, ui' = u,
             u.shown = Shown(ui, r).shown, u.history = Shown(ui, r).history,
             u.results = ui.results, u.drawer = ui.drawer
      PROVE /\ ui' \in Pages /\ ViewCourse(r) /\ ResultCourse(r) /\ AskCourse(r)
  <2>1. r.status # "purged"
    BY <1>1, <1>3 DEF Statuses
  <2>2. ViewCourse(r)
    BY <1>3, ShownFields DEF ViewCourse
  <2>3. ResultCourse(r)
    BY <1>3, <2>1 DEF ResultCourse
  <2>4. AskCourse(r)
    BY <1>3 DEF AskCourse
  <2>. QED BY <1>3, <2>2, <2>3, <2>4
<1>4. ASSUME r.of.call \in {"prepare", "confirm", "dismiss", "sample"}, r.status # "imported" PROVE AskCourse(r)
  BY <1>1, <1>4 DEF AskCourse, Tells, Statuses, States, Terminal
<1>5. CASE AfterPrepare(r)
  <2> DEFINE u == [Released(ui) EXCEPT !.preview = r.token, !.can = r.can]
  <2>1. r.of.call = "prepare" /\ r.of.by \in Locking /\ ui' = u /\ inbox' = inbox
    BY <1>1, <1>5 DEF AfterPrepare, Then, Kinds, Locking
  <2>2. /\ u \in Pages /\ ~u.lock /\ u.preview = r.token /\ u.results = ui.results
        /\ u.drawer = ui.drawer /\ u.shown = ui.shown /\ u.history = ui.history
    BY <1>1 DEF Released, Pages
  <2> HIDE DEF u
  <2>3. LockCourse(r)
    BY <2>1, <2>2 DEF LockCourse, After
  <2>4. r.status # "imported"
    BY <1>1, <2>1 DEF Statuses
  <2>. QED BY <1>2, <1>4, <2>1, <2>2, <2>3, <2>4 DEF Learned
<1>6. CASE AfterConfirm(r)
  <2>1. r.of.by = "confirm" /\ r.of.call \in {"confirm", "refresh"} /\ r.of.by \in Locking
    BY <1>1, <1>6 DEF AfterConfirm, Kinds, Locking
  <2>2. CASE r.of.call = "confirm" /\ r.status = "imported"
             /\ ThenCall([ui EXCEPT !.preview = 0, !.results = {}], r, "refresh", "sources")
    <3> DEFINE u == [ui EXCEPT !.preview = 0, !.results = {}]
    <3>1. /\ u \in Pages /\ u.lock = ui.lock /\ u.preview = 0 /\ u.results = {}
          /\ u.drawer = ui.drawer /\ u.shown = ui.shown /\ u.history = ui.history
      BY DEF Pages
    <3>2. <<r.of.by, "refresh">> \in Kinds /\ "sources" \in Parted /\ ThenCall(u, r, "refresh", "sources")
      BY <2>1, <2>2 DEF Kinds, Parted
    <3> HIDE DEF u
    <3>3. ui' = u /\ \E q : NewCall(q, r) /\ q.call = "refresh" /\ q.arg[1] = "sources"
      BY <3>2, RefreshFollows
    <3>4. AskCourse(r)
      BY <2>2, <3>3 DEF AskCourse, Tells, Asks, Parts
    <3>5. LockCourse(r)
      BY <2>1, <2>2, <3>1, <3>3 DEF LockCourse, After
    <3>. QED BY <1>2, <2>2, <3>1, <3>3, <3>4, <3>5 DEF Learned
  <2>3. CASE r.of.call = "confirm" /\ r.status = "busy" /\ Then(Released(ui))
    <3>1. ui' = Released(ui) /\ inbox' = inbox
      BY <2>3 DEF Then
    <3>2. LockCourse(r)
      BY <2>1, <2>3, <3>1, ReleasedFields DEF LockCourse, After
    <3>. QED BY <1>2, <1>4, <2>3, <3>1, <3>2, ReleasedFields DEF Learned
  <2>4. CASE r.of.call = "confirm" /\ r.status \notin {"imported", "busy"}
             /\ Then([Released(ui) EXCEPT !.preview = 0])
    <3> DEFINE u == [Released(ui) EXCEPT !.preview = 0]
    <3>1. ui' = u /\ inbox' = inbox
      BY <2>4 DEF Then
    <3>2. /\ u \in Pages /\ ~u.lock /\ u.preview = 0 /\ u.results = ui.results
          /\ u.drawer = ui.drawer /\ u.shown = ui.shown /\ u.history = ui.history
      BY DEF Released, Pages
    <3> HIDE DEF u
    <3>3. LockCourse(r)
      BY <2>1, <2>4, <3>1, <3>2 DEF LockCourse, After
    <3>. QED BY <1>2, <1>4, <2>4, <3>1, <3>2, <3>3 DEF Learned
  <2>5. CASE r.of.call = "refresh" /\ Then([Released(Shown(ui, r)) EXCEPT !.preview = 0])
    <3> DEFINE s == Shown(ui, r)
               v == Released(s)
               u == [v EXCEPT !.preview = 0]
    <3>1. ui' = u /\ inbox' = inbox
      BY <2>5 DEF Then
    <3>2. s \in Pages /\ s.results = ui.results /\ s.drawer = ui.drawer
      BY ShownFields
    <3> HIDE DEF s
    <3>3. /\ v \in Pages /\ ~v.lock /\ v.results = ui.results /\ v.drawer = ui.drawer
          /\ v.shown = s.shown /\ v.history = s.history
      BY <3>2, ReleasedFields
    <3> HIDE DEF v
    <3>4. /\ u \in Pages /\ ~u.lock /\ u.preview = 0 /\ u.results = ui.results
          /\ u.drawer = ui.drawer /\ u.shown = s.shown /\ u.history = s.history
      BY <3>3 DEF Pages
    <3> HIDE DEF u
    <3>5. r.status # "busy"
      BY <1>1, <2>5 DEF Statuses
    <3>6. LockCourse(r)
      BY <2>1, <2>5, <3>1, <3>4, <3>5 DEF LockCourse, After
    <3>. QED BY <1>3, <2>5, <3>1, <3>4, <3>6 DEF Learned, s
  <2>. QED BY <1>6, <2>2, <2>3, <2>4, <2>5 DEF AfterConfirm
<1>7. CASE AfterDismiss(r)
  <2>1. r.of.call = "dismiss" /\ r.of.by \in {"dismiss", "another"} /\ r.of.by \in Locking
        /\ r.status # "imported"
    BY <1>1, <1>7 DEF AfterDismiss, Kinds, Locking, Statuses
  <2>2. CASE r.of.by = "dismiss" /\ Then([ui EXCEPT !.lock = FALSE, !.busy = FALSE])
    <3> DEFINE u == [ui EXCEPT !.lock = FALSE, !.busy = FALSE]
    <3>1. ui' = u /\ inbox' = inbox
      BY <2>2 DEF Then
    <3>2. /\ u \in Pages /\ ~u.lock /\ u.preview = ui.preview /\ u.results = ui.results
          /\ u.drawer = ui.drawer /\ u.shown = ui.shown /\ u.history = ui.history
      BY DEF Pages
    <3> HIDE DEF u
    <3>3. LockCourse(r)
      BY <2>1, <2>2, <3>1, <3>2 DEF LockCourse, After
    <3>. QED BY <1>2, <1>4, <2>1, <3>1, <3>2, <3>3 DEF Learned
  <2>3. CASE r.of.by = "another" /\ ThenCall([ui EXCEPT !.activity = "preflight"], r, "prepare", "none")
    <3> DEFINE u == [ui EXCEPT !.activity = "preflight"]
    <3>1. /\ u \in Pages /\ u.lock = ui.lock /\ u.preview = ui.preview /\ u.results = ui.results
          /\ u.drawer = ui.drawer /\ u.shown = ui.shown /\ u.history = ui.history
      BY DEF Pages
    <3>2. <<r.of.by, "prepare">> \in Kinds /\ ThenCall(u, r, "prepare", "none")
      BY <2>3 DEF Kinds
    <3> HIDE DEF u
    <3>3. ui' = u /\ \E q : NewCall(q, r) /\ q.call = "prepare"
      BY <3>2, PrepareFollows
    <3>4. LockCourse(r)
      BY <1>1, <2>1, <2>3, <3>1, <3>3 DEF LockCourse, After, Statuses
    <3>. QED BY <1>2, <1>4, <2>1, <3>1, <3>3, <3>4 DEF Learned
  <2>. QED BY <1>7, <2>2, <2>3 DEF AfterDismiss
<1>8. CASE AfterSample(r)
  <2>1. r.of.by = "sample" /\ r.of.call \in {"sample", "refresh"} /\ r.of.by \in Locking
    BY <1>1, <1>8 DEF AfterSample, Kinds, Locking
  <2>2. CASE r.of.call = "sample" /\ r.status = "imported"
             /\ ThenCall([ui EXCEPT !.results = {}], r, "refresh", "sources")
    <3> DEFINE u == [ui EXCEPT !.results = {}]
    <3>1. /\ u \in Pages /\ u.lock = ui.lock /\ u.preview = ui.preview /\ u.results = {}
          /\ u.drawer = ui.drawer /\ u.shown = ui.shown /\ u.history = ui.history
      BY DEF Pages
    <3>2. <<r.of.by, "refresh">> \in Kinds /\ "sources" \in Parted /\ ThenCall(u, r, "refresh", "sources")
      BY <2>1, <2>2 DEF Kinds, Parted
    <3> HIDE DEF u
    <3>3. ui' = u /\ \E q : NewCall(q, r) /\ q.call = "refresh" /\ q.arg[1] = "sources"
      BY <3>2, RefreshFollows
    <3>4. AskCourse(r)
      BY <2>2, <3>3 DEF AskCourse, Tells, Asks, Parts
    <3>5. LockCourse(r)
      BY <2>1, <2>2, <3>1, <3>3 DEF LockCourse, After
    <3>. QED BY <1>2, <2>2, <3>1, <3>3, <3>4, <3>5 DEF Learned
  <2>3. CASE r.of.call = "sample" /\ r.status # "imported"
             /\ Then([ui EXCEPT !.lock = FALSE, !.activity = "none"])
    <3> DEFINE u == [ui EXCEPT !.lock = FALSE, !.activity = "none"]
    <3>1. ui' = u /\ inbox' = inbox
      BY <2>3 DEF Then
    <3>2. /\ u \in Pages /\ ~u.lock /\ u.preview = ui.preview /\ u.results = ui.results
          /\ u.drawer = ui.drawer /\ u.shown = ui.shown /\ u.history = ui.history
      BY DEF Pages
    <3> HIDE DEF u
    <3>3. LockCourse(r)
      BY <2>1, <2>3, <3>1, <3>2 DEF LockCourse, After
    <3>. QED BY <1>2, <1>4, <2>3, <3>1, <3>2, <3>3 DEF Learned
  <2>4. CASE r.of.call = "refresh" /\ Then([Shown(ui, r) EXCEPT !.lock = FALSE, !.activity = "none"])
    <3> DEFINE s == Shown(ui, r)
               u == [s EXCEPT !.lock = FALSE, !.activity = "none"]
    <3>1. ui' = u /\ inbox' = inbox
      BY <2>4 DEF Then
    <3>2. s \in Pages /\ s.results = ui.results /\ s.drawer = ui.drawer /\ s.preview = ui.preview
      BY ShownFields
    <3> HIDE DEF s
    <3>4. /\ u \in Pages /\ ~u.lock /\ u.preview = ui.preview /\ u.results = ui.results
          /\ u.drawer = ui.drawer /\ u.shown = s.shown /\ u.history = s.history
      BY <3>2 DEF Pages
    <3> HIDE DEF u
    <3>6. LockCourse(r)
      BY <2>1, <2>4, <3>1, <3>4 DEF LockCourse, After
    <3>. QED BY <1>3, <2>4, <3>1, <3>4, <3>6 DEF Learned, s
  <2>. QED BY <1>8, <2>2, <2>3, <2>4 DEF AfterSample
<1>. QED BY <1>5, <1>6, <1>7, <1>8

(* An answer to one of the others: it ends, or asks for a part. *)
LEMMA FreeLearn ==
  ASSUME ui \in Pages, NEW r \in Answers,
         AfterSearch(r) \/ AfterFetch(r) \/ AfterBegin(r) \/ AfterPurge(r) \/ AfterClear(r)
         \/ AfterRead(r)
  PROVE  Learned(r)
<1>1. /\ <<r.of.by, r.of.call>> \in Kinds /\ r.status \in Statuses(r.of.call)
      /\ r.got \subseteq Readable(r.of) /\ (r.of.call \in {"fetch", "preparePurge"} => r.of.arg[1] \in Sources)
      /\ r.ver \in Versions
  BY AnswerFields, CallFields
<1>2. ASSUME r.of.call # "refresh", NEW u \in Pages, ui' = u, u.shown = ui.shown, u.history = ui.history
      PROVE  ui' \in Pages /\ ViewCourse(r)
  BY <1>2 DEF ViewCourse
<1>3. ASSUME r.of.call = "refresh", NEW u \in Pages, ui' = u,
             u.shown = Shown(ui, r).shown, u.history = Shown(ui, r).history,
             u.results = ui.results, u.drawer = ui.drawer
      PROVE /\ ui' \in Pages /\ ViewCourse(r) /\ ResultCourse(r) /\ AskCourse(r)
  <2>1. r.status # "purged"
    BY <1>1, <1>3 DEF Statuses
  <2>2. ViewCourse(r)
    BY <1>3, ShownFields DEF ViewCourse
  <2>3. ResultCourse(r)
    BY <1>3, <2>1 DEF ResultCourse
  <2>4. AskCourse(r)
    BY <1>3 DEF AskCourse
  <2>. QED BY <1>3, <2>2, <2>3, <2>4
<1>4. ASSUME r.of.by \notin Locking, NEW u, ui' = u, u.lock = ui.lock, u.preview = ui.preview,
             inbox' = inbox \/ \E q : NewCall(q, r)
      PROVE  LockCourse(r)
  BY <1>4 DEF LockCourse, LockLeft
<1>5. ASSUME r.of.by \notin Locking, NEW u \in Pages, NEW what \in Parted,
             <<r.of.by, "refresh">> \in Kinds, ThenCall(u, r, "refresh", what),
             u.lock = ui.lock, u.preview = ui.preview
      PROVE  /\ ui' = u /\ LockCourse(r)
             /\ \A p \in {"sources", "activity"} :
                  what \in {p, "both"} => \E q : Asks(q, p) /\ NewCall(q, r)
  <2>1. ui' = u /\ \E q : NewCall(q, r) /\ q.call = "refresh" /\ q.arg[1] = what
    BY <1>5, RefreshFollows
  <2>2. LockCourse(r)
    BY <1>4, <1>5, <2>1
  <2>3. \A p \in {"sources", "activity"} :
           what \in {p, "both"} => \E q : Asks(q, p) /\ NewCall(q, r)
    BY <2>1 DEF Asks, Parts
  <2>. QED BY <2>1, <2>2, <2>3
<1>6. ASSUME r.of.by \notin Locking, r.of.call = "refresh", Then(Shown(ui, r)) PROVE Learned(r)
  <2>1. ui' = Shown(ui, r) /\ inbox' = inbox
    BY <1>6 DEF Then
  <2>2. /\ Shown(ui, r) \in Pages /\ Shown(ui, r).lock = ui.lock /\ Shown(ui, r).preview = ui.preview
        /\ Shown(ui, r).results = ui.results /\ Shown(ui, r).drawer = ui.drawer
    BY ShownFields
  <2>3. LockCourse(r)
    BY <1>4, <1>6, <2>1, <2>2
  <2>4. ui' \in Pages /\ ViewCourse(r) /\ ResultCourse(r) /\ AskCourse(r)
    BY <1>3, <1>6, <2>1, <2>2
  <2>. QED BY <2>3, <2>4 DEF Learned
<1>7. ASSUME r.status # "purged", NEW u, ui' = u, u.results = ui.results, u.drawer = ui.drawer
      PROVE  ResultCourse(r)
  BY <1>7 DEF ResultCourse
<1>8. CASE AfterSearch(r)
  <2>1. r.of.by = "search" /\ r.of.by \notin Locking /\ <<r.of.by, "refresh">> \in Kinds
        /\ "activity" \in Parted
    BY <1>8 DEF AfterSearch, Locking, Kinds, Parted
  <2>2. CASE r.of.call = "search" /\ ThenCall([ui EXCEPT !.results = IF r.status = "ok" THEN r.got ELSE @],
                                              r, "refresh", "activity")
    <3> DEFINE u == [ui EXCEPT !.results = IF r.status = "ok" THEN r.got ELSE @]
    <3>1. r.got \subseteq Sources /\ r.status \notin {"purged", "imported"}
      BY <1>1, <2>2 DEF Readable, Statuses
    <3>2. /\ u \in Pages /\ u.lock = ui.lock /\ u.preview = ui.preview /\ u.drawer = ui.drawer
          /\ u.results \in {ui.results, r.got} /\ u.shown = ui.shown /\ u.history = ui.history
      BY <3>1 DEF Pages
    <3> HIDE DEF u
    <3>3. /\ ui' = u /\ LockCourse(r) /\ \E q : Asks(q, "activity") /\ NewCall(q, r)
      BY <1>5, <2>1, <2>2, <3>2 DEF u
    <3>4. ResultCourse(r)
      BY <2>2, <3>1, <3>2, <3>3 DEF ResultCourse
    <3>5. AskCourse(r)
      BY <2>2, <3>1, <3>3 DEF AskCourse, Tells
    <3>6. ui' \in Pages /\ ViewCourse(r)
      BY <1>2, <2>2, <3>2, <3>3
    <3>. QED BY <3>3, <3>4, <3>5, <3>6 DEF Learned
  <2>3. CASE r.of.call = "refresh" /\ Then([Shown(ui, r) EXCEPT !.activity = "none"])
    <3> DEFINE s == Shown(ui, r)
               u == [s EXCEPT !.activity = "none"]
    <3>1. ui' = u /\ inbox' = inbox
      BY <2>3 DEF Then
    <3>2. /\ s \in Pages /\ s.results = ui.results /\ s.drawer = ui.drawer /\ s.preview = ui.preview
          /\ s.lock = ui.lock
      BY ShownFields
    <3> HIDE DEF s
    <3>3. /\ u \in Pages /\ u.lock = ui.lock /\ u.preview = ui.preview /\ u.results = ui.results
          /\ u.drawer = ui.drawer /\ u.shown = s.shown /\ u.history = s.history
      BY <3>2 DEF Pages
    <3> HIDE DEF u
    <3>4. LockCourse(r)
      BY <1>4, <2>1, <3>1, <3>3
    <3>. QED BY <1>3, <2>3, <3>1, <3>3, <3>4 DEF Learned, s
  <2>. QED BY <1>8, <2>2, <2>3 DEF AfterSearch
<1>9. CASE AfterFetch(r)
  <2>1. r.of.by = "fetch" /\ r.of.by \notin Locking /\ <<r.of.by, "refresh">> \in Kinds
        /\ "activity" \in Parted
    BY <1>9 DEF AfterFetch, Locking, Kinds, Parted
  <2>2. CASE r.of.call = "fetch" /\ ThenCall([ui EXCEPT !.drawer =
                       IF r.status # "ok" THEN @
                       ELSE IF r.got = {} THEN "none" ELSE r.of.arg[1]],
                    r, "refresh", "activity")
    <3> DEFINE u == [ui EXCEPT !.drawer = IF r.status # "ok" THEN @
                                          ELSE IF r.got = {} THEN "none" ELSE r.of.arg[1]]
    <3>1. r.got \subseteq {r.of.arg[1]} /\ r.status \notin {"purged", "imported"} /\ r.of.arg[1] \in Sources
      BY <1>1, <2>2 DEF Readable, Statuses
    <3>2. /\ u \in Pages /\ u.lock = ui.lock /\ u.preview = ui.preview /\ u.results = ui.results
          /\ (u.drawer \in {ui.drawer, "none"} \/ u.drawer \in r.got)
          /\ u.shown = ui.shown /\ u.history = ui.history
      BY <3>1 DEF Pages
    <3> HIDE DEF u
    <3>3. /\ ui' = u /\ LockCourse(r) /\ \E q : Asks(q, "activity") /\ NewCall(q, r)
      BY <1>5, <2>1, <2>2, <3>2 DEF u
    <3>4. ResultCourse(r)
      BY <2>2, <3>1, <3>2, <3>3 DEF ResultCourse
    <3>5. AskCourse(r)
      BY <2>2, <3>1, <3>3 DEF AskCourse, Tells
    <3>6. ui' \in Pages /\ ViewCourse(r)
      BY <1>2, <2>2, <3>2, <3>3
    <3>. QED BY <3>3, <3>4, <3>5, <3>6 DEF Learned
  <2>. QED BY <1>6, <1>9, <2>1, <2>2 DEF AfterFetch
<1>10. CASE AfterBegin(r)
  <2>1. r.of.by = "begin" /\ r.of.by \notin Locking /\ <<r.of.by, "refresh">> \in Kinds
        /\ "sources" \in Parted /\ r.of.call \in {"preparePurge", "refresh"}
    BY <1>1, <1>10 DEF AfterBegin, Locking, Kinds, Parted
  <2>2. CASE r.of.call = "refresh"
    <3>1. Then(Shown(ui, r))
      BY <1>1, <1>10, <2>2 DEF AfterBegin, Statuses
    <3>. QED BY <1>6, <2>1, <2>2, <3>1
  <2>3. CASE r.of.call = "preparePurge"
    <3>1. r.status \notin {"purged", "imported", "cleared"}
      BY <1>1, <2>3 DEF Statuses
    <3>2. AskCourse(r)
      BY <2>3, <3>1 DEF AskCourse, Tells
    <3>3. ASSUME NEW u \in Pages, u.lock = ui.lock, u.preview = ui.preview, u.results = ui.results,
                 u.drawer = ui.drawer, u.shown = ui.shown, u.history = ui.history,
                 Then(u) \/ ThenCall(u, r, "refresh", "sources")
          PROVE Learned(r)
      <4>1. ui' = u /\ LockCourse(r)
        <5>1. CASE Then(u)
          BY <1>4, <2>1, <3>3, <5>1 DEF Then
        <5>2. CASE ThenCall(u, r, "refresh", "sources")
          BY <1>5, <2>1, <3>3, <5>2
        <5>. QED BY <3>3, <5>1, <5>2
      <4>2. ui' \in Pages /\ ViewCourse(r)
        BY <1>2, <2>3, <3>3, <4>1
      <4>3. ResultCourse(r)
        BY <1>7, <3>1, <3>3, <4>1
      <4>. QED BY <3>2, <4>1, <4>2, <4>3 DEF Learned
    <3>4. CASE r.status = "ready" /\ Then([ui EXCEPT !.overlay = <<r.of.arg[1], r.ver[r.of.arg[1]]>>])
      <4> DEFINE u == [ui EXCEPT !.overlay = <<r.of.arg[1], r.ver[r.of.arg[1]]>>]
      <4>1. <<r.of.arg[1], r.ver[r.of.arg[1]]>> \in Sources \X Nat
        BY <1>1, <2>3 DEF Versions
      <4>2. /\ u \in Pages /\ u.lock = ui.lock /\ u.preview = ui.preview /\ u.results = ui.results
            /\ u.drawer = ui.drawer /\ u.shown = ui.shown /\ u.history = ui.history
        BY <4>1 DEF Pages
      <4> HIDE DEF u
      <4>. QED BY <3>3, <3>4, <4>2 DEF u
    <3>5. CASE Then(ui) \/ ThenCall(ui, r, "refresh", "sources")
      BY <3>3, <3>5
    <3>. QED BY <1>10, <2>3, <3>4, <3>5 DEF AfterBegin
  <2>. QED BY <2>1, <2>2, <2>3
<1>11. CASE AfterPurge(r)
  <2>1. r.of.by = "purge" /\ r.of.by \notin Locking /\ <<r.of.by, "refresh">> \in Kinds
        /\ {"sources", "both"} \subseteq Parted /\ r.of.call \in {"purge", "refresh"}
    BY <1>1, <1>11 DEF AfterPurge, Locking, Kinds, Parted
  <2>2. CASE r.of.call = "refresh"
    <3> DEFINE s == Shown(ui, r)
               u == [s EXCEPT !.activity = "none"]
    <3>1. ui' = u /\ inbox' = inbox
      BY <1>1, <1>11, <2>2 DEF AfterPurge, Then, Statuses
    <3>2. /\ s \in Pages /\ s.results = ui.results /\ s.drawer = ui.drawer /\ s.preview = ui.preview
          /\ s.lock = ui.lock
      BY ShownFields
    <3> HIDE DEF s
    <3>3. /\ u \in Pages /\ u.lock = ui.lock /\ u.preview = ui.preview /\ u.results = ui.results
          /\ u.drawer = ui.drawer /\ u.shown = s.shown /\ u.history = s.history
      BY <3>2 DEF Pages
    <3> HIDE DEF u
    <3>4. LockCourse(r)
      BY <1>4, <2>1, <3>1, <3>3
    <3>. QED BY <1>3, <2>2, <3>1, <3>3, <3>4 DEF Learned, s
  <2>3. CASE r.of.call = "purge" /\ r.status = "purged"
    <3> DEFINE u == [Closed(ui) EXCEPT !.results = {}, !.drawer = "none"]
    <3>1. ThenCall(u, r, "refresh", "both")
      BY <1>11, <2>3 DEF AfterPurge
    <3>2. /\ u \in Pages /\ u.lock = ui.lock /\ u.preview = ui.preview /\ u.results = {}
          /\ u.drawer = "none" /\ u.shown = ui.shown /\ u.history = ui.history
      BY DEF Closed, Pages
    <3> HIDE DEF u
    <3>3. /\ ui' = u /\ LockCourse(r)
          /\ \A p \in {"sources", "activity"} : \E q : Asks(q, p) /\ NewCall(q, r)
      BY <1>5, <2>1, <3>1, <3>2
    <3>4. ResultCourse(r)
      BY <3>2, <3>3 DEF ResultCourse
    <3>5. AskCourse(r)
      BY <3>3 DEF AskCourse
    <3>6. ui' \in Pages /\ ViewCourse(r)
      BY <1>2, <2>3, <3>2, <3>3
    <3>. QED BY <3>3, <3>4, <3>5, <3>6 DEF Learned
  <2>4. CASE r.of.call = "purge" /\ r.status # "purged"
    <3>1. r.status \notin {"purged", "imported", "cleared"}
      BY <1>1, <2>4 DEF Statuses
    <3>2. AskCourse(r)
      BY <2>4, <3>1 DEF AskCourse, Tells
    <3>3. ASSUME NEW u \in Pages, u.lock = ui.lock, u.preview = ui.preview, u.results = ui.results,
                 u.drawer = ui.drawer, u.shown = ui.shown, u.history = ui.history,
                 Then(u) \/ ThenCall(u, r, "refresh", "sources")
          PROVE Learned(r)
      <4>1. ui' = u /\ LockCourse(r)
        <5>1. CASE Then(u)
          BY <1>4, <2>1, <3>3, <5>1 DEF Then
        <5>2. CASE ThenCall(u, r, "refresh", "sources")
          BY <1>5, <2>1, <3>3, <5>2
        <5>. QED BY <3>3, <5>1, <5>2
      <4>2. ui' \in Pages /\ ViewCourse(r)
        BY <1>2, <2>4, <3>3, <4>1
      <4>3. ResultCourse(r)
        BY <1>7, <3>1, <3>3, <4>1
      <4>. QED BY <3>2, <4>1, <4>2, <4>3 DEF Learned
    <3> DEFINE c == Closed(ui)
               d == [c EXCEPT !.activity = "none"]
               e == [ui EXCEPT !.activity = "none"]
    <3>4. /\ c \in Pages /\ c.lock = ui.lock /\ c.preview = ui.preview /\ c.results = ui.results
          /\ c.drawer = ui.drawer /\ c.shown = ui.shown /\ c.history = ui.history
      BY DEF Closed, Pages
    <3>5. /\ e \in Pages /\ e.lock = ui.lock /\ e.preview = ui.preview /\ e.results = ui.results
          /\ e.drawer = ui.drawer /\ e.shown = ui.shown /\ e.history = ui.history
      BY DEF Pages
    <3> HIDE DEF c
    <3>6. /\ d \in Pages /\ d.lock = ui.lock /\ d.preview = ui.preview /\ d.results = ui.results
          /\ d.drawer = ui.drawer /\ d.shown = ui.shown /\ d.history = ui.history
      BY <3>4 DEF Pages
    <3> HIDE DEF d, e
    <3>7. Then(d) \/ Then(e) \/ ThenCall(c, r, "refresh", "sources")
      BY <1>11, <2>4 DEF AfterPurge, c, d, e
    <3>. QED BY <3>3, <3>4, <3>5, <3>6, <3>7
  <2>. QED BY <2>1, <2>2, <2>3, <2>4
<1>12. CASE AfterClear(r)
  <2>1. r.of.by \in {"clear", "history"} /\ r.of.by \notin Locking /\ r.of.call \in {"clear", "refresh"}
        /\ "activity" \in Parted
    BY <1>1, <1>12 DEF AfterClear, Locking, Kinds, Parted
  <2>2. r.status \notin {"purged", "imported"} /\ (r.status = "cleared" => r.of.call = "clear" /\ r.of.by = "clear")
    BY <1>1, <2>1 DEF Statuses, Kinds
  <2>3. CASE r.status = "cleared" /\ ThenCall(ui, r, "refresh", "activity")
    <3>1. <<r.of.by, "refresh">> \in Kinds
      BY <2>2, <2>3 DEF Kinds
    <3>2. /\ ui' = ui /\ LockCourse(r) /\ \E q : Asks(q, "activity") /\ NewCall(q, r)
      BY <1>5, <2>1, <2>3, <3>1
    <3>3. AskCourse(r)
      BY <2>2, <2>3, <3>2 DEF AskCourse, Tells
    <3>4. ui' \in Pages /\ ViewCourse(r)
      BY <1>2, <2>2, <2>3, <3>2
    <3>. QED BY <1>7, <2>2, <3>2, <3>3, <3>4 DEF Learned
  <2>4. CASE r.status # "cleared" /\ Then([Shown(ui, r) EXCEPT !.historyBusy = FALSE])
    <3> DEFINE s == Shown(ui, r)
               u == [s EXCEPT !.historyBusy = FALSE]
    <3>1. ui' = u /\ inbox' = inbox
      BY <2>4 DEF Then
    <3>2. /\ s \in Pages /\ s.results = ui.results /\ s.drawer = ui.drawer /\ s.preview = ui.preview
          /\ s.lock = ui.lock
      BY ShownFields
    <3>3. r.of.call = "clear" => s.shown = ui.shown /\ s.history = ui.history
      <4>1. r.of.call = "clear" => r.got = {}
        BY <1>1 DEF Readable
      <4>. QED BY <4>1, ShownFields
    <3> HIDE DEF s
    <3>4. /\ u \in Pages /\ u.lock = ui.lock /\ u.preview = ui.preview /\ u.results = ui.results
          /\ u.drawer = ui.drawer /\ u.shown = s.shown /\ u.history = s.history
      BY <3>2 DEF Pages
    <3> HIDE DEF u
    <3>5. LockCourse(r)
      BY <1>4, <2>1, <3>1, <3>4
    <3>6. CASE r.of.call = "refresh"
      BY <1>3, <3>1, <3>4, <3>5, <3>6 DEF Learned, s
    <3>7. CASE r.of.call = "clear"
      <4>1. AskCourse(r)
        BY <2>2, <2>4, <3>7 DEF AskCourse, Tells
      <4>2. ui' \in Pages /\ ViewCourse(r)
        BY <1>2, <3>1, <3>3, <3>4, <3>7
      <4>3. ResultCourse(r)
        BY <1>7, <2>2, <3>1, <3>4
      <4>. QED BY <3>5, <4>1, <4>2, <4>3 DEF Learned
    <3>. QED BY <2>1, <3>6, <3>7
  <2>. QED BY <1>12, <2>3, <2>4 DEF AfterClear
<1>13. CASE AfterRead(r)
  <2>1. r.of.by \in {"load", "view", "cancel"} /\ r.of.by \notin Locking
    BY <1>13 DEF AfterRead, Locking
  <2>2. CASE r.of.by \in {"load", "view"} /\ Then(Shown(ui, r))
    <3>1. r.of.call = "refresh"
      BY <1>1, <2>2 DEF Kinds
    <3>. QED BY <1>6, <2>1, <2>2, <3>1
  <2>3. CASE r.of.by = "cancel" /\ Then(ui)
    <3>1. r.of.call = "cancel" /\ r.status = "requested"
      BY <1>1, <2>3 DEF Kinds, Statuses
    <3>2. AskCourse(r)
      BY <3>1 DEF AskCourse, Tells
    <3>3. ui' = ui /\ inbox' = inbox
      BY <2>3 DEF Then
    <3>4. LockCourse(r)
      BY <1>4, <2>1, <3>3
    <3>5. ui' \in Pages /\ ViewCourse(r)
      BY <1>2, <3>1, <3>3
    <3>6. ResultCourse(r)
      BY <1>7, <3>1, <3>3
    <3>. QED BY <3>2, <3>4, <3>5, <3>6 DEF Learned
  <2>. QED BY <1>13, <2>2, <2>3 DEF AfterRead
<1>. QED BY <1>8, <1>9, <1>10, <1>11, <1>12, <1>13

-----------------------------------------------------------------------------
(* Every step is one of six courses *)

Reloaded ==
  /\ native = {} /\ gestures' = gestures + 1 /\ since' = gestures + 1 /\ ui' = Page
  /\ inbox' = Append(inbox, Loading(gestures + 1))
  /\ missed' = missed \cup {"sources", "activity"} \cup Forgotten(ui)
  /\ UNCHANGED <<outbox, vaultVars, tokenVars, workVars>>
Delivered ==
  /\ outbox # <<>> /\ outbox' = Tail(outbox)
  /\ \/ /\ Head(outbox).of.id < since /\ UNCHANGED <<ui, inbox>>
        /\ missed' = missed \cup Unread(Head(outbox))
     \/ /\ Head(outbox).of.id >= since /\ Learned(Head(outbox))
        /\ LET r == Head(outbox) IN
             missed' = (missed \cup IF r.of.call = "refresh" THEN Parts(r.of) ELSE {})
                         \ (IF r.of.call = "prepare" /\ r.status # "busy" THEN {"preview"}
                            ELSE IF r.of.call = "refresh" THEN Learnt(r) ELSE {})
  /\ UNCHANGED <<gestures, since, vaultVars, tokenVars, workVars>>
Handles ==
  /\ inbox # <<>> /\ Head(inbox) \in Calls /\ inbox' = Tail(inbox)
  /\ UNCHANGED <<pageVars, missed>> /\ Handled(Head(inbox))
Stays ==
  /\ UNCHANGED <<pageVars, inbox, outbox, ver, log, native, samples, missed>>
  /\ work'.q = work.q /\ VaultTyped' /\ HeldTyped'
Course == GestureMade \/ Reloaded \/ Handles \/ (\E q \in Calls : Left(q)) \/ Delivered \/ Stays

(* Nothing has happened but that time passed, *)
LEMMA RestStays ==
  ASSUME CallInvariant, UNCHANGED <<pageVars, inbox, outbox, vaultVars, workVars, missed>>
  PROVE  Stays
<1>1. VaultTyped /\ HeldTyped
  BY CallParts
<1>. QED BY <1>1 DEF VaultTyped, HeldTyped, Stays, vaultVars, workVars

(* or an import has opened its transaction. *)
LEMMA OpenStays ==
  ASSUME CallInvariant, OpenSample
  PROVE  Stays
<1>1. VaultTyped /\ HeldTyped
  BY CallParts
<1>2. work'.q = work.q /\ HeldTyped'
  BY <1>1 DEF HeldTyped, OpenSample, NoWork, NoCall
<1>3. VaultTyped'
  BY <1>1 DEF VaultTyped, OpenSample
<1>. QED BY <1>2, <1>3 DEF OpenSample, Stays

(* The delivery of an answer. *)
LEMMA DeliverCourse ==
  ASSUME CallInvariant, Deliver
  PROVE  Delivered
<1> DEFINE r == Head(outbox)
<1>1. ui \in Pages /\ outbox # <<>> /\ outbox \in Seq(Answers)
  BY CallParts DEF PageTyped, QueuesTyped, Deliver
<1>2. r \in Answers
  BY <1>1, TakenRange
<1>3. r.of.id \in Nat /\ since \in Nat
  BY <1>2, AnswerFields, CallFields, CallParts DEF PageTyped
<1>4. CASE r.of.id < since
  BY <1>4 DEF Deliver, Delivered
<1>5. CASE ~(r.of.id < since)
  <2>1. r.of.id >= since
    BY <1>3, <1>5
  <2>2. \/ AfterPrepare(r) \/ AfterConfirm(r) \/ AfterDismiss(r) \/ AfterSample(r)
        \/ AfterSearch(r) \/ AfterFetch(r) \/ AfterBegin(r) \/ AfterPurge(r)
        \/ AfterClear(r) \/ AfterRead(r)
    BY <1>5 DEF Deliver
  <2>3. Learned(r)
    BY <1>1, <1>2, <2>2, LockingLearn, FreeLearn
  <2>. QED BY <1>5, <2>1, <2>3 DEF Deliver, Delivered
<1>. QED BY <1>4, <1>5

-----------------------------------------------------------------------------
(* Calls and answers stay typed *)

(* Where the calls' numbers are. *)
LEMMA IdsParts ==
  IdsTyped <=> /\ \A q \in Range(inbox) : q.id <= gestures
               /\ \A r \in Range(outbox) : r.of.id <= gestures
               /\ \A q \in Held : q.id <= gestures
BY DEF IdsTyped, Flying

(* A call that is sent. *)
LEMMA InboxGrows ==
  ASSUME QueuesTyped, NEW q \in Calls, inbox' = Append(inbox, q)
  PROVE  inbox' \in Seq(Calls) /\ Range(inbox') = Range(inbox) \cup {q}
BY AppendedRange DEF QueuesTyped

(* An answer that is sent. *)
LEMMA OutboxGrows ==
  ASSUME QueuesTyped, NEW r \in Answers, outbox' = Append(outbox, r)
  PROVE  outbox' \in Seq(Answers) /\ Range(outbox') = Range(outbox) \cup {r}
BY AppendedRange DEF QueuesTyped

(* While the main process only holds fewer calls, what it holds stays typed. *)
LEMMA HeldShrinks ==
  ASSUME HeldTyped, native' \subseteq native, samples' \subseteq samples,
         work' = NoWork \/ work' \in [q : {work.q}, aborted : BOOLEAN, open : {work.open}],
         work = NoWork => work' = NoWork
  PROVE  HeldTyped' /\ \A q \in Held' : q \in Held \/ q = NoCall
<1>1. NoWork \in [q : Calls \cup {NoCall}, aborted : BOOLEAN, open : BOOLEAN] /\ NoWork.q = NoCall
      /\ ~NoWork.open
  BY DEF NoWork
<1>2. work' # NoWork => work'.q = work.q /\ work'.open = work.open /\ work # NoWork
  OBVIOUS
<1>3. work.q \in Calls \cup {NoCall}
  BY DEF HeldTyped
<1>4. work' \in [q : Calls \cup {NoCall}, aborted : BOOLEAN, open : BOOLEAN]
  <2>1. work.open \in BOOLEAN
    BY DEF HeldTyped
  <2>. QED BY <1>1, <1>3, <2>1
<1>5. HeldTyped'
  BY <1>1, <1>2, <1>4 DEF HeldTyped
<1>6. work'.q \in {work.q, NoCall}
  BY <1>1, <1>2
<1>. QED BY <1>5, <1>6 DEF Held

(* The first state. *)
LEMMA CallInit == Init => CallInvariant /\ TokensTyped
<1> SUFFICES ASSUME Init PROVE CallInvariant /\ TokensTyped
  OBVIOUS
<1>1. ver \in Versions
  BY DEF Init, NoVersions, Versions, Sources
<1>2. Page \in Pages
  BY DEF Page, Pages, NoVersions, Versions, Logs
<1>3. ui \in Pages
  BY <1>1, <1>2 DEF Init, Pages
<1>4. inbox = <<>> /\ outbox = <<>> /\ native = {} /\ samples = {} /\ work = NoWork
  BY DEF Init
<1>5. inbox \in Seq(Calls) /\ outbox \in Seq(Answers) /\ Range(inbox) = {} /\ Range(outbox) = {}
  BY <1>4 DEF Range
<1>6. NoWork \in [q : Calls \cup {NoCall}, aborted : BOOLEAN, open : BOOLEAN] /\ NoWork.q = NoCall /\ NoCall.id = 0
      /\ ~NoWork.open
  BY DEF NoWork, NoCall
<1>7. IdsTyped
  BY <1>4, <1>5, <1>6 DEF IdsTyped, Flying, Held, Init
<1>8. PageTyped /\ VaultTyped /\ QueuesTyped /\ HeldTyped
  BY <1>1, <1>3, <1>4, <1>5, <1>6 DEF Init, PageTyped, VaultTyped, QueuesTyped, HeldTyped, Logs
<1>9. TokensTyped
  BY DEF Init, TokensTyped
<1>. QED BY <1>7, <1>8, <1>9, CallParts

(* Calls and answers stay typed, and no call is of a gesture to come. *)
LEMMA CallStep ==
  ASSUME CallInvariant, Course
  PROVE  CallInvariant'
<1>1. PageTyped /\ VaultTyped /\ QueuesTyped /\ HeldTyped /\ IdsTyped
  BY CallParts
<1>2. /\ \A q \in Range(inbox) : q.id <= gestures
      /\ \A r \in Range(outbox) : r.of.id <= gestures
      /\ \A q \in Held : q.id <= gestures
  BY <1>1, IdsParts
<1>3. gestures \in Nat /\ since \in Nat /\ since <= gestures /\ inbox \in Seq(Calls) /\ outbox \in Seq(Answers)
  BY <1>1 DEF PageTyped, QueuesTyped
<1>4. \A q \in Range(inbox) : q \in Calls
  BY <1>3 DEF Range
<1>5. \A r \in Range(outbox) : r \in Answers
  BY <1>3 DEF Range
<1>6. NoCall.id = 0
  BY DEF NoCall
<1>7. ASSUME PageTyped', VaultTyped', QueuesTyped', HeldTyped',
             \A q \in Range(inbox') : q.id <= gestures',
             \A r \in Range(outbox') : r.of.id <= gestures',
             \A q \in Held' : q.id <= gestures'
      PROVE CallInvariant'
  <2>1. IdsTyped'
    BY <1>7 DEF IdsTyped, Flying
  <2>. QED BY <1>7, <2>1 DEF CallInvariant, PageTyped, VaultTyped, QueuesTyped, HeldTyped, IdsTyped
<1>8. ASSUME UNCHANGED workVars PROVE HeldTyped' /\ Held' = Held
  BY <1>1, <1>8 DEF HeldTyped, Held, workVars
<1>9. ASSUME UNCHANGED vaultVars PROVE VaultTyped'
  BY <1>1, <1>9 DEF VaultTyped, vaultVars
<1>10. ASSUME UNCHANGED pageVars PROVE PageTyped' /\ gestures' = gestures
  BY <1>1, <1>10 DEF PageTyped, pageVars
<1>11. \A n \in Int : n <= gestures => n <= gestures + 1
  BY <1>3
<1>12. (\A q \in Calls : q.id \in Int) /\ (\A r \in Answers : r.of.id \in Int /\ r.of \in Calls)
  <2>1. ASSUME NEW q \in Calls PROVE q.id \in Int
    <3>1. q.id \in Nat
      BY CallFields
    <3>. QED BY <3>1
  <2>2. ASSUME NEW r \in Answers PROVE r.of \in Calls
    BY AnswerFields
  <2>. QED BY <2>1, <2>2
<1>13. \A q \in Held : q.id \in Int
  BY <1>1, <1>6, <1>12 DEF Held, HeldTyped
<1>14. CASE GestureMade
  <2>1. gestures' = gestures + 1 /\ UNCHANGED <<since, outbox, vaultVars, workVars>> /\ ui' \in Pages
    BY <1>14 DEF GestureMade, GestureKeeps
  <2>2. PageTyped'
    BY <1>3, <2>1 DEF PageTyped
  <2>3. inbox' = inbox \/ \E q \in Calls : q.id = gestures + 1 /\ inbox' = Append(inbox, q)
    BY <1>14 DEF GestureMade, Sent
  <2>4. inbox' \in Seq(Calls) /\ \A q \in Range(inbox') : q.id <= gestures'
    <3>1. CASE inbox' = inbox
      BY <1>2, <1>3, <1>4, <1>11, <1>12, <2>1, <3>1
    <3>2. ASSUME NEW q \in Calls, q.id = gestures + 1, inbox' = Append(inbox, q)
          PROVE  inbox' \in Seq(Calls) /\ \A p \in Range(inbox') : p.id <= gestures'
      BY <1>1, <1>2, <1>4, <1>11, <1>12, <2>1, <3>2, InboxGrows
    <3>. QED BY <2>3, <3>1, <3>2
  <2>5. QueuesTyped' /\ VaultTyped' /\ HeldTyped' /\ Held' = Held
    BY <1>1, <1>8, <1>9, <2>1, <2>4 DEF QueuesTyped
  <2>6. (\A r \in Range(outbox') : r.of.id <= gestures') /\ (\A q \in Held' : q.id <= gestures')
    BY <1>2, <1>5, <1>11, <1>12, <1>13, <2>1, <2>5
  <2>. QED BY <1>7, <2>2, <2>4, <2>5, <2>6
<1>15. CASE Reloaded
  <2>1. gestures' = gestures + 1 /\ since' = gestures + 1 /\ UNCHANGED <<outbox, vaultVars, workVars>>
        /\ ui' = Page /\ inbox' = Append(inbox, Loading(gestures + 1))
    BY <1>15 DEF Reloaded
  <2>2. PageTyped'
    BY <1>3, <2>1 DEF PageTyped, Page, Pages, NoVersions, Versions, Logs
  <2>3. Loading(gestures + 1) \in Calls /\ Loading(gestures + 1).id = gestures + 1
    <3>1. <<"both", 0>> \in Subjects \X Nat /\ <<"both", 0>>[1] \in Parted
          /\ <<"load", "refresh">> \in Kinds /\ gestures + 1 \in Nat \ {0}
      BY <1>3 DEF Subjects, Parted, Kinds
    <3>2. Call(gestures + 1, "load", "refresh", <<"both", 0>>) \in Calls
      BY <3>1, CallTyped
    <3>. QED BY <3>2 DEF Loading, Call
  <2>4. inbox' \in Seq(Calls) /\ \A q \in Range(inbox') : q.id <= gestures'
    BY <1>1, <1>2, <1>4, <1>11, <1>12, <2>1, <2>3, InboxGrows
  <2>5. QueuesTyped' /\ VaultTyped' /\ HeldTyped' /\ Held' = Held
    BY <1>1, <1>8, <1>9, <2>1, <2>4 DEF QueuesTyped
  <2>6. (\A r \in Range(outbox') : r.of.id <= gestures') /\ (\A q \in Held' : q.id <= gestures')
    BY <1>2, <1>5, <1>11, <1>12, <1>13, <2>1, <2>5
  <2>. QED BY <1>7, <2>2, <2>4, <2>5, <2>6
<1>16. CASE Handles
  <2> DEFINE q == Head(inbox)
  <2>1. q \in Calls /\ q.id <= gestures /\ inbox' \in Seq(Calls) /\ Range(inbox') \subseteq Range(inbox)
    BY <1>2, <1>3, <1>16, TakenRange DEF Handles
  <2>2. UNCHANGED pageVars /\ VaultTyped' /\ Handled(q)
    BY <1>16 DEF Handles, Handled
  <2> HIDE DEF q
  <2>3. PageTyped' /\ gestures' = gestures
    BY <1>10, <2>2
  <2>4. CASE Replies(q)
    <3>1. PICK r \in Answers : outbox' = Append(outbox, r) /\ r.of = q
      BY <2>4 DEF Replies, Replied, Reply
    <3>2. outbox' \in Seq(Answers) /\ Range(outbox') = Range(outbox) \cup {r}
      BY <1>1, <3>1, OutboxGrows
    <3>3. HeldTyped' /\ \A p \in Held' : p \in Held \/ p = NoCall
      BY <1>1, <2>4, HeldShrinks DEF Replies, WorkKept
    <3>4. QueuesTyped'
      BY <2>1, <3>2 DEF QueuesTyped
    <3>5. /\ \A p \in Range(inbox') : p.id <= gestures'
          /\ \A a \in Range(outbox') : a.of.id <= gestures'
          /\ \A p \in Held' : p.id <= gestures'
      BY <1>2, <1>3, <1>6, <2>1, <2>3, <3>1, <3>2, <3>3
    <3>. QED BY <1>7, <2>2, <2>3, <3>3, <3>4, <3>5
  <2>5. CASE Unreplied /\ ToNative(q)
    <3>1. outbox' = outbox /\ native' = native \cup {q} /\ q.call \in {"prepare", "purge", "clear"}
          /\ UNCHANGED <<samples, work>>
      BY <2>5 DEF Unreplied, ToNative, vaultVars
    <3>2. HeldTyped' /\ Held' = Held \cup {q}
      BY <1>1, <2>1, <3>1 DEF HeldTyped, Held
    <3>3. QueuesTyped'
      BY <1>3, <2>1, <3>1 DEF QueuesTyped
    <3>. QED BY <1>2, <1>7, <2>1, <2>2, <2>3, <3>1, <3>2, <3>3
  <2>6. CASE Unreplied /\ ToSamples(q)
    <3>1. outbox' = outbox /\ samples' = samples \cup {q} /\ q.call = "sample"
          /\ UNCHANGED <<native, work>>
      BY <2>6 DEF Unreplied, ToSamples, vaultVars
    <3>2. HeldTyped' /\ Held' = Held \cup {q}
      BY <1>1, <2>1, <3>1 DEF HeldTyped, Held
    <3>3. QueuesTyped'
      BY <1>3, <2>1, <3>1 DEF QueuesTyped
    <3>. QED BY <1>2, <1>7, <2>1, <2>2, <2>3, <3>1, <3>2, <3>3
  <2>7. CASE Unreplied /\ q.call = "confirm" /\ ToWork(q) /\ UNCHANGED <<native, samples>>
    <3>1. outbox' = outbox /\ work' = [q |-> q, aborted |-> FALSE, open |-> TRUE]
          /\ UNCHANGED <<native, samples>>
      BY <2>7 DEF Unreplied, ToWork
    <3>2. HeldTyped' /\ \A p \in Held' : p \in Held \/ p = q
      BY <1>1, <2>1, <2>7, <3>1 DEF HeldTyped, Held
    <3>3. QueuesTyped'
      BY <1>3, <2>1, <3>1 DEF QueuesTyped
    <3>. QED BY <1>2, <1>7, <2>1, <2>2, <2>3, <3>1, <3>2, <3>3
  <2>. QED BY <2>2, <2>4, <2>5, <2>6, <2>7 DEF Handled
<1>17. ASSUME NEW q \in Calls, Left(q) PROVE CallInvariant'
  <2>1. q \in Held /\ q.id <= gestures /\ UNCHANGED <<pageVars, inbox>> /\ VaultTyped' /\ Leaves(q)
    BY <1>2, <1>17 DEF Left
  <2>2. PageTyped' /\ gestures' = gestures
    BY <1>10, <2>1
  <2>3. CASE Replied(q) /\ native' \subseteq native /\ samples' \subseteq samples
             /\ (work' = work \/ work' = NoWork)
    <3>1. PICK r \in Answers : outbox' = Append(outbox, r) /\ r.of = q
      BY <2>3 DEF Replied, Reply
    <3>2. outbox' \in Seq(Answers) /\ Range(outbox') = Range(outbox) \cup {r}
      BY <1>1, <3>1, OutboxGrows
    <3>3. work \in [q : {work.q}, aborted : BOOLEAN, open : {work.open}]
      BY <1>1 DEF HeldTyped
    <3>4. HeldTyped' /\ \A p \in Held' : p \in Held \/ p = NoCall
      BY <1>1, <2>3, <3>3, HeldShrinks
    <3>5. QueuesTyped'
      BY <1>3, <2>1, <3>2 DEF QueuesTyped
    <3>6. /\ \A p \in Range(inbox') : p.id <= gestures'
          /\ \A a \in Range(outbox') : a.of.id <= gestures'
          /\ \A p \in Held' : p.id <= gestures'
      BY <1>2, <1>3, <1>6, <2>1, <2>2, <3>1, <3>2, <3>4
    <3>. QED BY <1>7, <2>1, <2>2, <3>4, <3>5, <3>6
  <2>4. CASE ToWork(q) /\ Unreplied /\ native' \subseteq native /\ samples' \subseteq samples
             /\ q.call \in {"prepare", "sample"}
    <3>1. outbox' = outbox /\ work' = [q |-> q, aborted |-> FALSE, open |-> FALSE]
      BY <2>4 DEF Unreplied, ToWork
    <3>2. HeldTyped' /\ \A p \in Held' : p \in Held
      BY <1>1, <2>1, <2>4, <3>1 DEF HeldTyped, Held
    <3>3. QueuesTyped'
      BY <1>3, <2>1, <3>1 DEF QueuesTyped
    <3>. QED BY <1>2, <1>7, <2>1, <2>2, <3>1, <3>2, <3>3
  <2>5. native' = native \ {q} => native' \subseteq native
    OBVIOUS
  <2>6. samples' = samples \ {q} => samples' \subseteq samples
    OBVIOUS
  <2>. QED BY <2>1, <2>3, <2>4, <2>5, <2>6 DEF Leaves
<1>18. CASE Delivered
  <2> DEFINE r == Head(outbox)
  <2>1. r \in Answers /\ r \in Range(outbox) /\ outbox' \in Seq(Answers)
        /\ Range(outbox') \subseteq Range(outbox)
    BY <1>3, <1>18, TakenRange DEF Delivered
  <2>2. UNCHANGED <<gestures, since, vaultVars, workVars>>
    BY <1>18 DEF Delivered
  <2>3. (ui' = ui /\ inbox' = inbox) \/ Learned(r)
    BY <1>18 DEF Delivered
  <2> HIDE DEF r
  <2>4. PageTyped'
    BY <1>1, <2>2, <2>3 DEF PageTyped, Learned
  <2>5. inbox' = inbox \/ \E q : NewCall(q, r)
    BY <2>3 DEF Learned, LockCourse
  <2>6. inbox' \in Seq(Calls) /\ \A q \in Range(inbox') : q.id <= gestures'
    <3>1. CASE inbox' = inbox
      BY <1>2, <1>3, <2>2, <3>1
    <3>2. ASSUME NEW q, NewCall(q, r)
          PROVE  inbox' \in Seq(Calls) /\ \A p \in Range(inbox') : p.id <= gestures'
      <4>1. q \in Calls /\ q.id <= gestures /\ inbox' = Append(inbox, q)
        BY <1>2, <2>1, <3>2 DEF NewCall
      <4>. QED BY <1>1, <1>2, <2>2, <4>1, InboxGrows
    <3>. QED BY <2>5, <3>1, <3>2
  <2>7. QueuesTyped' /\ VaultTyped' /\ HeldTyped' /\ Held' = Held
    BY <1>1, <1>8, <1>9, <2>1, <2>2, <2>6 DEF QueuesTyped
  <2>. QED BY <1>2, <1>7, <2>1, <2>2, <2>4, <2>6, <2>7
<1>19. CASE Stays
  <2>1. UNCHANGED <<inbox, outbox>> /\ UNCHANGED pageVars /\ VaultTyped' /\ HeldTyped'
        /\ Held' = Held
    BY <1>19 DEF Stays, Held
  <2>. QED BY <1>1, <1>2, <1>7, <1>10, <2>1 DEF QueuesTyped
<1>. QED BY <1>14, <1>15, <1>16, <1>17, <1>18, <1>19 DEF Course

-----------------------------------------------------------------------------
(* Where a queue holds what *)

At(s, L) == {i \in DOMAIN s : s[i] \in L}

(* What is appended comes last. *)
LEMMA AtAppended ==
  ASSUME NEW S, NEW s \in Seq(S), NEW x \in S, NEW L
  PROVE  /\ x \in L => At(Append(s, x), L) = At(s, L) \cup {Len(s) + 1}
         /\ x \notin L => At(Append(s, x), L) = At(s, L)
         /\ \A i \in At(s, L) : i < Len(s) + 1
<1> DEFINE t == Append(s, x)
           n == Len(s)
<1>1. n \in Nat /\ DOMAIN s = 1 .. n
  OBVIOUS
<1>2. DOMAIN t = 1 .. n + 1 /\ t[n + 1] = x /\ \A k \in 1 .. n : t[k] = s[k]
  OBVIOUS
<1> HIDE DEF t, n
<1>3. \A k \in 1 .. n + 1 : k \in 1 .. n \/ k = n + 1
  BY <1>1
<1>4. (\A k \in 1 .. n : k \in 1 .. n + 1 /\ k < n + 1) /\ n + 1 \in 1 .. n + 1 /\ n + 1 \notin 1 .. n
  BY <1>1
<1>5. x \in L => At(t, L) = At(s, L) \cup {n + 1}
  BY <1>1, <1>2, <1>3, <1>4 DEF At
<1>6. x \notin L => At(t, L) = At(s, L)
  BY <1>1, <1>2, <1>3, <1>4 DEF At
<1>7. \A i \in At(s, L) : i < n + 1
  BY <1>1, <1>4 DEF At
<1>. QED BY <1>5, <1>6, <1>7 DEF t, n

(* When the head is taken the others move up. *)
LEMMA AtTaken ==
  ASSUME NEW S, NEW s \in Seq(S), s # <<>>, NEW L
  PROVE  /\ \A i \in Nat \ {0} : i \in At(Tail(s), L) <=> i + 1 \in At(s, L)
         /\ At(s, L) \subseteq Nat \ {0} /\ At(Tail(s), L) \subseteq Nat \ {0}
         /\ 1 \in At(s, L) <=> Head(s) \in L
         /\ \A i \in At(s, L) : i # 1 => i - 1 \in At(Tail(s), L) /\ i - 1 >= 1
<1> DEFINE t == Tail(s)
           n == Len(s)
<1>1. n \in Nat /\ n >= 1 /\ DOMAIN s = 1 .. n
  BY EmptySeq
<1>2. t \in Seq(S) /\ Len(t) = n - 1 /\ \A k \in 1 .. Len(t) : t[k] = s[k + 1]
  BY HeadTailProperties
<1>3. Head(s) = s[1]
  OBVIOUS
<1> HIDE DEF t, n
<1>4. DOMAIN t = 1 .. n - 1 /\ \A k \in 1 .. n - 1 : t[k] = s[k + 1]
  BY <1>2
<1>5. \A k \in Nat \ {0} : k \in 1 .. n - 1 <=> k + 1 \in 1 .. n
  BY <1>1
<1>6. \A i \in Nat \ {0} : i \in At(t, L) <=> i + 1 \in At(s, L)
  BY <1>1, <1>4, <1>5 DEF At
<1>7. At(s, L) \subseteq Nat \ {0} /\ At(t, L) \subseteq Nat \ {0}
  BY <1>1, <1>4 DEF At
<1>8. 1 \in At(s, L) <=> Head(s) \in L
  BY <1>1, <1>3 DEF At
<1>9. ASSUME NEW i \in At(s, L), i # 1 PROVE i - 1 \in At(t, L) /\ i - 1 >= 1
  <2>1. i \in Nat \ {0} /\ i - 1 \in Nat \ {0} /\ (i - 1) + 1 = i
    BY <1>7, <1>9
  <2>. QED BY <1>6, <2>1
<1>. QED BY <1>6, <1>7, <1>8, <1>9 DEF t

\* An element of L is in the queue, behind the place i.
Follows(s, L, i) == \E j \in At(s, L) : j > i

(* It still is when the queue grows, *)
LEMMA FollowsGrows ==
  ASSUME NEW S, NEW s \in Seq(S), NEW x \in S, NEW L, NEW i \in Nat
  PROVE  /\ Follows(s, L, i) => Follows(Append(s, x), L, i)
         /\ x \in L /\ i <= Len(s) => Follows(Append(s, x), L, i)
<1> DEFINE t == Append(s, x)
<1>1. Len(s) \in Nat
  OBVIOUS
<1>2. At(s, L) \subseteq At(t, L) /\ (x \in L => Len(s) + 1 \in At(t, L))
  BY AtAppended
<1> HIDE DEF t
<1>3. Follows(s, L, i) => Follows(t, L, i)
  BY <1>2 DEF Follows
<1>4. x \in L /\ i <= Len(s) => Follows(t, L, i)
  BY <1>1, <1>2 DEF Follows
<1>. QED BY <1>3, <1>4 DEF t

(* and one place further on when the head, which is not it, is taken. *)
LEMMA FollowsTaken ==
  ASSUME NEW S, NEW s \in Seq(S), s # <<>>, NEW L, NEW i \in Nat
  PROVE  /\ Follows(s, L, i + 1) => Follows(Tail(s), L, i)
         /\ Head(s) \notin L /\ Follows(s, L, 0) => Follows(Tail(s), L, 0)
<1>1. ASSUME NEW j \in At(s, L), j > i + 1 PROVE Follows(Tail(s), L, i)
  <2>1. j \in Nat /\ j # 1
    BY <1>1, AtTaken
  <2>2. j - 1 \in At(Tail(s), L)
    BY <2>1, AtTaken
  <2>. QED BY <1>1, <2>1, <2>2 DEF Follows
<1>2. ASSUME NEW j \in At(s, L), Head(s) \notin L PROVE Follows(Tail(s), L, 0)
  <2>1. j \in Nat /\ j # 1
    BY <1>2, AtTaken
  <2>2. j - 1 \in At(Tail(s), L) /\ j - 1 >= 1
    BY <2>1, AtTaken
  <2>. QED BY <2>1, <2>2 DEF Follows
<1>. QED BY <1>1, <1>2 DEF Follows

-----------------------------------------------------------------------------
(* The screen *)

Parts2 == {"sources", "activity"}
Tellers(p) == {r \in Answers : Tells(r, p)}
Askers(p) == {q \in Calls : Asks(q, p)}
Purgers == {r \in Answers : r.status = "purged"}

(* What tells the page of a part, queue by queue. *)
LEMMA ToldFollows ==
  ASSUME QueuesTyped, NEW p, NEW i \in Nat
  PROVE  /\ Told(p, i) <=> Follows(outbox, Tellers(p), i) \/ Follows(inbox, Askers(p), 0)
         /\ PurgeFollows(i) <=> Follows(outbox, Purgers, i)
<1>1. inbox \in Seq(Calls) /\ outbox \in Seq(Answers)
  BY DEF QueuesTyped
<1>2. \A j \in DOMAIN outbox : outbox[j] \in Answers /\ j \in Nat
  BY <1>1
<1>3. \A j \in DOMAIN inbox : inbox[j] \in Calls /\ j > 0
  BY <1>1
<1>4. (\E j \in DOMAIN outbox : j > i /\ Tells(outbox[j], p)) <=> Follows(outbox, Tellers(p), i)
  BY <1>2 DEF Follows, At, Tellers
<1>5. (\E j \in DOMAIN inbox : Asks(inbox[j], p)) <=> Follows(inbox, Askers(p), 0)
  BY <1>3 DEF Follows, At, Askers
<1>6. PurgeFollows(i) <=> Follows(outbox, Purgers, i)
  BY <1>2 DEF Follows, At, Purgers, PurgeFollows
<1>. QED BY <1>4, <1>5, <1>6 DEF Told

(* The same of the next state. *)
LEMMA ToldFollowsNext ==
  ASSUME QueuesTyped', NEW p, NEW i \in Nat
  PROVE  /\ Told(p, i)' <=> Follows(outbox', Tellers(p), i) \/ Follows(inbox', Askers(p), 0)
         /\ PurgeFollows(i)' <=> Follows(outbox', Purgers, i)
<1>1. inbox' \in Seq(Calls) /\ outbox' \in Seq(Answers)
  BY DEF QueuesTyped
<1>2. \A j \in DOMAIN outbox' : outbox'[j] \in Answers /\ j \in Nat
  BY <1>1
<1>3. \A j \in DOMAIN inbox' : inbox'[j] \in Calls /\ j > 0
  BY <1>1
<1>4. Told(p, i)' <=> Follows(outbox', Tellers(p), i) \/ Follows(inbox', Askers(p), 0)
  BY <1>2, <1>3 DEF Told, Follows, At, Tellers, Askers
<1>5. PurgeFollows(i)' <=> Follows(outbox', Purgers, i)
  BY <1>2 DEF Follows, At, Purgers, PurgeFollows
<1>. QED BY <1>4, <1>5

(* An answer that changes a part tells of it. *)
LEMMA ChangesAreTold ==
  ASSUME NEW r \in Answers, Told1(r), NEW p \in Parts2
  PROVE  /\ Content(p)' = Content(p) \/ Tells(r, p)
         /\ r.of.call = "refresh" =>
              (r.got \subseteq Parts(r.of) /\ (p \in Learnt(r) => Given(r, p) = Content(p)'))
<1>1. r.of.call = "refresh" => r.got \subseteq Parts(r.of)
  BY AnswerFields DEF Readable
<1>2. r.of.call = "refresh" /\ p \in Learnt(r) => Given(r, p) = Content(p)'
  BY DEF Told1, Given, Content, Learnt
<1>3. Content(p)' = Content(p) \/ Tells(r, p)
  BY DEF Told1, Content, Tells, Parts2
<1>. QED BY <1>1, <1>2, <1>3

(* The main process's steps keep the parts' invariant: with a new answer, *)
LEMMA PartReplied ==
  ASSUME QueuesTyped, QueuesTyped', NEW p \in Parts2, PartInvariant(p),
         NEW r \in Answers, Told1(r), outbox' = Append(outbox, r), UNCHANGED <<ui, missed>>,
         Follows(inbox, Askers(p), 0) => Follows(inbox', Askers(p), 0) \/ Tells(r, p)
  PROVE  PartInvariant(p)'
<1>1. outbox \in Seq(Answers) /\ Len(outbox) \in Nat
  BY DEF QueuesTyped
<1>2. /\ DOMAIN outbox' = 1 .. Len(outbox) + 1 /\ outbox'[Len(outbox) + 1] = r
      /\ \A i \in 1 .. Len(outbox) : outbox'[i] = outbox[i]
  BY <1>1
<1>3. /\ Content(p)' = Content(p) \/ Tells(r, p)
      /\ r.of.call = "refresh" /\ p \in Learnt(r) => Given(r, p) = Content(p)'
  BY ChangesAreTold
<1>4. ASSUME NEW i \in Nat, i <= Len(outbox), Told(p, i) \/ Tells(r, p)
      PROVE  Told(p, i)'
  <2>1. Tells(r, p) <=> r \in Tellers(p)
    BY DEF Tellers
  <2>2. Follows(outbox, Tellers(p), i) \/ r \in Tellers(p) => Follows(outbox', Tellers(p), i)
    BY <1>1, <1>4, FollowsGrows
  <2>3. Follows(outbox', Tellers(p), i) \/ Follows(inbox', Askers(p), 0)
    BY <1>4, <2>1, <2>2, ToldFollows
  <2>. QED BY <2>3, ToldFollowsNext
<1>5. (p \in missed \/ View(p) = Content(p) \/ Told(p, 0))'
  <2>1. View(p)' = View(p) /\ missed' = missed
    BY DEF View
  <2>2. p \in missed \/ View(p) = Content(p) \/ Told(p, 0)
    BY DEF PartInvariant
  <2>3. 0 <= Len(outbox)
    BY <1>1
  <2>. QED BY <1>3, <1>4, <2>1, <2>2, <2>3
<1>6. ASSUME NEW i \in DOMAIN outbox', outbox'[i].of.call = "refresh", p \in Learnt(outbox'[i])
      PROVE  Given(outbox'[i], p) = Content(p)' \/ Told(p, i)'
  <2>1. CASE i = Len(outbox) + 1
    BY <1>2, <1>3, <1>6, <2>1
  <2>2. CASE i # Len(outbox) + 1
    <3>1. i \in DOMAIN outbox /\ i \in Nat /\ i <= Len(outbox) /\ outbox'[i] = outbox[i]
      BY <1>1, <1>2, <2>2
    <3>2. Given(outbox[i], p) = Content(p) \/ Told(p, i)
      BY <1>6, <3>1 DEF PartInvariant
    <3>. QED BY <1>3, <1>4, <3>1, <3>2
  <2>. QED BY <2>1, <2>2
<1>7. \A i \in DOMAIN outbox' : outbox'[i].of.call = "refresh" /\ p \in Learnt(outbox'[i]) =>
         Given(outbox'[i], p) = Content(p)' \/ Told(p, i)'
  BY <1>6
<1>8. \A i : Given(outbox[i], p)' = Given(outbox'[i], p) /\ Learnt(outbox[i])' = Learnt(outbox'[i])
  BY DEF Given, Learnt
<1>. QED BY <1>5, <1>7, <1>8 DEF PartInvariant

(* without one, *)
LEMMA PartUnreplied ==
  ASSUME QueuesTyped, QueuesTyped', NEW p \in Parts2, PartInvariant(p),
         UNCHANGED <<outbox, ver, log>>,
         p \in missed' \/ (View(p)' = View(p) /\ (p \in missed => p \in missed')),
         Follows(inbox, Askers(p), 0) => Follows(inbox', Askers(p), 0)
  PROVE  PartInvariant(p)'
<1>1. outbox \in Seq(Answers)
  BY DEF QueuesTyped
<1>2. Content(p)' = Content(p) /\ \A r : Given(r, p)' = Given(r', p)
  BY DEF Content, Given
<1>3. ASSUME NEW i \in Nat, Told(p, i) PROVE Told(p, i)'
  BY <1>3, ToldFollows, ToldFollowsNext
<1>4. (p \in missed \/ View(p) = Content(p) \/ Told(p, 0))'
  BY <1>2, <1>3 DEF PartInvariant
<1>5. ASSUME NEW i \in DOMAIN outbox', outbox'[i].of.call = "refresh", p \in Learnt(outbox'[i])
      PROVE  Given(outbox'[i], p) = Content(p)' \/ Told(p, i)'
  <2>1. i \in DOMAIN outbox /\ i \in Nat /\ outbox'[i] = outbox[i]
    BY <1>1
  <2>2. Given(outbox[i], p) = Content(p) \/ Told(p, i)
    BY <1>5, <2>1 DEF PartInvariant
  <2>. QED BY <1>2, <1>3, <2>1, <2>2
<1>6. \A i : Given(outbox[i], p)' = Given(outbox'[i], p) /\ Learnt(outbox[i])' = Learnt(outbox'[i])
  BY DEF Given, Learnt
<1>. QED BY <1>4, <1>5, <1>6 DEF PartInvariant

(* What an answer that is dropped would have told is noted as missed. *)
LEMMA DroppedIsMissed ==
  ASSUME NEW r \in Answers, NEW p \in Parts2, Tells(r, p)
  PROVE  p \in Unread(r)
<1>1. r.status \in Statuses(r.of.call) /\ <<r.of.by, r.of.call>> \in Kinds
  BY AnswerFields, CallFields
<1>2. CASE r.of.call = "refresh" /\ p \in Parts(r.of)
  BY <1>2 DEF Unread
<1>3. CASE r.status = "purged"
  <2>1. r.of.call = "purge"
    BY <1>1, <1>3 DEF Statuses, States, Terminal, Kinds
  <2>. QED BY <2>1 DEF Unread, Parts2
<1>4. CASE p = "sources" /\ r.status = "imported"
  <2>1. r.of.call \in {"confirm", "sample"}
    BY <1>1, <1>4 DEF Statuses, Kinds
  <2>. QED BY <1>4, <2>1 DEF Unread
<1>5. CASE p = "activity" /\ (r.of.call \in {"search", "fetch"} \/ r.status = "cleared")
  <2>1. r.of.call \in {"search", "fetch", "clear"}
    BY <1>1, <1>5 DEF Statuses, States, Terminal, Kinds
  <2>. QED BY <1>5, <2>1 DEF Unread
<1>. QED BY <1>2, <1>3, <1>4, <1>5 DEF Tells

(* The delivery of an answer keeps it, too: the page has read the part, asks for it, *)
(* or knows that it has missed it.                                                   *)
LEMMA PartDelivered ==
  ASSUME QueuesTyped, QueuesTyped', NEW p \in Parts2, PartInvariant(p), Delivered
  PROVE  PartInvariant(p)'
<1> DEFINE r == Head(outbox)
<1>1. outbox \in Seq(Answers) /\ inbox \in Seq(Calls) /\ outbox # <<>> /\ outbox' = Tail(outbox)
      /\ UNCHANGED <<ver, log>>
  BY DEF QueuesTyped, Delivered, vaultVars
<1>2. r \in Answers /\ Len(outbox) >= 1 /\ Len(outbox) \in Nat /\ r = outbox[1]
      /\ DOMAIN outbox = 1 .. Len(outbox)
  BY <1>1, TakenRange, EmptySeq
<1>3. /\ DOMAIN outbox' = 1 .. Len(outbox) - 1
      /\ \A i \in 1 .. Len(outbox) - 1 : outbox'[i] = outbox[i + 1]
  <2>1. outbox' \in Seq(Answers) /\ Len(outbox') = Len(outbox) - 1
        /\ \A i \in 1 .. Len(outbox') : outbox'[i] = outbox[i + 1]
    BY <1>1, HeadTailProperties
  <2>. QED BY <2>1
<1>4. Follows(inbox, Askers(p), 0) => Follows(inbox', Askers(p), 0)
  <2>1. inbox' = inbox \/ \E q \in Calls : inbox' = Append(inbox, q)
    BY DEF Delivered, Learned, LockCourse, NewCall
  <2>. QED BY <1>1, <2>1, FollowsGrows
<1>5. ASSUME NEW i \in Nat, Told(p, i + 1) PROVE Told(p, i)'
  <2>1. Follows(outbox, Tellers(p), i + 1) \/ Follows(inbox, Askers(p), 0)
    BY <1>5, ToldFollows
  <2>. QED BY <1>1, <1>4, <2>1, FollowsTaken, ToldFollowsNext
<1>6. ASSUME Told(p, 0), ~Tells(r, p) PROVE Told(p, 0)'
  <2>1. Follows(outbox, Tellers(p), 0) \/ Follows(inbox, Askers(p), 0)
    BY <1>6, ToldFollows
  <2>2. r \notin Tellers(p)
    BY <1>6 DEF Tellers
  <2>. QED BY <1>1, <1>4, <2>1, <2>2, FollowsTaken, ToldFollowsNext
<1>7. Content(p)' = Content(p)
  BY <1>1 DEF Content
<1>8. p \in missed \/ View(p) = Content(p) \/ Told(p, 0)
  BY DEF PartInvariant
<1> HIDE DEF r
<1>9. (p \in missed \/ View(p) = Content(p) \/ Told(p, 0))'
  <2>1. CASE r.of.id < since /\ UNCHANGED ui /\ missed' = missed \cup Unread(r)
    <3>1. View(p)' = View(p)
      BY <2>1 DEF View
    <3>. QED BY <1>2, <1>6, <1>7, <1>8, <2>1, <3>1, DroppedIsMissed
  <2>2. ASSUME Learned(r), r.of.call # "refresh", p \in missed => p \in missed'
        PROVE  (p \in missed \/ View(p) = Content(p) \/ Told(p, 0))'
    <3>1. View(p)' = View(p)
      BY <2>2 DEF View, Learned, ViewCourse
    <3>2. ASSUME Tells(r, p) PROVE Told(p, 0)'
      <4>1. PICK q : Asks(q, p) /\ NewCall(q, r)
        BY <2>2, <3>2 DEF Learned, AskCourse, Parts2
      <4>2. q \in Askers(p) /\ q \in Calls /\ inbox' = Append(inbox, q)
        BY <4>1 DEF NewCall, Askers
      <4>3. 0 <= Len(inbox)
        BY <1>1
      <4>4. Follows(inbox', Askers(p), 0)
        BY <1>1, <4>2, <4>3, FollowsGrows
      <4>. QED BY <4>4, ToldFollowsNext
    <3>. QED BY <1>6, <1>7, <1>8, <2>2, <3>1, <3>2
  <2>3. ASSUME Learned(r), r.of.call = "refresh", missed' = (missed \cup Parts(r.of)) \ Learnt(r)
        PROVE  (p \in missed \/ View(p) = Content(p) \/ Told(p, 0))'
    <3>1. r.got \subseteq Parts(r.of) /\ r.status \notin {"purged", "imported", "cleared"}
      BY <1>2, <2>3, AnswerFields DEF Readable, Statuses
    <3>0. Learnt(r) \subseteq r.got
      BY DEF Learnt
    <3>2. CASE p \in Learnt(r)
      <4>1. View(p)' = Given(r, p)
        BY <2>3, <3>0, <3>2 DEF View, Given, Learned, ViewCourse, Parts2
      <4>2. Given(r, p) = Content(p) \/ Told(p, 1)
        BY <1>2, <2>3, <3>2 DEF PartInvariant
      <4>3. Told(p, 1) => Told(p, 0)'
        BY <1>5
      <4>. QED BY <1>7, <4>1, <4>2, <4>3
    <3>3. CASE p \in Parts(r.of) /\ p \notin Learnt(r)
      BY <2>3, <3>3
    <3>4. CASE p \notin Parts(r.of)
      <4>1. ~Tells(r, p)
        BY <2>3, <3>1, <3>4 DEF Tells
      <4>2. View(p)' = View(p)
        BY <2>3, <3>1, <3>4 DEF View, Learned, ViewCourse, Parts2
      <4>. QED BY <1>6, <1>7, <1>8, <2>3, <3>0, <3>1, <3>4, <4>1, <4>2
    <3>. QED BY <3>0, <3>1, <3>2, <3>3, <3>4
  <2>4. p # "preview"
    BY DEF Parts2
  <2>5. CASE Learned(r) /\ missed' = (missed \cup IF r.of.call = "refresh" THEN Parts(r.of) ELSE {})
                         \ (IF r.of.call = "prepare" /\ r.status # "busy" THEN {"preview"}
                            ELSE IF r.of.call = "refresh" THEN Learnt(r) ELSE {})
    <3>1. CASE r.of.call = "refresh"
      BY <2>3, <2>5, <3>1
    <3>2. CASE r.of.call # "refresh"
      <4>1. p \in missed => p \in missed'
        BY <2>4, <2>5, <3>2
      <4>. QED BY <2>2, <2>5, <3>2, <4>1
    <3>. QED BY <3>1, <3>2
  <2>. QED BY <2>1, <2>5 DEF Delivered, r
<1>10. ASSUME NEW i \in DOMAIN outbox', outbox'[i].of.call = "refresh", p \in Learnt(outbox'[i])
      PROVE  Given(outbox'[i], p) = Content(p)' \/ Told(p, i)'
  <2>1. i + 1 \in DOMAIN outbox /\ i \in Nat /\ outbox'[i] = outbox[i + 1]
    BY <1>2, <1>3
  <2>2. Given(outbox[i + 1], p) = Content(p) \/ Told(p, i + 1)
    BY <1>10, <2>1 DEF PartInvariant
  <2>. QED BY <1>5, <1>7, <2>1, <2>2
<1>11. \A i : Given(outbox[i], p)' = Given(outbox'[i], p) /\ Learnt(outbox[i])' = Learnt(outbox'[i])
  BY DEF Given, Learnt
<1>. QED BY <1>9, <1>10, <1>11 DEF PartInvariant

(* So every step keeps it. *)
LEMMA PartStep ==
  ASSUME CallInvariant, CallInvariant', Course, NEW p \in Parts2, PartInvariant(p)
  PROVE  PartInvariant(p)'
<1>1. /\ QueuesTyped /\ QueuesTyped' /\ inbox \in Seq(Calls) /\ outbox \in Seq(Answers)
      /\ gestures + 1 \in Nat \ {0}
  BY DEF CallInvariant, QueuesTyped
<1>2. ASSUME NEW q \in Calls, inbox' = Append(inbox, q)
      PROVE  Follows(inbox, Askers(p), 0) => Follows(inbox', Askers(p), 0)
  BY <1>1, <1>2, FollowsGrows
<1>3. CASE GestureMade
  <2>1. UNCHANGED <<outbox, ver, log, missed>> /\ View(p)' = View(p)
    BY <1>3 DEF GestureMade, GestureKeeps, LookKept, View, vaultVars
  <2>2. inbox' = inbox \/ \E q \in Calls : inbox' = Append(inbox, q)
    BY <1>3 DEF GestureMade, Sent
  <2>. QED BY <1>1, <1>2, <2>1, <2>2, PartUnreplied
<1>4. CASE Reloaded
  <2>1. UNCHANGED <<outbox, ver, log>> /\ p \in missed'
    BY <1>4 DEF Reloaded, vaultVars, Parts2
  <2>2. Loading(gestures + 1) \in Calls
    <3>1. <<"both", 0>> \in Subjects \X Nat /\ <<"load", "refresh">> \in Kinds /\ "both" \in Parted
      BY DEF Subjects, Parted, Kinds
    <3>2. gestures + 1 \in Nat \ {0}
      BY <1>1
    <3>. QED BY <3>1, <3>2, CallTyped DEF Loading
  <2>3. Follows(inbox, Askers(p), 0) => Follows(inbox', Askers(p), 0)
    BY <1>2, <1>4, <2>2 DEF Reloaded
  <2>. QED BY <1>1, <2>1, <2>3, PartUnreplied
<1>5. CASE Handles
  <2> DEFINE q == Head(inbox)
  <2>1. q \in Calls /\ inbox # <<>> /\ inbox' = Tail(inbox) /\ UNCHANGED <<ui, missed>>
    BY <1>5 DEF Handles, pageVars
  <2>2. Asks(q, p) \/ (Follows(inbox, Askers(p), 0) => Follows(inbox', Askers(p), 0))
    <3>1. q \in Askers(p) => Asks(q, p)
      BY DEF Askers
    <3>. QED BY <1>1, <2>1, <3>1, FollowsTaken
  <2>3. Handled(q)
    BY <1>5 DEF Handles
  <2> HIDE DEF q
  <2>4. CASE Replies(q)
    <3>1. PICK r \in Answers : Reply(r) /\ r.of = q /\ Told1(r)
      BY <2>4 DEF Replies, Replied
    <3>2. Asks(q, p) => Tells(r, p)
      BY <3>1 DEF Asks, Tells
    <3>. QED BY <1>1, <2>1, <2>2, <3>1, <3>2, PartReplied DEF Reply
  <2>5. CASE Unreplied /\ q.call # "refresh"
    <3>1. ~Asks(q, p) /\ UNCHANGED <<outbox, ver, log, missed>> /\ View(p)' = View(p)
      BY <2>1, <2>5 DEF Asks, Unreplied, View, vaultVars
    <3>. QED BY <1>1, <2>2, <3>1, PartUnreplied
  <2>. QED BY <2>3, <2>4, <2>5 DEF Handled, ToNative, ToSamples
<1>6. ASSUME NEW q \in Calls, Left(q) PROVE PartInvariant(p)'
  <2>1. UNCHANGED <<ui, inbox, missed>> /\ View(p)' = View(p)
    BY <1>6 DEF Left, pageVars, View
  <2>2. CASE Replied(q)
    BY <1>1, <2>1, <2>2, PartReplied DEF Replied, Reply
  <2>3. CASE Unreplied
    BY <1>1, <2>1, <2>3, PartUnreplied DEF Unreplied, vaultVars
  <2>. QED BY <1>6, <2>2, <2>3 DEF Left, Leaves
<1>7. CASE Delivered
  BY <1>1, <1>7, PartDelivered
<1>8. CASE Stays
  <2>1. UNCHANGED <<outbox, inbox, ver, log, missed>> /\ View(p)' = View(p)
    BY <1>8 DEF Stays, vaultVars, pageVars, View
  <2>. QED BY <1>1, <2>1, PartUnreplied
<1>. QED BY <1>3, <1>4, <1>5, <1>6, <1>7, <1>8 DEF Course

(* The page has been loaded when it starts. *)
LEMMA PartInit ==
  ASSUME Init, NEW p \in Parts2
  PROVE  PartInvariant(p)
<1>1. View(p) = Content(p) /\ DOMAIN outbox = {}
  BY DEF Init, View, Content, Page, Pages
<1>. QED BY <1>1 DEF PartInvariant

-----------------------------------------------------------------------------
(* Results and passages *)

(* What is shown of the vault stays there, or an answer says that it does not. *)
LEMMA ResultReplied ==
  ASSUME QueuesTyped, QueuesTyped', ResultInvariant,
         NEW r \in Answers, Told1(r), outbox' = Append(outbox, r), UNCHANGED <<ui, missed>>
  PROVE  ResultInvariant'
<1>1. outbox \in Seq(Answers) /\ Len(outbox) \in Nat
  BY DEF QueuesTyped
<1>2. /\ DOMAIN outbox' = 1 .. Len(outbox) + 1 /\ outbox'[Len(outbox) + 1] = r
      /\ \A i \in 1 .. Len(outbox) : outbox'[i] = outbox[i]
  BY <1>1
<1>3. /\ Present \subseteq Present' \/ r.status = "purged"
      /\ r.of.call \in {"search", "fetch"} => r.got \subseteq Present'
  BY DEF Told1
<1>4. ASSUME NEW i \in Nat, i <= Len(outbox), PurgeFollows(i) \/ r.status = "purged"
      PROVE  PurgeFollows(i)'
  <2>1. r.status = "purged" <=> r \in Purgers
    BY DEF Purgers
  <2>2. Follows(outbox, Purgers, i) \/ r \in Purgers => Follows(outbox', Purgers, i)
    BY <1>1, <1>4, FollowsGrows
  <2>3. Follows(outbox', Purgers, i)
    BY <1>4, <2>1, <2>2, ToldFollows
  <2>. QED BY <2>3, ToldFollowsNext
<1>5. CASE "results" \notin missed
  <2>1. (ui.results \cup ({ui.drawer} \ {"none"}) \subseteq Present \/ PurgeFollows(0))'
    <3>1. ui.results \cup ({ui.drawer} \ {"none"}) \subseteq Present \/ PurgeFollows(0)
      BY <1>5 DEF ResultInvariant
    <3>2. 0 <= Len(outbox)
      BY <1>1
    <3>. QED BY <1>3, <1>4, <3>1, <3>2
  <2>2. ASSUME NEW i \in DOMAIN outbox', outbox'[i].of.call \in {"search", "fetch"}
        PROVE  outbox'[i].got \subseteq Present' \/ PurgeFollows(i)'
    <3>1. CASE i = Len(outbox) + 1
      BY <1>2, <1>3, <2>2, <3>1
    <3>2. CASE i # Len(outbox) + 1
      <4>1. i \in DOMAIN outbox /\ i \in Nat /\ i <= Len(outbox) /\ outbox'[i] = outbox[i]
        BY <1>1, <1>2, <3>2
      <4>2. outbox[i].got \subseteq Present \/ PurgeFollows(i)
        BY <1>5, <2>2, <4>1 DEF ResultInvariant
      <4>. QED BY <1>3, <1>4, <4>1, <4>2
    <3>. QED BY <3>1, <3>2
  <2>. QED BY <2>1, <2>2 DEF ResultInvariant
<1>. QED BY <1>5 DEF ResultInvariant

(* Without an answer the vault is what it was. *)
LEMMA ResultUnreplied ==
  ASSUME QueuesTyped, ResultInvariant, UNCHANGED <<outbox, ver>>,
         "results" \in missed => "results" \in missed',
         ui'.results \in {ui.results, {}}, ui'.drawer \in {ui.drawer, "none"}
  PROVE  ResultInvariant'
<1>1. Present' = Present
  BY DEF Present
<1>2. PurgeFollows(0)' <=> PurgeFollows(0)
  BY DEF PurgeFollows
<1>3. ASSUME NEW i PROVE PurgeFollows(i)' <=> PurgeFollows(i)
  BY DEF PurgeFollows
<1>4. CASE "results" \notin missed
  <2>1. ui'.results \cup ({ui'.drawer} \ {"none"}) \subseteq Present' \/ PurgeFollows(0)'
    BY <1>1, <1>2, <1>4 DEF ResultInvariant
  <2>2. \A i \in DOMAIN outbox' : outbox'[i].of.call \in {"search", "fetch"} =>
            outbox'[i].got \subseteq Present' \/ PurgeFollows(i)'
    BY <1>1, <1>3, <1>4 DEF ResultInvariant
  <2>. QED BY <2>1, <2>2 DEF ResultInvariant
<1>. QED BY <1>4 DEF ResultInvariant

(* A delivered answer that removes a source clears them, one that finds a source finds *)
(* what is there, or will be said to be gone.                                          *)
LEMMA ResultDelivered ==
  ASSUME QueuesTyped, QueuesTyped', ResultInvariant, Delivered
  PROVE  ResultInvariant'
<1> DEFINE r == Head(outbox)
<1>1. outbox \in Seq(Answers) /\ outbox # <<>> /\ outbox' = Tail(outbox) /\ Present' = Present
  BY DEF QueuesTyped, Delivered, vaultVars, Present
<1>2. r \in Answers /\ Len(outbox) >= 1 /\ Len(outbox) \in Nat /\ r = outbox[1]
      /\ DOMAIN outbox = 1 .. Len(outbox)
  BY <1>1, TakenRange, EmptySeq
<1>3. /\ DOMAIN outbox' = 1 .. Len(outbox) - 1
      /\ \A i \in 1 .. Len(outbox) - 1 : outbox'[i] = outbox[i + 1]
  <2>1. outbox' \in Seq(Answers) /\ Len(outbox') = Len(outbox) - 1
        /\ \A i \in 1 .. Len(outbox') : outbox'[i] = outbox[i + 1]
    BY <1>1, HeadTailProperties
  <2>. QED BY <2>1
<1>4. ASSUME NEW i \in Nat, PurgeFollows(i + 1) PROVE PurgeFollows(i)'
  <2>1. Follows(outbox, Purgers, i + 1)
    BY <1>4, ToldFollows
  <2>2. Follows(outbox', Purgers, i)
    BY <1>1, <2>1, FollowsTaken
  <2>. QED BY <2>2, ToldFollowsNext
<1>5. ASSUME PurgeFollows(0), r.status # "purged" PROVE PurgeFollows(0)'
  <2>1. r \notin Purgers
    BY <1>5 DEF Purgers
  <2>. QED BY <1>1, <1>5, <2>1, FollowsTaken, ToldFollows, ToldFollowsNext
<1>6. "results" \in missed => "results" \in missed'
  <2>1. r.got \subseteq Readable(r.of) /\ r.of \in Calls
    BY <1>2, AnswerFields
  <2>2. r.of.call = "refresh" => "results" \notin r.got
    BY <2>1, CallFields DEF Readable, Parts, Parted
  <2>. QED BY <2>2 DEF Delivered, Learnt
<1>7. ASSUME UNCHANGED ui, missed' = missed \cup Unread(r), "results" \notin missed'
      PROVE  ui'.results \cup ({ui'.drawer} \ {"none"}) \subseteq Present' \/ PurgeFollows(0)'
  <2>1. r.status # "purged"
    <3>1. r.status = "purged" => r.of.call = "purge"
      BY <1>2, AnswerFields, CallFields DEF Statuses, States, Terminal, Kinds
    <3>. QED BY <1>7, <3>1 DEF Unread
  <2>2. ui'.results \cup ({ui'.drawer} \ {"none"}) \subseteq Present' \/ PurgeFollows(0)'
    BY <1>1, <1>5, <1>7, <2>1 DEF ResultInvariant
  <2>. QED BY <2>2
<1>8. ASSUME Learned(r), "results" \notin missed'
      PROVE  ui'.results \cup ({ui'.drawer} \ {"none"}) \subseteq Present' \/ PurgeFollows(0)'
  <2>1. ui.results \cup ({ui.drawer} \ {"none"}) \subseteq Present \/ PurgeFollows(0)
    BY <1>6, <1>8 DEF ResultInvariant
  <2>2. CASE r.status = "purged"
    BY <1>8, <2>2 DEF Learned, ResultCourse
  <2>3. CASE r.status # "purged"
    <3>1. ui'.results \cup ({ui'.drawer} \ {"none"})
            \subseteq ui.results \cup ({ui.drawer} \ {"none"})
                        \cup (IF r.of.call \in {"search", "fetch"} THEN r.got ELSE {})
      BY <1>8 DEF Learned, ResultCourse
    <3>2. r.of.call \in {"search", "fetch"} => r.got \subseteq Present \/ PurgeFollows(1)
      BY <1>2, <1>6, <1>8 DEF ResultInvariant
    <3>3. PurgeFollows(1) => PurgeFollows(0)'
      BY <1>4
    <3>. QED BY <1>1, <1>5, <2>1, <2>3, <3>1, <3>2, <3>3
  <2>. QED BY <2>2, <2>3
<1>9. ASSUME "results" \notin missed, NEW i \in DOMAIN outbox',
             outbox'[i].of.call \in {"search", "fetch"}
      PROVE  outbox'[i].got \subseteq Present' \/ PurgeFollows(i)'
  <2>1. i + 1 \in DOMAIN outbox /\ i \in Nat /\ outbox'[i] = outbox[i + 1]
    BY <1>2, <1>3
  <2>2. outbox[i + 1].got \subseteq Present \/ PurgeFollows(i + 1)
    BY <1>9, <2>1 DEF ResultInvariant
  <2>. QED BY <1>1, <1>4, <2>1, <2>2
<1>10. CASE "results" \in missed'
  BY <1>10 DEF ResultInvariant
<1>11. CASE "results" \notin missed'
  <2>1. ui'.results \cup ({ui'.drawer} \ {"none"}) \subseteq Present' \/ PurgeFollows(0)'
    BY <1>7, <1>8, <1>11 DEF Delivered
  <2>. QED BY <1>6, <1>9, <1>11, <2>1 DEF ResultInvariant
<1>. QED BY <1>10, <1>11

(* So every step keeps it. *)
LEMMA ResultStep ==
  ASSUME CallInvariant, CallInvariant', Course, ResultInvariant
  PROVE  ResultInvariant'
<1>1. QueuesTyped /\ QueuesTyped'
  BY DEF CallInvariant, QueuesTyped
<1>2. CASE GestureMade
  BY <1>1, <1>2, ResultUnreplied DEF GestureMade, GestureKeeps, LookKept, vaultVars
<1>3. CASE Reloaded
  <2>1. ui'.results = {} /\ ui'.drawer = "none"
    BY <1>3 DEF Reloaded, Page
  <2>. QED BY <1>1, <1>3, <2>1, ResultUnreplied DEF Reloaded, vaultVars
<1>4. ASSUME NEW q, Replied(q), UNCHANGED <<ui, missed>> PROVE ResultInvariant'
  BY <1>1, <1>4, ResultReplied DEF Replied, Reply
<1>5. ASSUME Unreplied, UNCHANGED <<ui, missed>> PROVE ResultInvariant'
  BY <1>1, <1>5, ResultUnreplied DEF Unreplied, vaultVars
<1>6. CASE Handles
  BY <1>4, <1>5, <1>6 DEF Handles, Handled, Replies, pageVars
<1>7. ASSUME NEW q \in Calls, Left(q) PROVE ResultInvariant'
  BY <1>4, <1>5, <1>7 DEF Left, Leaves, pageVars
<1>8. CASE Delivered
  BY <1>1, <1>8, ResultDelivered
<1>9. CASE Stays
  BY <1>5, <1>9 DEF Stays, Unreplied, pageVars
<1>. QED BY <1>2, <1>3, <1>6, <1>7, <1>8, <1>9 DEF Course

-----------------------------------------------------------------------------
(* The token table *)

Table(t) == \A k \in DOMAIN t : t[k] \in [state : States, sender : {Window}, importable : BOOLEAN]
\* Nothing is added to a table.
Shrunk(t, u) == Table(u) /\ DOMAIN u \subseteq DOMAIN t /\ Pending(u) \subseteq Pending(t)
\* The last token is one a preview can show.
Lasts(t, n) == n \in DOMAIN t /\ t[n].state \in {"pending", "expired"} /\ DOMAIN t \subseteq 1 .. n

(* The state of some tokens is set. *)
LEMMA Setting ==
  ASSUME NEW t, Table(t), NEW K, NEW s \in States, NEW u, u = SetState(t, K, s)
  PROVE  /\ Table(u) /\ DOMAIN u = DOMAIN t
         /\ \A k \in DOMAIN t : u[k].state = IF k \in K THEN s ELSE t[k].state
<1>1. DOMAIN u = DOMAIN t
  BY DEF SetState
<1>2. \A k \in DOMAIN t : u[k] = IF k \in K THEN [t[k] EXCEPT !.state = s] ELSE t[k]
  BY DEF SetState
<1>3. \A k \in DOMAIN t : t[k] \in [state : States, sender : {Window}, importable : BOOLEAN]
  BY DEF Table
<1>4. ASSUME NEW k \in DOMAIN t
      PROVE  /\ u[k] \in [state : States, sender : {Window}, importable : BOOLEAN]
             /\ u[k].state = IF k \in K THEN s ELSE t[k].state
  BY <1>2, <1>3
<1>. QED BY <1>1, <1>4 DEF Table

(* To a state that is not pending. *)
LEMMA Spending ==
  ASSUME NEW t, Table(t), NEW K, NEW s \in States \ {"pending"}, NEW u, u = SetState(t, K, s)
  PROVE  Shrunk(t, u) /\ DOMAIN u = DOMAIN t /\ Pending(u) \cap K = {}
<1>1. /\ Table(u) /\ DOMAIN u = DOMAIN t
      /\ \A k \in DOMAIN t : u[k].state = IF k \in K THEN s ELSE t[k].state
  BY Setting
<1>2. \A k \in Pending(u) : k \in DOMAIN t /\ k \notin K /\ t[k].state = "pending"
  BY <1>1 DEF Pending, InState
<1>. QED BY <1>1, <1>2 DEF Shrunk, Pending, InState

(* Shrinking twice is shrinking. *)
LEMMA ShrinksTwice ==
  ASSUME NEW t, NEW u, NEW v, Shrunk(t, u), Shrunk(u, v)
  PROVE  Shrunk(t, v)
BY DEF Shrunk

(* Tokens expire. *)
LEMMA Expired ==
  ASSUME NEW t, Table(t), NEW K, NEW d, NEW n, NEW u, u = Expire(t, K, d)
  PROVE  Shrunk(t, u) /\ DOMAIN u = DOMAIN t /\ (Lasts(t, n) => Lasts(u, n))
<1> DEFINE J == {k \in Pending(t) \cap K : k <= d}
<1>1. u = SetState(t, J, "expired")
  BY DEF Expire
<1> HIDE DEF J
<1>2. "expired" \in States \ {"pending"}
  BY DEF States, Terminal
<1>3. Shrunk(t, u) /\ DOMAIN u = DOMAIN t
  BY <1>1, <1>2, Spending
<1>4. \A k \in DOMAIN t : u[k].state = IF k \in J THEN "expired" ELSE t[k].state
  BY <1>1, <1>2, Setting
<1>. QED BY <1>3, <1>4 DEF Lasts

(* Old tombstones are forgotten, the last token never is. *)
LEMMA Pruned ==
  ASSUME NEW t, Table(t), NEW d, NEW n \in Nat, NEW u, u = Prune(t, d)
  PROVE  Shrunk(t, u) /\ (Lasts(t, n) => Lasts(u, n))
<1> DEFINE e == Expire(t, DOMAIN t, d)
           older(k) == {j \in Tombstones(e) : j > k}
           old == {k \in Tombstones(e) : Cardinality(older(k)) >= MaxTombstones}
<1>1. u = Restrict(e, DOMAIN e \ old)
  BY DEF Prune
<1>2. Shrunk(t, e) /\ DOMAIN e = DOMAIN t /\ (Lasts(t, n) => Lasts(e, n))
  BY Expired
<1>3. ASSUME Lasts(e, n) PROVE n \notin old
  <2>1. Tombstones(e) \subseteq 1 .. n
    BY <1>3 DEF Lasts, Tombstones, InState
  <2>2. older(n) = {}
    BY <2>1
  <2>3. Cardinality(older(n)) = 0
    BY <2>2, FS_EmptySet
  <2>. QED BY <2>3, ImportTokensAssumption
<1> HIDE DEF e, old
<1>4. DOMAIN u = DOMAIN e \ old /\ \A k \in DOMAIN u : u[k] = e[k]
  BY <1>1 DEF Restrict
<1>5. Shrunk(e, u)
  BY <1>2, <1>4 DEF Shrunk, Table, Pending, InState
<1>6. Lasts(e, n) => Lasts(u, n)
  BY <1>3, <1>4 DEF Lasts
<1>. QED BY <1>2, <1>5, <1>6, ShrinksTwice

(* The window's previews are dropped. *)
LEMMA Dropped ==
  ASSUME NEW t, Table(t), NEW d, NEW u, u = AbortPendingForSender(t, Window, d)
  PROVE  Shrunk(t, u) /\ Pending(u) = {}
<1> DEFINE e == Expire(t, DOMAIN t, d)
           K == {k \in Pending(e) : e[k].sender \in {Window}}
           a == SetState(e, K, "aborted")
<1>1. u = Prune(a, d)
  BY DEF AbortPendingForSender, AbortPending
<1>2. Shrunk(t, e)
  BY Expired
<1> HIDE DEF e
<1>3. Table(e) /\ K = Pending(e)
  BY <1>2 DEF Shrunk, Table, Pending, InState
<1>4. "aborted" \in States \ {"pending"}
  BY DEF States, Terminal
<1> HIDE DEF K
<1>5. Shrunk(e, a) /\ Pending(a) \cap K = {}
  BY <1>3, <1>4, Spending
<1> HIDE DEF a
<1>6. Pending(a) = {} /\ Table(a)
  BY <1>3, <1>5 DEF Shrunk
<1>7. Shrunk(a, u)
  BY <1>1, <1>6, Pruned
<1>. QED BY <1>2, <1>5, <1>6, <1>7, ShrinksTwice DEF Shrunk

(* A preview is cancelled. *)
LEMMA Cancelled ==
  ASSUME NEW t, Table(t), NEW k, NEW d, NEW u, u = Cancel(t, k, d)
  PROVE  Shrunk(t, u) /\ k \notin Pending(u)
<1> DEFINE O == {k}
           e == Expire(t, O, d)
           K == {k} \cap Pending(e)
<1>1. u = SetState(e, K, "aborted")
  BY DEF Cancel
<1> HIDE DEF O
<1>2. Shrunk(t, e) /\ Table(e)
  BY Expired DEF Shrunk
<1> HIDE DEF e
<1>3. "aborted" \in States \ {"pending"}
  BY DEF States, Terminal
<1>4. Shrunk(e, u) /\ Pending(u) \cap K = {}
  BY <1>1, <1>2, <1>3, Spending
<1>. QED BY <1>2, <1>4, ShrinksTwice DEF Shrunk

(* A preview is confirmed. *)
LEMMA Taken ==
  ASSUME NEW t, Table(t), NEW k, NEW d, NEW u, u = TakeForConfirmation(t, k, d)
  PROVE  Shrunk(t, u) /\ k \notin Pending(u)
<1> DEFINE O == {k}
           e == Expire(t, O, d)
           K == {k} \cap Pending(e)
<1>1. u = SetState(e, K, "confirming")
  BY DEF TakeForConfirmation
<1> HIDE DEF O
<1>2. Shrunk(t, e) /\ Table(e)
  BY Expired DEF Shrunk
<1> HIDE DEF e
<1>3. "confirming" \in States \ {"pending"}
  BY DEF States, Terminal
<1>4. Shrunk(e, u) /\ Pending(u) \cap K = {}
  BY <1>1, <1>2, <1>3, Spending
<1>. QED BY <1>2, <1>4, ShrinksTwice DEF Shrunk

(* A preview's import ends. *)
LEMMA MarkedAs ==
  ASSUME NEW t, Table(t), NEW k, NEW s \in Terminal, NEW u, u = SetTerminalState(t, k, s)
  PROVE  Shrunk(t, u)
<1>1. s \in States \ {"pending"}
  BY DEF States, Terminal
<1>. QED BY <1>1, Spending DEF SetTerminalState

(* A preview is past its time. *)
LEMMA TimedOut ==
  ASSUME NEW t, Table(t), NEW k, NEW d, NEW n \in Nat, NEW u, u = ExpireIfDue(t, k, d)
  PROVE  Shrunk(t, u) /\ (Lasts(t, n) => Lasts(u, n))
<1> DEFINE O == {k}
           e == Expire(t, O, d)
<1>1. u = Prune(e, d)
  BY DEF ExpireIfDue
<1> HIDE DEF O
<1>2. Shrunk(t, e) /\ Table(e) /\ (Lasts(t, n) => Lasts(e, n))
  BY Expired DEF Shrunk
<1> HIDE DEF e
<1>. QED BY <1>1, <1>2, Pruned, ShrinksTwice

(* A preview is issued, and it is the only one. *)
LEMMA Issued ==
  ASSUME NEW t, Table(t), NEW n \in Nat, DOMAIN t \subseteq 1 .. n, NEW c \in BOOLEAN, NEW d,
         NEW u, u = Issue(t, n + 1, Window, c, d)
  PROVE  Table(u) /\ Pending(u) \subseteq {n + 1} /\ Lasts(u, n + 1)
<1> DEFINE m == n + 1
           a == AbortPendingForSender(t, Window, d)
           e == Entry(Window, c)
           v == Register(a, m, e)
<1>1. u = Prune(v, d)
  BY DEF Issue
<1>2. Shrunk(t, a) /\ Pending(a) = {}
  BY Dropped
<1>3. e \in [state : States, sender : {Window}, importable : BOOLEAN] /\ e.state = "pending"
  BY DEF Entry, States
<1> HIDE DEF a, e
<1>4. DOMAIN v = DOMAIN a \cup {m} /\ \A j \in DOMAIN v : v[j] = IF j = m THEN e ELSE a[j]
  BY DEF Register
<1>5. m \in Nat /\ m \in 1 .. m /\ 1 .. n \subseteq 1 .. m
  OBVIOUS
<1> HIDE DEF m, v
<1>6. Table(v)
  BY <1>2, <1>3, <1>4 DEF Shrunk, Table
<1>7. Pending(v) \subseteq {m}
  BY <1>2, <1>4 DEF Pending, InState
<1>8. Lasts(v, m)
  BY <1>2, <1>3, <1>4, <1>5 DEF Shrunk, Lasts
<1>9. Shrunk(v, u) /\ Lasts(u, m)
  BY <1>1, <1>5, <1>6, <1>8, Pruned
<1>. QED BY <1>7, <1>9 DEF Shrunk, m

-----------------------------------------------------------------------------
(* One function has the lock *)

LiveCalls(n) == {q \in Calls : q.by \in Locking /\ q.id >= n}
LiveAnswers(n) == {r \in Answers : r.of.by \in Locking /\ r.of.id >= n}
Either(a, b) == a = {} \/ b = {}
\* Of five sets one has an element, and no other, if any does.
OneAmong(a, b, c, d, e) ==
  /\ Alone(a) /\ Alone(b) /\ Alone(c) /\ Alone(d) /\ Alone(e)
  /\ Either(a, b) /\ Either(a, c) /\ Either(a, d) /\ Either(a, e) /\ Either(b, c)
  /\ Either(b, d) /\ Either(b, e) /\ Either(c, d) /\ Either(c, e) /\ Either(d, e)
OneLive == OneAmong(LiveSent, LiveAnswered, LiveIn(native), LiveIn(samples), LiveIn({work.q}))
ShapedLive == \A q \in Flying : Live(q) => Shaped(q)
Ordered == \A i, j \in DOMAIN inbox : i < j /\ inbox[i].id >= since => inbox[j].id >= since

(* One element in all. *)
LEMMA Among ==
  ASSUME NEW a, NEW b, NEW c, NEW d, NEW e
  PROVE  LET L == <<a, b, c, d, e>> IN
         (\A i, j \in DOMAIN L : \A x \in L[i], y \in L[j] : i = j /\ x = y)
           <=> OneAmong(a, b, c, d, e)
<1> DEFINE L == <<a, b, c, d, e>>
<1>1. DOMAIN L = 1 .. 5 /\ L[1] = a /\ L[2] = b /\ L[3] = c /\ L[4] = d /\ L[5] = e
  OBVIOUS
<1> HIDE DEF L
<1>2. ASSUME \A i, j \in DOMAIN L : \A x \in L[i], y \in L[j] : i = j /\ x = y
      PROVE  OneAmong(a, b, c, d, e)
  <2>1. \A i, j \in 1 .. 5 : \A x \in L[i], y \in L[j] : i = j /\ x = y
    BY <1>1, <1>2
  <2>2. \A i \in 1 .. 5 : Alone(L[i])
    BY <2>1 DEF Alone
  <2>3. \A i, j \in 1 .. 5 : i # j => Either(L[i], L[j])
    BY <2>1 DEF Either
  <2>4. Alone(a) /\ Alone(b) /\ Alone(c) /\ Alone(d) /\ Alone(e)
    BY <1>1, <2>2
  <2>5. /\ Either(a, b) /\ Either(a, c) /\ Either(a, d) /\ Either(a, e) /\ Either(b, c)
        /\ Either(b, d) /\ Either(b, e) /\ Either(c, d) /\ Either(c, e) /\ Either(d, e)
    BY <1>1, <2>3
  <2>. QED BY <2>4, <2>5 DEF OneAmong
<1>3. ASSUME OneAmong(a, b, c, d, e), NEW i \in DOMAIN L, NEW j \in DOMAIN L,
             NEW x \in L[i], NEW y \in L[j]
      PROVE  i = j /\ x = y
  <2>1. i \in {1, 2, 3, 4, 5} /\ j \in {1, 2, 3, 4, 5}
    BY <1>1
  <2>2. i = j
    BY <1>1, <1>3, <2>1 DEF OneAmong, Either
  <2>3. Alone(L[i])
    BY <1>1, <1>3, <2>1 DEF OneAmong
  <2>. QED BY <2>2, <2>3 DEF Alone
<1>. QED BY <1>2, <1>3 DEF L

(* The lock's invariant in its parts, *)
LEMMA LockParts ==
  LockInvariant <=> OneLive /\ ShapedLive /\ Ordered
<1> DEFINE a == LiveSent
           b == LiveAnswered
           c == LiveIn(native)
           d == LiveIn(samples)
           e == LiveIn({work.q})
<1>1. (\A i, j \in DOMAIN <<a, b, c, d, e>> :
         \A x \in <<a, b, c, d, e>>[i], y \in <<a, b, c, d, e>>[j] : i = j /\ x = y)
        <=> OneAmong(a, b, c, d, e)
  <2> HIDE DEF a, b, c, d, e
  <2>. QED BY Among
<1>. QED BY <1>1 DEF LockInvariant, LiveAt, OneLive, ShapedLive, Ordered

(* and in the next state. *)
LEMMA LockPartsNext ==
  LockInvariant' <=> OneLive' /\ ShapedLive' /\ Ordered'
<1> DEFINE a == LiveSent'
           b == LiveAnswered'
           c == LiveIn(native)'
           d == LiveIn(samples)'
           e == LiveIn({work.q})'
<1>1. (\A i, j \in DOMAIN <<a, b, c, d, e>> :
         \A x \in <<a, b, c, d, e>>[i], y \in <<a, b, c, d, e>>[j] : i = j /\ x = y)
        <=> OneAmong(a, b, c, d, e)
  <2> HIDE DEF a, b, c, d, e
  <2>. QED BY Among
<1>. QED BY <1>1 DEF LockInvariant, LiveAt, OneLive, OneAmong, Either, Alone, ShapedLive, Ordered

(* Where the live calls are in the queues. *)
LEMMA LiveQueues ==
  ASSUME QueuesTyped
  PROVE  LiveSent = At(inbox, LiveCalls(since)) /\ LiveAnswered = At(outbox, LiveAnswers(since))
<1>1. /\ \A i \in DOMAIN inbox : inbox[i] \in Calls
      /\ \A i \in DOMAIN outbox : outbox[i] \in Answers
  BY DEF QueuesTyped
<1>. QED BY <1>1 DEF LiveSent, LiveAnswered, Live, At, LiveCalls, LiveAnswers, Locking

(* The same of the next state. *)
LEMMA LiveQueuesNext ==
  ASSUME QueuesTyped'
  PROVE  /\ LiveSent' = At(inbox', LiveCalls(since'))
         /\ LiveAnswered' = At(outbox', LiveAnswers(since'))
<1>1. /\ \A i \in DOMAIN inbox' : inbox'[i] \in Calls
      /\ \A i \in DOMAIN outbox' : outbox'[i] \in Answers
  BY DEF QueuesTyped
<1>. QED BY <1>1 DEF LiveSent, LiveAnswered, Live, At, LiveCalls, LiveAnswers, Locking

(* A queue grows, *)
LEMMA LiveGrows ==
  ASSUME NEW S, NEW s \in Seq(S), NEW x \in S, NEW L
  PROVE  /\ x \notin L => At(Append(s, x), L) = At(s, L)
         /\ At(s, L) = {} => Alone(At(Append(s, x), L))
<1>1. At(s, L) = {} => At(Append(s, x), L) \in {{}, {Len(s) + 1}}
  BY AtAppended
<1>2. At(s, L) = {} => Alone(At(Append(s, x), L))
  BY <1>1 DEF Alone
<1>. QED BY <1>2, AtAppended

(* or shrinks. *)
LEMMA LiveShrinks ==
  ASSUME NEW S, NEW s \in Seq(S), s # <<>>, NEW L
  PROVE  /\ At(s, L) = {} => At(Tail(s), L) = {}
         /\ Alone(At(s, L)) => Alone(At(Tail(s), L))
         /\ Head(s) \in L => At(s, L) # {} /\ (Alone(At(s, L)) => At(Tail(s), L) = {})
<1> DEFINE a == At(s, L)
           b == At(Tail(s), L)
<1>1. /\ \A i \in Nat \ {0} : i \in b <=> i + 1 \in a
      /\ a \subseteq Nat \ {0} /\ b \subseteq Nat \ {0}
      /\ 1 \in a <=> Head(s) \in L
  BY AtTaken
<1> HIDE DEF a, b
<1>2. a = {} => b = {}
  BY <1>1
<1>3. ASSUME Alone(a), NEW x \in b, NEW y \in b PROVE x = y
  <2>1. x \in Nat \ {0} /\ y \in Nat \ {0} /\ x + 1 \in a /\ y + 1 \in a
    BY <1>1
  <2>2. x + 1 = y + 1
    BY <1>3, <2>1 DEF Alone
  <2>. QED BY <2>1, <2>2
<1>4. ASSUME Head(s) \in L, Alone(a), NEW x \in b PROVE FALSE
  <2>1. x \in Nat \ {0} /\ x + 1 \in a /\ 1 \in a
    BY <1>1, <1>4
  <2>2. x + 1 = 1
    BY <1>4, <2>1 DEF Alone
  <2>. QED BY <2>1, <2>2
<1>5. Alone(a) => Alone(b)
  BY <1>3 DEF Alone
<1>. QED BY <1>1, <1>2, <1>4, <1>5 DEF a, b

(* When a queue has no live call. *)
LEMMA NoneLive ==
  /\ LiveSent = {} <=> \A q \in Range(inbox) : ~Live(q)
  /\ LiveAnswered = {} <=> \A r \in Range(outbox) : ~Live(r.of)
<1>1. /\ \A q : q \in Range(inbox) <=> \E i \in DOMAIN inbox : q = inbox[i]
      /\ \A r : r \in Range(outbox) <=> \E i \in DOMAIN outbox : r = outbox[i]
  BY DEF Range
<1>2. LiveSent = {} <=> \A q \in Range(inbox) : ~Live(q)
  BY <1>1 DEF LiveSent
<1>3. LiveAnswered = {} <=> \A r \in Range(outbox) : ~Live(r.of)
  BY <1>1 DEF LiveAnswered
<1>. QED BY <1>2, <1>3

(* The same of the next state, on the same page. *)
LEMMA NoneLiveNext ==
  ASSUME since' = since
  PROVE  /\ LiveSent' = {} <=> \A q \in Range(inbox') : ~Live(q)
         /\ LiveAnswered' = {} <=> \A r \in Range(outbox') : ~Live(r.of)
<1>1. /\ \A q : q \in Range(inbox') <=> \E i \in DOMAIN inbox' : q = inbox'[i]
      /\ \A r : r \in Range(outbox') <=> \E i \in DOMAIN outbox' : r = outbox'[i]
  BY DEF Range
<1>2. LiveSent' = {} <=> \A q \in Range(inbox') : ~Live(q)
  BY <1>1 DEF LiveSent, Live
<1>3. LiveAnswered' = {} <=> \A r \in Range(outbox') : ~Live(r.of)
  BY <1>1 DEF LiveAnswered, Live
<1>. QED BY <1>2, <1>3

(* Without a new page, calls are live in the next state if they are in this one. *)
LEMMA LiveStays ==
  ASSUME since' = since
  PROVE  /\ (\A q : Live(q)' <=> Live(q)) /\ LiveIn(native)' = {q \in native' : Live(q)}
         /\ LiveIn(samples)' = {q \in samples' : Live(q)}
         /\ LiveIn({work.q})' = {q \in {work'.q} : Live(q)}
BY DEF Live, LiveIn

(* While the page keeps its lock and its preview, calls keep their shape. *)
LEMMA ShapesStay ==
  ASSUME ShapedLive, since' = since, LockLeft,
         \A q \in Flying' : q \in Flying \/ ~Live(q)
  PROVE  ShapedLive'
BY DEF ShapedLive, LockLeft, Live, Shaped

(* No import is not a live call. *)
LEMMA NoCallRests == ~Live(NoCall)
BY DEF Live, NoCall

(* A call that is served takes another place. *)
LEMMA LockHandles ==
  ASSUME CallInvariant, CallInvariant', OneLive, ShapedLive, Handles
  PROVE  OneLive' /\ ShapedLive'
<1> DEFINE q == Head(inbox)
           L == LiveCalls(since)
           A == LiveAnswers(since)
<1>1. /\ QueuesTyped /\ QueuesTyped' /\ inbox \in Seq(Calls) /\ outbox \in Seq(Answers)
      /\ inbox # <<>> /\ inbox' = Tail(inbox) /\ since' = since /\ LockLeft
  BY DEF CallInvariant, QueuesTyped, Handles, pageVars, LockLeft
<1>2. q \in Calls /\ q \in Range(inbox) /\ Range(inbox') \subseteq Range(inbox)
  BY <1>1, TakenRange
<1>3. Handled(q)
  BY DEF Handles
<1>4. (Live(q) <=> q \in L) /\ \A r \in Answers : r.of = q => (r \in A <=> Live(q))
  BY <1>2 DEF Live, LiveCalls, LiveAnswers, Locking
<1>5. /\ LiveSent = At(inbox, L) /\ LiveAnswered = At(outbox, A)
      /\ LiveSent' = At(inbox', L) /\ LiveAnswered' = At(outbox', A)
  BY <1>1, LiveQueues, LiveQueuesNext
<1> HIDE DEF q, L, A
<1>6. /\ LiveSent = {} => LiveSent' = {}
      /\ Alone(LiveSent) => Alone(LiveSent')
      /\ Live(q) => LiveSent # {} /\ (Alone(LiveSent) => LiveSent' = {})
  BY <1>1, <1>4, <1>5, LiveShrinks DEF q
<1>7. /\ LiveIn(native)' = {p \in native' : Live(p)} /\ LiveIn(samples)' = {p \in samples' : Live(p)}
      /\ LiveIn({work.q})' = {p \in {work'.q} : Live(p)}
  BY <1>1, LiveStays
<1>8. CASE Replies(q)
  <2>1. PICK r \in Answers : outbox' = Append(outbox, r) /\ r.of = q
    BY <1>8 DEF Replies, Replied, Reply
  <2>2. Range(outbox') = Range(outbox) \cup {r}
    BY <1>1, <2>1, AppendedRange
  <2>3. UNCHANGED <<native, samples>> /\ work'.q = work.q
    BY <1>8 DEF Replies, WorkKept
  <2>4. /\ ~Live(q) => LiveAnswered' = LiveAnswered
        /\ LiveAnswered = {} => Alone(LiveAnswered')
    BY <1>1, <1>4, <1>5, <2>1, LiveGrows
  <2>5. /\ LiveIn(native)' = LiveIn(native) /\ LiveIn(samples)' = LiveIn(samples)
        /\ LiveIn({work.q})' = LiveIn({work.q})
    BY <1>7, <2>3 DEF LiveIn
  <2>6. OneLive'
    BY <1>6, <2>4, <2>5 DEF OneLive, OneAmong, Either
  <2>7. Flying' \subseteq Flying
    BY <1>2, <2>1, <2>2, <2>3 DEF Flying, Held
  <2>. QED BY <1>1, <2>6, <2>7, ShapesStay
<1>9. ASSUME outbox' = outbox, native' \in {native, native \cup {q}},
             samples' \in {samples, samples \cup {q}},
             work'.q = work.q \/ (work = NoWork /\ work'.q = q),
             native' = native \/ (samples' = samples /\ work'.q = work.q),
             samples' = samples \/ work'.q = work.q
      PROVE  OneLive' /\ ShapedLive'
  <2>1. LiveAnswered' = LiveAnswered
    BY <1>5, <1>9
  <2>2. /\ native' = native => LiveIn(native)' = LiveIn(native)
        /\ samples' = samples => LiveIn(samples)' = LiveIn(samples)
        /\ work'.q = work.q => LiveIn({work.q})' = LiveIn({work.q})
    BY <1>7 DEF LiveIn
  <2>3. /\ native' = native \cup {q} =>
             LiveIn(native)' = IF Live(q) THEN LiveIn(native) \cup {q} ELSE LiveIn(native)
        /\ samples' = samples \cup {q} =>
             LiveIn(samples)' = IF Live(q) THEN LiveIn(samples) \cup {q} ELSE LiveIn(samples)
    BY <1>7 DEF LiveIn
  <2>4. work = NoWork /\ work'.q = q =>
          LiveIn({work.q})' = (IF Live(q) THEN {q} ELSE {}) /\ LiveIn({work.q}) = {}
    BY <1>7, NoCallRests DEF LiveIn, NoWork
  <2>5. Alone({q}) /\ Alone({})
    BY DEF Alone
  <2>6. OneLive'
    BY <1>6, <1>9, <2>1, <2>2, <2>3, <2>4, <2>5 DEF OneLive, OneAmong, Either
  <2>7. Flying' \subseteq Flying
    BY <1>2, <1>9 DEF Flying, Held
  <2>. QED BY <1>1, <2>6, <2>7, ShapesStay
<1>10. CASE Unreplied
  BY <1>3, <1>8, <1>9, <1>10 DEF Handled, Unreplied, ToNative, ToSamples, ToWork
<1>. QED BY <1>3, <1>8, <1>10 DEF Handled

(* So does one that leaves the main process, or its waiting place. *)
LEMMA LockLeaves ==
  ASSUME CallInvariant, CallInvariant', OneLive, ShapedLive, NEW q \in Calls, Left(q)
  PROVE  OneLive' /\ ShapedLive'
<1> DEFINE A == LiveAnswers(since)
<1>1. /\ QueuesTyped /\ QueuesTyped' /\ outbox \in Seq(Answers)
      /\ inbox' = inbox /\ since' = since /\ LockLeft /\ q \in Held /\ Leaves(q)
  BY DEF CallInvariant, QueuesTyped, Left, pageVars, LockLeft
<1>2. \A r \in Answers : r.of = q => (r \in A <=> Live(q))
  BY DEF Live, LiveAnswers, Locking
<1>3. LiveSent' = LiveSent /\ LiveAnswered = At(outbox, A) /\ LiveAnswered' = At(outbox', A)
  BY <1>1, LiveQueues, LiveQueuesNext
<1> HIDE DEF A
<1>4. /\ LiveIn(native)' = {p \in native' : Live(p)} /\ LiveIn(samples)' = {p \in samples' : Live(p)}
      /\ LiveIn({work.q})' = {p \in {work'.q} : Live(p)}
  BY <1>1, LiveStays
<1>5. /\ native' = native => LiveIn(native)' = LiveIn(native)
      /\ samples' = samples => LiveIn(samples)' = LiveIn(samples)
      /\ work' = work => LiveIn({work.q})' = LiveIn({work.q})
  BY <1>4 DEF LiveIn
<1>6. /\ native' = native \ {q} => LiveIn(native)' = LiveIn(native) \ {q}
      /\ samples' = samples \ {q} => LiveIn(samples)' = LiveIn(samples) \ {q}
  BY <1>4 DEF LiveIn
<1>7. /\ Live(q) /\ q \in native => q \in LiveIn(native)
      /\ Live(q) /\ q \in samples => q \in LiveIn(samples)
      /\ Live(q) /\ q = work.q => q \in LiveIn({work.q})
      /\ ~Live(q) => q \notin LiveIn(native) /\ q \notin LiveIn(samples)
  BY DEF LiveIn
<1>8. work = NoWork => LiveIn({work.q}) = {}
  BY NoCallRests DEF LiveIn, NoWork
<1>9. /\ work' = NoWork => LiveIn({work.q})' = {}
      /\ work'.q = q => LiveIn({work.q})' = IF Live(q) THEN {q} ELSE {}
  <2>1. \A x : {p \in {x} : Live(p)} = IF Live(x) THEN {x} ELSE {}
    OBVIOUS
  <2>2. work' = NoWork => work'.q = NoCall
    BY DEF NoWork
  <2>. QED BY <1>4, <2>1, <2>2, NoCallRests
<1>10. Alone({q}) /\ Alone({})
  BY DEF Alone
<1>11. ASSUME NEW S, q \in S, Alone(S) PROVE S \ {q} = {}
  BY <1>11 DEF Alone
<1>12. /\ native' = native \ {q} /\ q \in native =>
            IF Live(q) THEN LiveIn(native) # {} /\ (Alone(LiveIn(native)) => LiveIn(native)' = {})
            ELSE LiveIn(native)' = LiveIn(native)
       /\ samples' = samples \ {q} /\ q \in samples =>
            IF Live(q) THEN LiveIn(samples) # {} /\ (Alone(LiveIn(samples)) => LiveIn(samples)' = {})
            ELSE LiveIn(samples)' = LiveIn(samples)
  BY <1>6, <1>7, <1>11
<1>13. CASE Replied(q) /\ \/ q \in native /\ native' = native \ {q} /\ UNCHANGED <<samples, work>>
                          \/ q \in samples /\ samples' = samples \ {q} /\ UNCHANGED <<native, work>>
                          \/ q = work.q /\ work' = NoWork /\ UNCHANGED <<native, samples>>
  <2>1. PICK r \in Answers : outbox' = Append(outbox, r) /\ r.of = q
    BY <1>13 DEF Replied, Reply
  <2>2. Range(outbox') = Range(outbox) \cup {r}
    BY <1>1, <2>1, AppendedRange
  <2>3. /\ ~Live(q) => LiveAnswered' = LiveAnswered
        /\ LiveAnswered = {} => Alone(LiveAnswered')
    BY <1>1, <1>2, <1>3, <2>1, LiveGrows
  <2>4. ASSUME q \in native, native' = native \ {q}, UNCHANGED <<samples, work>> PROVE OneLive'
    BY <1>3, <1>5, <1>10, <1>12, <2>3, <2>4 DEF OneLive, OneAmong, Either
  <2>5. ASSUME q \in samples, samples' = samples \ {q}, UNCHANGED <<native, work>> PROVE OneLive'
    BY <1>3, <1>5, <1>10, <1>12, <2>3, <2>5 DEF OneLive, OneAmong, Either
  <2>6. ASSUME q = work.q, work' = NoWork, UNCHANGED <<native, samples>> PROVE OneLive'
    BY <1>3, <1>5, <1>7, <1>9, <1>10, <2>3, <2>6 DEF OneLive, OneAmong, Either
  <2>7. OneLive'
    BY <1>13, <2>4, <2>5, <2>6
  <2>8. \A p \in Flying' : p \in Flying \/ p = NoCall
    BY <1>1, <1>13, <2>2, <2>1 DEF Flying, Held, NoWork
  <2>. QED BY <1>1, <2>7, <2>8, ShapesStay, NoCallRests
<1>14. CASE ToWork(q) /\ Unreplied /\ \/ q \in native /\ native' = native \ {q} /\ UNCHANGED samples
                                      \/ q \in samples /\ samples' = samples \ {q} /\ UNCHANGED native
  <2>1. outbox' = outbox /\ work = NoWork /\ work'.q = q /\ LiveAnswered' = LiveAnswered
    BY <1>3, <1>14 DEF Unreplied, ToWork
  <2>2. ASSUME q \in native, native' = native \ {q}, UNCHANGED samples PROVE OneLive'
    BY <1>3, <1>5, <1>8, <1>9, <1>10, <1>12, <2>1, <2>2 DEF OneLive, OneAmong, Either
  <2>3. ASSUME q \in samples, samples' = samples \ {q}, UNCHANGED native PROVE OneLive'
    BY <1>3, <1>5, <1>8, <1>9, <1>10, <1>12, <2>1, <2>3 DEF OneLive, OneAmong, Either
  <2>4. Flying' \subseteq Flying
    BY <1>1, <1>14, <2>1 DEF Flying, Held
  <2>. QED BY <1>1, <1>14, <2>2, <2>3, <2>4, ShapesStay
<1>. QED BY <1>1, <1>13, <1>14 DEF Leaves

(* A gesture takes the lock when no function has it. *)
LEMMA LockGestured ==
  ASSUME CallInvariant, CallInvariant', OneLive, ShapedLive, GestureMade
  PROVE  OneLive' /\ ShapedLive'
<1> DEFINE L == LiveCalls(since)
<1>1. /\ QueuesTyped /\ QueuesTyped' /\ inbox \in Seq(Calls) /\ outbox' = outbox /\ since' = since
      /\ native' = native /\ samples' = samples /\ work' = work /\ gestures \in Nat /\ since <= gestures
      /\ since \in Nat
  BY DEF CallInvariant, QueuesTyped, GestureMade, GestureKeeps, workVars
<1>2. /\ LiveAnswered' = LiveAnswered /\ LiveIn(native)' = LiveIn(native)
      /\ LiveIn(samples)' = LiveIn(samples) /\ LiveIn({work.q})' = LiveIn({work.q})
  BY <1>1 DEF LiveAnswered, Live, LiveIn
<1>3. LiveSent = At(inbox, L) /\ LiveSent' = At(inbox', L)
  BY <1>1, LiveQueues, LiveQueuesNext
<1> HIDE DEF L
<1>4. CASE LockLeft /\ inbox' = inbox
  <2>1. Flying' = Flying /\ LiveSent' = LiveSent
    BY <1>1, <1>3, <1>4 DEF Flying, Held
  <2>2. OneLive'
    BY <1>2, <2>1 DEF OneLive
  <2>. QED BY <1>1, <1>4, <2>1, <2>2, ShapesStay
<1>5. ASSUME NEW q, Sent(q)
      PROVE  /\ q \in Calls /\ inbox' = Append(inbox, q) /\ Flying' = Flying \cup {q}
             /\ Range(inbox') = Range(inbox) \cup {q}
  <2>1. Range(inbox') = Range(inbox) \cup {q}
    BY <1>1, <1>5, AppendedRange DEF Sent
  <2>. QED BY <1>1, <1>5, <2>1 DEF Flying, Held, Sent
<1>6. ASSUME LockLeft, NEW q, Sent(q), q.by \notin Locking PROVE OneLive' /\ ShapedLive'
  <2>1. q \notin L /\ ~Live(q)
    BY <1>6 DEF L, LiveCalls, Live, Locking
  <2>2. LiveSent' = LiveSent
    <3>1. q \in Calls /\ inbox' = Append(inbox, q)
      BY <1>5, <1>6
    <3>. QED BY <1>1, <1>3, <2>1, <3>1, LiveGrows
  <2>3. OneLive'
    BY <1>2, <2>2 DEF OneLive
  <2>. QED BY <1>1, <1>5, <1>6, <2>1, <2>3, ShapesStay
<1>7. ASSUME NEW q, Sent(q), LockTaken(q) PROVE OneLive' /\ ShapedLive'
  <2>1. \A p \in Flying : ~Live(p)
    BY <1>7 DEF ShapedLive, Shaped, LockTaken
  <2>2. LiveSent = {}
    BY <2>1, NoneLive DEF Flying
  <2>3. LiveAnswered = {} /\ LiveIn(native) = {} /\ LiveIn(samples) = {} /\ LiveIn({work.q}) = {}
    BY <2>1, NoneLive DEF Flying, Held, LiveIn
  <2>4. Alone(LiveSent') /\ Alone({})
    <3>1. q \in Calls /\ inbox' = Append(inbox, q)
      BY <1>5, <1>7
    <3>2. Alone(LiveSent')
      BY <1>1, <1>3, <2>2, <3>1, LiveGrows
    <3>. QED BY <3>2 DEF Alone
  <2>5. OneLive'
    BY <1>2, <2>3, <2>4 DEF OneLive, OneAmong, Either
  <2>6. Shaped(q)'
    BY <1>7 DEF LockTaken, Shaped
  <2>7. \A p : Live(p)' <=> Live(p)
    BY <1>1 DEF Live
  <2>8. ShapedLive'
    BY <1>5, <1>7, <2>1, <2>6, <2>7 DEF ShapedLive
  <2>. QED BY <2>5, <2>8
<1>. QED BY <1>4, <1>6, <1>7 DEF GestureMade

(* A page that is loaded anew has no function under way. *)
LEMMA LockReloads ==
  ASSUME CallInvariant, CallInvariant', Reloaded
  PROVE  OneLive' /\ ShapedLive'
<1> DEFINE q == Loading(gestures + 1)
<1>1. /\ QueuesTyped /\ inbox \in Seq(Calls) /\ gestures \in Nat /\ inbox' = Append(inbox, q)
      /\ since' = gestures + 1 /\ outbox' = outbox /\ native' = native /\ samples' = samples
      /\ work' = work /\ \A p \in Flying : p.id <= gestures
  BY DEF CallInvariant, QueuesTyped, Reloaded, workVars
<1>2. q.by \notin Locking /\ q \in Calls
  <2>1. <<"both", 0>> \in Subjects \X Nat /\ <<"load", "refresh">> \in Kinds /\ "both" \in Parted
    BY DEF Subjects, Parted, Kinds
  <2>2. gestures + 1 \in Nat \ {0}
    BY <1>1
  <2>. QED BY <2>1, <2>2, CallTyped DEF Loading, Call, Locking
<1> HIDE DEF q
<1>3. Flying' = Flying \cup {q}
  <2>1. Range(inbox') = Range(inbox) \cup {q}
    BY <1>1, <1>2, AppendedRange
  <2>. QED BY <1>1, <2>1 DEF Flying, Held
<1>4. \A p \in Flying : p.id \in Nat
  <2>1. \A p \in Calls : p.id \in Nat
    BY CallFields
  <2>2. Range(inbox) \subseteq Calls /\ Range(outbox) \subseteq Answers
    BY <1>1 DEF QueuesTyped, Range
  <2>3. \A r \in Answers : r.of \in Calls
    BY AnswerFields
  <2>4. \A p \in Held : p \in Calls \/ p = NoCall
    BY CallParts DEF HeldTyped, Held
  <2>5. NoCall.id \in Nat
    BY DEF NoCall
  <2>. QED BY <2>1, <2>2, <2>3, <2>4, <2>5 DEF Flying
<1>5. ASSUME NEW p \in Flying' PROVE ~Live(p)'
  <2>1. CASE p = q
    BY <1>2, <2>1 DEF Live, Locking
  <2>2. CASE p \in Flying
    <3>1. p.id \in Nat /\ p.id <= gestures
      BY <1>1, <1>4, <2>2
    <3>2. ~(p.id >= gestures + 1)
      BY <1>1, <3>1
    <3>. QED BY <1>1, <3>2 DEF Live
  <2>. QED BY <1>3, <1>5, <2>1, <2>2
<1>6. ShapedLive'
  BY <1>5 DEF ShapedLive
<1>7. (LiveSent = {} /\ LiveAnswered = {} /\ LiveIn(native) = {} /\ LiveIn(samples) = {}
         /\ LiveIn({work.q}) = {})'
  <2>1. LiveSent' = {}
    BY <1>5 DEF Flying, LiveSent, Range
  <2>2. LiveAnswered' = {}
    BY <1>5 DEF Flying, LiveAnswered, Range
  <2>3. LiveIn(native)' = {} /\ LiveIn(samples)' = {} /\ LiveIn({work.q})' = {}
    BY <1>5 DEF Flying, Held, LiveIn
  <2>. QED BY <2>1, <2>2, <2>3
<1>8. Alone({})
  BY DEF Alone
<1>9. OneLive'
  BY <1>7, <1>8 DEF OneLive, OneAmong, Either
<1>. QED BY <1>6, <1>9

(* An answer to the function that has the lock ends it, or starts its next call. *)
LEMMA LockDelivers ==
  ASSUME CallInvariant, CallInvariant', OneLive, ShapedLive, Delivered
  PROVE  OneLive' /\ ShapedLive'
<1> DEFINE r == Head(outbox)
           L == LiveCalls(since)
           A == LiveAnswers(since)
<1>1. /\ QueuesTyped /\ QueuesTyped' /\ inbox \in Seq(Calls) /\ outbox \in Seq(Answers)
      /\ outbox # <<>> /\ outbox' = Tail(outbox) /\ since' = since
      /\ native' = native /\ samples' = samples /\ work' = work
  BY DEF CallInvariant, QueuesTyped, Delivered, workVars
<1>2. r \in Answers /\ r \in Range(outbox) /\ Range(outbox') \subseteq Range(outbox)
  BY <1>1, TakenRange
<1>3. r.of \in Calls /\ r.of.id \in Nat /\ since \in Nat /\ <<r.of.by, r.of.call>> \in Kinds
  BY <1>2, AnswerFields, CallFields DEF CallInvariant
<1>4. Live(r.of) <=> r \in A
  BY <1>2, <1>3 DEF Live, LiveAnswers, Locking
<1>5. /\ LiveSent = At(inbox, L) /\ LiveAnswered = At(outbox, A)
      /\ LiveSent' = At(inbox', L) /\ LiveAnswered' = At(outbox', A)
  BY <1>1, LiveQueues, LiveQueuesNext
<1>6. (UNCHANGED <<ui, inbox>> /\ r.of.id < since) \/ (r.of.id >= since /\ LockCourse(r))
  BY DEF Delivered, Learned
<1> HIDE DEF r, L, A
<1>7. /\ LiveAnswered = {} => LiveAnswered' = {}
      /\ Alone(LiveAnswered) => Alone(LiveAnswered')
      /\ Live(r.of) => LiveAnswered # {} /\ (Alone(LiveAnswered) => LiveAnswered' = {})
  BY <1>1, <1>4, <1>5, LiveShrinks DEF r
<1>8. /\ LiveIn(native)' = LiveIn(native) /\ LiveIn(samples)' = LiveIn(samples)
      /\ LiveIn({work.q})' = LiveIn({work.q})
  BY <1>1 DEF LiveIn, Live
<1>9. ASSUME inbox' = inbox PROVE LiveSent' = LiveSent /\ Flying' \subseteq Flying
  BY <1>1, <1>2, <1>5, <1>9 DEF Flying, Held
<1>10. ASSUME NEW q \in Calls, inbox' = Append(inbox, q)
       PROVE  Range(inbox') = Range(inbox) \cup {q} /\ Flying' \subseteq Flying \cup {q}
  <2>1. Range(inbox') = Range(inbox) \cup {q}
    BY <1>1, <1>10, AppendedRange
  <2>. QED BY <1>1, <1>2, <2>1 DEF Flying, Held
<1>11. CASE LockLeft /\ inbox' = inbox
  <2>1. OneLive'
    BY <1>7, <1>8, <1>9, <1>11 DEF OneLive, OneAmong, Either
  <2>. QED BY <1>1, <1>9, <1>11, <2>1, ShapesStay
<1>12. ASSUME LockLeft, r.of.by \notin Locking, NEW q, NewCall(q, r)
       PROVE  OneLive' /\ ShapedLive'
  <2>1. q \in Calls /\ inbox' = Append(inbox, q) /\ q.by \notin Locking
    BY <1>12 DEF NewCall
  <2>2. q \notin L /\ ~Live(q)
    BY <2>1 DEF L, LiveCalls, Live, Locking
  <2>3. LiveSent' = LiveSent
    BY <1>1, <1>5, <2>1, <2>2, LiveGrows
  <2>4. OneLive'
    BY <1>7, <1>8, <2>3 DEF OneLive, OneAmong, Either
  <2>. QED BY <1>1, <1>10, <1>12, <2>1, <2>2, <2>4, ShapesStay
<1>13. ASSUME r.of.id >= since, r.of.by \in Locking
       PROVE  /\ Live(r.of) /\ Shaped(r.of) /\ LiveSent = {} /\ LiveAnswered' = {} /\ LiveIn(native) = {}
              /\ LiveIn(samples) = {} /\ LiveIn({work.q}) = {}
              /\ \A p \in Flying' : p \in Range(inbox') \/ ~Live(p)
  <2>1. Live(r.of) /\ r.of \in Flying
    BY <1>2, <1>13 DEF Live, Locking, Flying
  <2>2. /\ LiveSent = {} /\ LiveAnswered' = {} /\ LiveIn(native) = {}
        /\ LiveIn(samples) = {} /\ LiveIn({work.q}) = {}
    BY <1>7, <2>1 DEF OneLive, OneAmong, Either
  <2>3. \A p \in Flying' : p \in Range(inbox') \/ ~Live(p)
    BY <1>1, <2>2, NoneLiveNext DEF Flying, Held, LiveIn
  <2>. QED BY <2>1, <2>2, <2>3 DEF ShapedLive
<1>14. Alone({})
  BY DEF Alone
<1>15. \A p : Live(p)' <=> Live(p)
  BY <1>1 DEF Live
<1>16. ASSUME r.of.id >= since, r.of.by \in Locking, inbox' = inbox
       PROVE  OneLive' /\ ShapedLive'
  <2>1. OneLive'
    BY <1>8, <1>9, <1>13, <1>14, <1>16 DEF OneLive, OneAmong, Either
  <2>2. \A p \in Range(inbox') : ~Live(p)
    BY <1>13, <1>16, NoneLive
  <2>3. ShapedLive'
    BY <1>13, <1>15, <1>16, <2>2 DEF ShapedLive
  <2>. QED BY <2>1, <2>3
<1>17. ASSUME r.of.id >= since, r.of.by \in Locking, r.status # "busy", ui'.lock = ui.lock,
              ui'.preview = After(r), NEW q, NewCall(q, r),
              q.call = IF r.of.call = "dismiss" THEN "prepare" ELSE "refresh"
       PROVE  OneLive' /\ ShapedLive'
  <2>1. q \in Calls /\ inbox' = Append(inbox, q) /\ q.by = r.of.by /\ <<q.by, q.call>> \in Kinds
    BY <1>17, CallFields DEF NewCall
  <2>2. Alone(LiveSent')
    BY <1>1, <1>5, <1>13, <1>17, <2>1, LiveGrows
  <2>3. OneLive'
    BY <1>8, <1>13, <1>14, <1>17, <2>2 DEF OneLive, OneAmong, Either
  <2>4. \A p \in Range(inbox') : p = q \/ ~Live(p)
    BY <1>10, <1>13, <1>17, <2>1, NoneLive
  <2>5. r.of.call # "prepare"
    BY <1>3, <1>17, <2>1 DEF Kinds
  <2>6. r.of.by # "confirm" => r.of.call # "confirm"
    BY <1>3 DEF Kinds
  <2>7. ui'.preview = 0 /\ ui'.lock
    BY <1>13, <1>17, <2>5, <2>6 DEF After, Shaped
  <2>8. Shaped(q)'
    BY <1>17, <2>7 DEF Shaped
  <2>9. ShapedLive'
    BY <1>13, <1>15, <1>17, <2>4, <2>8 DEF ShapedLive
  <2>. QED BY <2>3, <2>9
<1>18. CASE UNCHANGED <<ui, inbox>>
  BY <1>11, <1>18 DEF LockLeft
<1>19. CASE r.of.id >= since /\ LockCourse(r)
  BY <1>11, <1>12, <1>16, <1>17, <1>19 DEF LockCourse
<1>. QED BY <1>6, <1>18, <1>19

(* The calls of the page that is shown come after those of an earlier one. *)
LEMMA OrderStep ==
  ASSUME CallInvariant, CallInvariant', Ordered, Course
  PROVE  Ordered'
<1>1. /\ inbox \in Seq(Calls) /\ outbox \in Seq(Answers) /\ Len(inbox) \in Nat
      /\ DOMAIN inbox = 1 .. Len(inbox) /\ gestures \in Nat /\ since \in Nat /\ since <= gestures
  BY DEF CallInvariant
<1>2. ASSUME inbox' = inbox, since' = since PROVE Ordered'
  BY <1>2 DEF Ordered
<1>3. ASSUME NEW q \in Calls, inbox' = Append(inbox, q), since' = since, q.id >= since
      PROVE  Ordered'
  <2>1. /\ DOMAIN inbox' = 1 .. Len(inbox) + 1 /\ inbox'[Len(inbox) + 1] = q
        /\ \A i \in 1 .. Len(inbox) : inbox'[i] = inbox[i]
    BY <1>1, <1>3
  <2>2. ASSUME NEW i \in DOMAIN inbox', NEW j \in DOMAIN inbox', i < j, inbox'[i].id >= since
        PROVE  inbox'[j].id >= since
    <3>1. CASE j = Len(inbox) + 1
      BY <1>3, <2>1, <3>1
    <3>2. CASE j # Len(inbox) + 1
      <4>1. i \in DOMAIN inbox /\ j \in DOMAIN inbox
        BY <1>1, <2>1, <2>2, <3>2
      <4>2. inbox'[i] = inbox[i] /\ inbox'[j] = inbox[j]
        BY <1>1, <2>1, <4>1
      <4>. QED BY <2>2, <4>1, <4>2 DEF Ordered
    <3>. QED BY <3>1, <3>2
  <2>. QED BY <1>3, <2>2 DEF Ordered
<1>4. CASE GestureMade
  <2>1. since' = since
    BY <1>4 DEF GestureMade, GestureKeeps
  <2>2. ASSUME NEW q, Sent(q) PROVE Ordered'
    BY <1>1, <1>3, <2>1, <2>2 DEF Sent
  <2>. QED BY <1>2, <1>4, <2>1, <2>2 DEF GestureMade
<1>5. CASE Reloaded
  <2> DEFINE q == Loading(gestures + 1)
  <2>1. inbox' = Append(inbox, q) /\ since' = gestures + 1
    BY <1>5 DEF Reloaded
  <2> HIDE DEF q
  <2>2. /\ DOMAIN inbox' = 1 .. Len(inbox) + 1
        /\ \A i \in 1 .. Len(inbox) : inbox'[i] = inbox[i]
    BY <1>1, <2>1
  <2>3. \A i \in DOMAIN inbox : inbox[i].id \in Nat /\ inbox[i].id <= gestures
    <3>1. \A i \in DOMAIN inbox : inbox[i] \in Calls /\ inbox[i] \in Flying
      BY <1>1 DEF Flying, Range
    <3>2. \A p \in Calls : p.id \in Nat
      BY CallFields
    <3>3. \A p \in Flying : p.id <= gestures
      BY DEF CallInvariant
    <3>. QED BY <3>1, <3>2, <3>3
  <2>4. ASSUME NEW i \in DOMAIN inbox', NEW j \in DOMAIN inbox', i < j, inbox'[i].id >= since'
        PROVE  FALSE
    <3>1. i \in DOMAIN inbox /\ inbox'[i] = inbox[i]
      BY <1>1, <2>2, <2>4
    <3>. QED BY <1>1, <2>1, <2>3, <2>4, <3>1
  <2>. QED BY <2>4 DEF Ordered
<1>6. CASE Handles
  <2>1. inbox # <<>> /\ inbox' = Tail(inbox) /\ since' = since
    BY <1>6 DEF Handles, pageVars
  <2>2. Len(inbox') = Len(inbox) - 1 /\ \A i \in 1 .. Len(inbox) - 1 : inbox'[i] = inbox[i + 1]
    BY <1>1, <2>1, HeadTailProperties
  <2>3. DOMAIN inbox' = 1 .. Len(inbox) - 1
    BY <1>1, <2>1, <2>2, HeadTailProperties
  <2>4. ASSUME NEW i \in DOMAIN inbox', NEW j \in DOMAIN inbox', i < j, inbox'[i].id >= since
        PROVE  inbox'[j].id >= since
    <3>1. i + 1 \in DOMAIN inbox /\ j + 1 \in DOMAIN inbox /\ i + 1 < j + 1
      BY <1>1, <2>3, <2>4
    <3>2. inbox'[i] = inbox[i + 1] /\ inbox'[j] = inbox[j + 1]
      BY <2>2, <2>3
    <3>. QED BY <2>4, <3>1, <3>2 DEF Ordered
  <2>. QED BY <2>1, <2>4 DEF Ordered
<1>7. CASE \E q \in Calls : Left(q)
  BY <1>2, <1>7 DEF Left, pageVars
<1>8. CASE Delivered
  <2> DEFINE r == Head(outbox)
  <2>1. since' = since
    BY <1>8 DEF Delivered
  <2>2. inbox' = inbox \/ (r.of.id >= since /\ \E q : NewCall(q, r))
    BY <1>8 DEF Delivered, Learned, LockCourse
  <2> HIDE DEF r
  <2>3. ASSUME r.of.id >= since, NEW q, NewCall(q, r) PROVE Ordered'
    BY <1>3, <2>1, <2>3 DEF NewCall
  <2>. QED BY <1>2, <2>1, <2>2, <2>3
<1>9. CASE Stays
  BY <1>2, <1>9 DEF Stays, pageVars
<1>. QED BY <1>4, <1>5, <1>6, <1>7, <1>8, <1>9 DEF Course

(* So at any time one function has the lock, or none. *)
LEMMA LockStep ==
  ASSUME CallInvariant, CallInvariant', LockInvariant, Course
  PROVE  LockInvariant'
<1>1. OneLive /\ ShapedLive /\ Ordered
  BY LockParts
<1>2. Ordered'
  BY <1>1, OrderStep
<1>3. CASE Stays
  <2>1. UNCHANGED <<inbox, outbox, native, samples, ui, since>> /\ work'.q = work.q
    BY <1>3 DEF Stays, pageVars
  <2>2. OneLive'
    BY <1>1, <2>1 DEF OneLive, LiveSent, LiveAnswered, LiveIn, Live
  <2>3. ShapedLive'
    BY <1>1, <2>1 DEF ShapedLive, Flying, Held, Live, Shaped
  <2>. QED BY <1>2, <2>2, <2>3, LockPartsNext
<1>4. (OneLive' /\ ShapedLive') \/ Stays
  BY <1>1, LockGestured, LockReloads, LockHandles, LockLeaves, LockDelivers DEF Course
<1>. QED BY <1>2, <1>3, <1>4, LockPartsNext

(* None has it when the page has been loaded. *)
LEMMA LockInit ==
  ASSUME Init
  PROVE  LockInvariant
<1>1. inbox = <<>> /\ outbox = <<>> /\ native = {} /\ samples = {} /\ work = NoWork
  BY DEF Init
<1>2. DOMAIN inbox = {} /\ DOMAIN outbox = {}
  BY <1>1
<1>3. /\ LiveSent = {} /\ LiveAnswered = {} /\ LiveIn(native) = {} /\ LiveIn(samples) = {}
      /\ LiveIn({work.q}) = {}
  BY <1>1, <1>2, NoCallRests DEF LiveSent, LiveAnswered, LiveIn, NoWork
<1>4. OneLive
  <2>1. Alone({})
    BY DEF Alone
  <2>. QED BY <1>3, <2>1 DEF OneLive, OneAmong, Either
<1>5. ShapedLive /\ Ordered
  BY <1>1, <1>2, NoCallRests DEF ShapedLive, Ordered, Flying, Held, Range, NoWork
<1>. QED BY <1>4, <1>5, LockParts

-----------------------------------------------------------------------------
(* What a step does to the previews *)

Calm == UNCHANGED tokenVars
Shrinks == UNCHANGED issued /\ due' \in 0 .. issued /\ Shrunk(tokens, tokens')
Spends(q) == Shrinks /\ q.arg[2] \notin Pending(tokens')
Clears == Shrinks /\ Pending(tokens') = {}
Ages == Shrinks /\ (Lasts(tokens, issued) => Lasts(tokens', issued))
Grows ==
  /\ issued' = issued + 1 /\ due' = due /\ Table(tokens') /\ Pending(tokens') \subseteq {issued + 1}
  /\ Lasts(tokens', issued + 1)
Answering(q, r) == r \in Answers /\ r.of = q /\ outbox' = Append(outbox, r)

\* The handlers,
ServesWith(q, r) ==
  /\ Answering(q, r) /\ UNCHANGED native /\ work'.q = work.q
  /\ \/ Calm /\ q.call # "dismiss" /\ (q.call \in {"prepare", "confirm"} => r.status = "busy")
     \/ q.call = "confirm" /\ r.status # "busy" /\ Spends(q)
     \/ q.call = "dismiss" /\ Spends(q)
ServesLater(q) ==
  /\ outbox' = outbox
  /\ \/ q.call \in {"purge", "clear"} /\ native' = native \cup {q} /\ UNCHANGED work /\ Calm
     \/ q.call = "prepare" /\ NotBusy /\ native' = native \cup {q} /\ UNCHANGED work /\ Clears
     \/ q.call = "sample" /\ UNCHANGED <<native, work>> /\ Clears
     \/ /\ q.call = "confirm" /\ NotBusy /\ work'.q = q /\ UNCHANGED native /\ Spends(q)
ServeTurn(q) == (\E r : ServesWith(q, r)) \/ ServesLater(q)
\* and what ends.
EndsWith(q, r) ==
  /\ Answering(q, r)
  /\ \/ q \in native /\ native' = native \ {q} /\ UNCHANGED work /\ Calm /\ r.token = 0
     \/ q \in samples /\ UNCHANGED <<native, work>> /\ Calm
     \/ /\ work # NoWork /\ q = work.q /\ work' = NoWork /\ UNCHANGED native
        /\ \/ q.call = "prepare" /\ Calm /\ r.token = 0
           \/ q.call = "prepare" /\ Grows /\ r.token = issued + 1
           \/ q.call = "confirm" /\ Shrinks /\ r.status # "busy"
           \/ q.call = "sample" /\ Calm
Begins(q) ==
  /\ outbox' = outbox /\ Calm /\ work = NoWork /\ work'.q = q
  /\ \/ q.call = "prepare" /\ q \in native /\ native' = native \ {q}
     \/ q.call = "sample" /\ q \in samples /\ UNCHANGED native
EndTurn(q) == (\E r : EndsWith(q, r)) \/ Begins(q)

Turn ==
  \/ GestureMade \/ Reloaded \/ Delivered
  \/ Handles /\ ServeTurn(Head(inbox))
  \/ \E q \in Calls : Left(q) /\ EndTurn(q)
  \/ Stays /\ Ages

(* The table in the terms of its lemmas. *)
LEMMA TokensTable ==
  TokensTyped <=>
    issued \in Nat /\ due \in 0 .. issued /\ DOMAIN tokens \subseteq 1 .. issued /\ Table(tokens)
BY DEF TokensTyped, Table

(* Without a change nothing is added. *)
LEMMA CalmShrinks ==
  ASSUME TokensTyped, Calm
  PROVE  Shrinks /\ Ages
BY TokensTable DEF Calm, tokenVars, Shrinks, Ages, Shrunk, Pending, InState, Lasts, Table

(* The handlers and the previews. *)
LEMMA ServedTurn ==
  ASSUME CallInvariant, TokensTyped, Serve
  PROVE  ServeTurn(Head(inbox))
<1> DEFINE q == Head(inbox)
<1>1. q \in Calls
  BY CallParts, TakenRange DEF QueuesTyped, Serve
<1>2. issued \in Nat /\ due \in 0 .. issued /\ Table(tokens)
  BY TokensTable
<1>3. ASSUME NEW s \in Statuses(q.call), Reply(Answer(q, s))
      PROVE  Answering(q, Answer(q, s)) /\ Answer(q, s).status = s
  BY <1>1, <1>3, PlainAnswer DEF Answering, Reply
<1> HIDE DEF q
<1>4. CASE q.call = "prepare" /\ HandlePrepare(q)
  <2>1. CASE Reply(Answer(q, "busy")) /\ UNCHANGED <<tokens, native>>
    <3>1. Answering(q, Answer(q, "busy")) /\ Answer(q, "busy").status = "busy"
      BY <1>3, <1>4, <2>1 DEF Statuses
    <3>. QED BY <1>4, <2>1, <3>1 DEF HandlePrepare, ServeTurn, ServesWith, Calm, tokenVars, q
  <2>2. CASE /\ NotBusy /\ native' = native \cup {q} /\ UNCHANGED outbox
             /\ tokens' = AbortPendingForSender(tokens, Window, due)
    <3>1. Clears
      BY <1>2, <1>4, <2>2, Dropped DEF HandlePrepare, Clears, Shrinks
    <3>. QED BY <1>4, <2>2, <3>1 DEF HandlePrepare, ServeTurn, ServesLater, q
  <2>. QED BY <1>4, <2>1, <2>2 DEF HandlePrepare
<1>5. CASE q.call = "confirm" /\ HandleConfirm(q)
  <2>1. CASE Reply(Answer(q, "busy")) /\ UNCHANGED <<tokens, work>>
    <3>1. Answering(q, Answer(q, "busy")) /\ Answer(q, "busy").status = "busy"
      BY <1>3, <1>5, <2>1 DEF Statuses
    <3>. QED BY <1>5, <2>1, <3>1 DEF HandleConfirm, ServeTurn, ServesWith, Calm, tokenVars, q
  <2> DEFINE t == TakeForConfirmation(tokens, q.arg[2], due)
  <2>2. Shrunk(tokens, t) /\ q.arg[2] \notin Pending(t)
    BY <1>2, Taken
  <2>3. tokens' = t => Spends(q)
    BY <1>2, <1>5, <2>2 DEF HandleConfirm, Spends, Shrinks
  <2>4. \A j \in DOMAIN t : t[j].state \in States
    BY <2>2 DEF Shrunk, Table
  <2> HIDE DEF t
  <2>5. CASE tokens' = t /\ UNCHANGED work /\ Reply(Answer(q, Confirmed(t, q.arg[2])))
    <3>1. Confirmed(t, q.arg[2]) \in Statuses(q.call) \ {"busy"}
      BY <1>5, <2>4, ConfirmedStatus
    <3>2. /\ Answering(q, Answer(q, Confirmed(t, q.arg[2])))
          /\ Answer(q, Confirmed(t, q.arg[2])).status # "busy"
      BY <1>3, <2>5, <3>1
    <3>. QED BY <1>5, <2>3, <2>5, <3>2 DEF HandleConfirm, ServeTurn, ServesWith, q
  <2>6. CASE /\ NotBusy /\ tokens' = t /\ UNCHANGED outbox
             /\ work' = [q |-> q, aborted |-> FALSE, open |-> TRUE]
    BY <1>5, <2>3, <2>6 DEF HandleConfirm, ServeTurn, ServesLater, q
  <2>. QED BY <1>5, <2>1, <2>5, <2>6 DEF HandleConfirm, t
<1>6. CASE q.call = "dismiss" /\ HandleDismiss(q)
  <2>1. Answering(q, Answer(q, "canceled"))
    BY <1>3, <1>6 DEF HandleDismiss, Statuses
  <2>2. Spends(q)
    BY <1>2, <1>6, Cancelled DEF HandleDismiss, Spends, Shrinks
  <2>. QED BY <1>6, <2>1, <2>2 DEF HandleDismiss, SameWork, workVars, ServeTurn, ServesWith, q
<1>7. CASE q.call = "sample" /\ HandleSample(q)
  <2>1. CASE Reply(Answer(q, "thrown")) /\ UNCHANGED <<tokens, samples>>
    <3>1. Answering(q, Answer(q, "thrown"))
      BY <1>3, <1>7, <2>1 DEF Statuses
    <3>. QED BY <1>7, <2>1, <3>1 DEF HandleSample, ServeTurn, ServesWith, Calm, tokenVars, q
  <2>2. CASE /\ samples' = samples \cup {q} /\ UNCHANGED outbox
             /\ tokens' = AbortPendingForSender(tokens, Window, due)
    <3>1. Clears
      BY <1>2, <1>7, <2>2, Dropped DEF HandleSample, Clears, Shrinks
    <3>. QED BY <1>7, <2>2, <3>1 DEF HandleSample, ServeTurn, ServesLater, q
  <2>. QED BY <1>7, <2>1, <2>2 DEF HandleSample
<1>8. CASE q.call = "cancel" /\ HandleCancel(q)
  <2>1. Answering(q, Answer(q, "requested"))
    BY <1>3, <1>8 DEF HandleCancel, Statuses
  <2>2. work'.q = work.q
    <3>1. work \in [q : Calls \cup {NoCall}, aborted : BOOLEAN, open : BOOLEAN]
      BY DEF CallInvariant
    <3>. QED BY <1>8, <3>1 DEF HandleCancel
  <2>. QED BY <1>8, <2>1, <2>2 DEF HandleCancel, SameTokens, ServeTurn, ServesWith, Calm, q
<1>9. ASSUME q.call \in {"search", "fetch", "refresh", "preparePurge", "purge"},
             Calm, UNCHANGED <<native, work>>, NEW r \in Answers, r.of = q, Reply(r)
      PROVE  ServeTurn(q)
  BY <1>9 DEF ServeTurn, ServesWith, Answering, Reply
<1>10. CASE \/ q.call = "search" /\ HandleSearch(q)
            \/ q.call = "fetch" /\ HandleFetch(q)
            \/ q.call = "refresh" /\ HandleRefresh(q)
            \/ q.call = "preparePurge" /\ HandlePreparePurge(q)
  <2>1. Calm /\ UNCHANGED <<native, work>>
    BY <1>10 DEF HandleSearch, HandleFetch, HandleRefresh, HandlePreparePurge, Calm, SameTokens,
                 SameWork, workVars
  <2>2. Handled(q)
    BY <1>1, <1>10, ReadingHandlers, PurgeHandlers
  <2>3. Replied(q)
    BY <1>10, <2>2 DEF Handled, Replies, ToNative, ToSamples
  <2>. QED BY <1>9, <1>10, <2>1, <2>3 DEF Replied, q
<1>11. CASE q.call = "purge" /\ HandlePurge(q)
  <2>1. Calm /\ UNCHANGED work
    BY <1>11 DEF HandlePurge, Calm, SameTokens
  <2>2. CASE native' = native \cup {q} /\ UNCHANGED outbox
    BY <1>11, <2>1, <2>2 DEF ServeTurn, ServesLater, q
  <2>3. CASE PurgeStatus(q) # "ready" /\ Reply(Answer(q, PurgeStatus(q))) /\ UNCHANGED native
    <3>1. PurgeStatus(q) \in Statuses(q.call)
      BY <1>11, <2>3 DEF PurgeStatus, Statuses
    <3>2. Answering(q, Answer(q, PurgeStatus(q)))
      BY <1>3, <2>3, <3>1
    <3>. QED BY <1>11, <2>1, <2>3, <3>2 DEF ServeTurn, ServesWith, q
  <2>. QED BY <1>11, <2>2, <2>3 DEF HandlePurge
<1>12. CASE q.call = "clear" /\ HandleClear(q)
  BY <1>12 DEF HandleClear, SameTokens, Calm, ServeTurn, ServesLater, q
<1>. QED BY <1>4, <1>5, <1>6, <1>7, <1>8, <1>10, <1>11, <1>12 DEF Serve, q

(* A native dialog and the previews. *)
LEMMA NativeTurn ==
  ASSUME CallInvariant, NEW q \in native, native' = native \ {q},
         AnswerPicker(q) \/ AnswerPurge(q) \/ AnswerClear(q),
         SameTokens, UNCHANGED <<pageVars, inbox, samples, missed>>
  PROVE  EndTurn(q)
<1>1. q \in Calls /\ Left(q) /\ Calm
  BY NativeAnswered DEF Left, Calm, SameTokens
<1>2. CASE AnswerPicker(q)
  <2>1. q.call = "prepare"
    BY <1>2 DEF AnswerPicker
  <2>2. ASSUME NEW s \in {"canceled", "busy"}, Reply(Answer(q, s)), UNCHANGED work PROVE EndTurn(q)
    <3>1. s \in Statuses(q.call)
      BY <2>1, <2>2 DEF Statuses
    <3>2. Answering(q, Answer(q, s)) /\ Answer(q, s).token = 0
      BY <1>1, <2>2, <3>1, PlainAnswer DEF Answering, Reply
    <3>. QED BY <1>1, <2>2, <3>2 DEF EndTurn, EndsWith
  <2>3. CASE work = NoWork /\ work' = [NoWork EXCEPT !.q = q] /\ UNCHANGED outbox
    BY <1>1, <2>1, <2>3 DEF EndTurn, Begins, NoWork
  <2>. QED BY <1>2, <2>2, <2>3 DEF AnswerPicker
<1>3. CASE AnswerPurge(q) \/ AnswerClear(q)
  <2>1. q.call \in {"purge", "clear"} /\ UNCHANGED work
    BY <1>3 DEF AnswerPurge, AnswerClear
  <2>2. Replied(q)
    <3>1. CASE work = NoWork
      BY <1>1, <2>1, <3>1 DEF Left, Leaves
    <3>2. CASE work # NoWork
      BY <1>1, <2>1, <3>2 DEF Left, Leaves, ToWork
    <3>. QED BY <3>1, <3>2
  <2>3. PICK r \in Answers : Reply(r) /\ r.of = q
    BY <2>2 DEF Replied
  <2>4. r.token = 0
    BY <2>1, <2>3, AnswerFields
  <2>. QED BY <1>1, <2>1, <2>3, <2>4 DEF EndTurn, EndsWith, Answering, Reply
<1>. QED BY <1>2, <1>3

(* The end of a scan or an import and the previews. *)
LEMMA SettledTurn ==
  ASSUME CallInvariant, TokensTyped, Settle
  PROVE  EndTurn(work.q)
<1> DEFINE q == work.q
<1>1. q \in Calls /\ work # NoWork /\ work' = NoWork /\ UNCHANGED native
  BY WorkSettled DEF Settle, Left
<1>2. issued \in Nat /\ due \in 0 .. issued /\ DOMAIN tokens \subseteq 1 .. issued /\ Table(tokens)
  BY TokensTable
<1> HIDE DEF q
<1>3. ASSUME NEW s \in Statuses(q.call), Reply(Answer(q, s))
      PROVE  /\ Answering(q, Answer(q, s)) /\ Answer(q, s).status = s /\ Answer(q, s).token = 0
  BY <1>1, <1>3, PlainAnswer DEF Answering, Reply
<1>4. CASE SettleScan
  <2>1. q.call = "prepare" /\ due' = due
    BY <1>4 DEF SettleScan, q
  <2>2. ASSUME NEW s \in {"aborted", "failed"}, Reply(Answer(q, s)), UNCHANGED <<tokens, issued>>
        PROVE  EndTurn(q)
    <3>1. Answering(q, Answer(q, s)) /\ Answer(q, s).token = 0
      BY <1>3, <2>1, <2>2 DEF Statuses
    <3>. QED BY <1>1, <2>1, <2>2, <3>1 DEF EndTurn, EndsWith, Calm, tokenVars, q
  <2>3. ASSUME NEW can \in BOOLEAN, issued' = issued + 1,
               tokens' = Issue(tokens, issued + 1, Window, can, due),
               Reply([Answer(q, "ready") EXCEPT !.token = issued + 1, !.can = can])
        PROVE  EndTurn(q)
    <3> DEFINE b == Answer(q, "ready")
               r == WithToken(b, issued + 1, can)
    <3>1. b \in Answers /\ b.of = q /\ b.status = "ready"
      BY <1>1, <2>1, PlainAnswer DEF Statuses
    <3> HIDE DEF b
    <3>2. issued + 1 \in Nat
      BY <1>2
    <3>3. r \in Answers /\ r.of = q /\ r.token = issued + 1
      BY <2>1, <3>1, <3>2, AnswerToken
    <3>4. outbox' = Append(outbox, r)
      BY <2>3 DEF Reply, b, WithToken
    <3> HIDE DEF r
    <3>5. Grows
      BY <1>2, <2>1, <2>3, Issued DEF Grows
    <3>. QED BY <1>1, <2>1, <3>3, <3>4, <3>5 DEF EndTurn, EndsWith, Answering, q
  <2>. QED BY <1>4, <2>2, <2>3 DEF SettleScan, q
<1>5. CASE SettleConfirm
  <2>1. q.call = "confirm" /\ UNCHANGED <<issued, due>>
    BY <1>5 DEF SettleConfirm, q
  <2>2. ASSUME NEW s \in {"imported", "aborted", "stale-scan"}, Marked(s), Reply(Answer(q, s))
        PROVE  EndTurn(q)
    <3>1. s \in Statuses(q.call) /\ s # "busy" /\ s \in Terminal
      BY <2>1, <2>2 DEF Statuses, States, Terminal
    <3>2. Answering(q, Answer(q, s)) /\ Answer(q, s).status # "busy"
      BY <1>3, <2>2, <3>1
    <3>3. Shrunk(tokens, tokens')
      BY <1>2, <2>2, <3>1, MarkedAs DEF Marked
    <3>. QED BY <1>1, <1>2, <2>1, <3>2, <3>3 DEF EndTurn, EndsWith, Shrinks, q
  <2>. QED BY <1>5, <2>2 DEF SettleConfirm, q
<1>6. CASE SettleSample
  <2>1. q.call = "sample" /\ Calm
    BY <1>6 DEF SettleSample, SameTokens, Calm, q
  <2>2. ASSUME NEW s \in {"imported", "aborted"}, Reply(Answer(q, s)) PROVE EndTurn(q)
    <3>1. Answering(q, Answer(q, s))
      BY <1>3, <2>1, <2>2 DEF Statuses
    <3>. QED BY <1>1, <2>1, <3>1 DEF EndTurn, EndsWith, q
  <2>. QED BY <1>6, <2>2 DEF SettleSample, q
<1>. QED BY <1>4, <1>5, <1>6 DEF Settle, q

(* The sample library and the previews. *)
LEMMA SampleTurn ==
  ASSUME CallInvariant, SampleReady
  PROVE  \E q \in Calls : Left(q) /\ EndTurn(q)
<1>1. PICK q \in samples : Left(q)
  BY SampleLeaves
<1>2. q \in Calls /\ q.call = "sample" /\ Calm /\ UNCHANGED native
  BY <1>1 DEF CallInvariant, SampleReady, SameTokens, Calm
<1>3. PICK p \in samples :
        \/ work = NoWork /\ work' = [NoWork EXCEPT !.q = p] /\ UNCHANGED outbox
           /\ samples' = samples \ {p}
        \/ Reply(Answer(p, "thrown")) /\ UNCHANGED work /\ samples' = samples \ {p}
  BY DEF SampleReady
<1>4. p \in Calls /\ p.call = "sample"
  BY DEF CallInvariant
<1>5. UNCHANGED <<pageVars, inbox, missed>> /\ VaultTyped' /\ p \in Held
  BY <1>1 DEF Left, Held
<1>6. UNCHANGED vaultVars
  BY DEF SampleReady, SameVault
<1>7. CASE work = NoWork /\ work' = [NoWork EXCEPT !.q = p] /\ UNCHANGED outbox
           /\ samples' = samples \ {p}
  <2>1. EndTurn(p)
    BY <1>2, <1>4, <1>7 DEF EndTurn, Begins, NoWork
  <2>2. Left(p)
    BY <1>2, <1>4, <1>5, <1>6, <1>7 DEF Left, Leaves, ToWork, Unreplied, vaultVars, NoWork
  <2>. QED BY <1>4, <2>1, <2>2
<1>8. CASE Reply(Answer(p, "thrown")) /\ UNCHANGED work /\ samples' = samples \ {p}
  <2>1. Answer(p, "thrown") \in Answers /\ Answer(p, "thrown").of = p
    BY <1>4, PlainAnswer DEF Statuses
  <2>2. Replied(p)
    BY <1>4, <1>6, <1>8, AnswerInPeace DEF Statuses
  <2>3. Left(p)
    BY <1>2, <1>4, <1>5, <1>8, <2>2 DEF Left, Leaves
  <2>4. EndTurn(p)
    BY <1>2, <1>8, <2>1 DEF EndTurn, EndsWith, Answering, Reply
  <2>. QED BY <1>4, <2>3, <2>4
<1>. QED BY <1>3, <1>7, <1>8

(* Each step is one of the turns. *)
LEMMA Turns ==
  ASSUME CallInvariant, TokensTyped, [Next]_vars
  PROVE  Turn
<1>1. PageTyped
  BY CallParts
<1>2. CASE Gestures
  <2>1. CASE Reload
    BY <2>1 DEF Reload, Reloaded, Turn
  <2>2. CASE CancelImport \/ Search \/ KeepSource \/ ConfirmPurge \/ ClearHistory \/ RefreshHistory
             \/ Navigate \/ (\E s \in Sources : ViewContext(s) \/ RemoveSource(s))
    BY <1>1, <2>2, FreeGestures DEF Turn
  <2>3. CASE AddFolder \/ ImportSample \/ ConfirmImport \/ CancelPreview \/ ChooseAnother
    BY <1>1, <2>3, LockingGestures DEF Turn
  <2>. QED BY <1>2, <2>1, <2>2, <2>3 DEF Gestures
<1>3. CASE Serve
  BY <1>3, Served, ServedTurn DEF Turn, Handles
<1>4. CASE Deliver
  BY <1>4, DeliverCourse DEF Turn
<1>5. CASE AnswerNative
  <2>1. PICK q \in native : native' = native \ {q} /\ (AnswerPicker(q) \/ AnswerPurge(q) \/ AnswerClear(q))
    BY <1>5 DEF AnswerNative
  <2>2. Left(q)
    BY <1>5, <2>1, NativeAnswered DEF AnswerNative
  <2>3. EndTurn(q)
    BY <1>5, <2>1, NativeTurn DEF AnswerNative
  <2>. QED BY <2>2, <2>3 DEF Turn, Left
<1>6. CASE Settle
  BY <1>6, WorkSettled, SettledTurn DEF Turn, Left
<1>7. CASE SampleReady
  BY <1>7, SampleTurn DEF Turn
<1>8. CASE TokenDue
  <2>1. issued \in Nat /\ due \in 0 .. issued /\ Table(tokens)
    BY TokensTable
  <2>2. due < issued /\ due' = due + 1 /\ issued' = issued
        /\ tokens' = ExpireIfDue(tokens, due + 1, due + 1)
    BY <1>8 DEF TokenDue
  <2>3. due' \in 0 .. issued
    BY <2>1, <2>2
  <2>4. Ages
    BY <2>1, <2>2, <2>3, TimedOut DEF Ages, Shrinks
  <2>5. Stays
    BY <1>8, RestStays DEF TokenDue
  <2>. QED BY <2>4, <2>5 DEF Turn
<1>9. CASE UNCHANGED vars
  <2>1. Stays
    BY <1>9, RestStays DEF vars
  <2>. QED BY <1>9, <2>1, CalmShrinks DEF vars, Turn, Calm, Ages
<1>10. CASE OpenSample
  <2>1. Stays
    BY <1>10, OpenStays
  <2>. QED BY <1>10, <2>1, CalmShrinks DEF OpenSample, Turn, Calm, Ages
<1>. QED BY <1>2, <1>3, <1>4, <1>5, <1>6, <1>7, <1>8, <1>9, <1>10 DEF Next

(* Every turn is a course. *)
LEMMA TurnIsCourse == Turn => Course
BY DEF Turn, Course

(* Previews are only added by a scan. *)
LEMMA TurnTokens ==
  ASSUME TokensTyped, Turn
  PROVE  Shrinks \/ Grows
<1>1. Calm => Shrinks
  BY CalmShrinks
<1>2. CASE GestureMade \/ Reloaded \/ Delivered
  BY <1>1, <1>2 DEF GestureMade, GestureKeeps, Reloaded, Delivered, Calm
<1>3. CASE ServeTurn(Head(inbox))
  BY <1>1, <1>3 DEF ServeTurn, ServesWith, ServesLater, Spends, Clears
<1>4. ASSUME NEW q, EndTurn(q) PROVE Shrinks \/ Grows
  BY <1>1, <1>4 DEF EndTurn, EndsWith, Begins
<1>5. CASE Ages
  BY <1>5 DEF Ages
<1>. QED BY <1>2, <1>3, <1>4, <1>5 DEF Turn

(* The table stays typed. *)
LEMMA TokensStep ==
  ASSUME TokensTyped, Turn
  PROVE  TokensTyped'
<1>1. issued \in Nat /\ due \in 0 .. issued /\ DOMAIN tokens \subseteq 1 .. issued
  BY TokensTable
<1>2. CASE Shrinks
  <2>1. /\ issued' = issued /\ due' \in 0 .. issued /\ DOMAIN tokens' \subseteq DOMAIN tokens
        /\ Table(tokens')
    BY <1>2 DEF Shrinks, Shrunk
  <2>. QED BY <1>1, <2>1 DEF TokensTyped, Table
<1>3. CASE Grows
  <2>1. /\ issued' = issued + 1 /\ due' = due /\ Table(tokens')
        /\ DOMAIN tokens' \subseteq 1 .. issued + 1
    BY <1>3 DEF Grows, Lasts
  <2>. QED BY <1>1, <2>1 DEF TokensTyped, Table
<1>. QED BY <1>2, <1>3, TurnTokens

-----------------------------------------------------------------------------
(* The dialog of a preview *)

(* The elements of a queue are its head and the others. *)
LEMMA HeadOrTail ==
  ASSUME NEW S, NEW s \in Seq(S), s # <<>>
  PROVE  Range(s) \subseteq Range(Tail(s)) \cup {Head(s)}
<1> DEFINE t == Tail(s)
           n == Len(s)
<1>1. n \in Nat /\ n >= 1 /\ DOMAIN s = 1 .. n
  BY EmptySeq
<1>2. t \in Seq(S) /\ Len(t) = n - 1 /\ \A k \in 1 .. Len(t) : t[k] = s[k + 1]
  BY HeadTailProperties
<1>3. Head(s) = s[1]
  OBVIOUS
<1> HIDE DEF t, n
<1>4. DOMAIN t = 1 .. n - 1 /\ \A k \in 1 .. n - 1 : t[k] = s[k + 1]
  BY <1>2
<1>5. \A k \in 1 .. n : k = 1 \/ (k - 1 \in 1 .. n - 1 /\ (k - 1) + 1 = k)
  BY <1>1
<1>6. \A k \in 1 .. n : s[k] \in Range(t) \cup {Head(s)}
  <2>1. ASSUME NEW k \in 1 .. n, k # 1 PROVE s[k] \in Range(t)
    <3>1. k - 1 \in DOMAIN t /\ t[k - 1] = s[k]
      BY <1>4, <1>5, <2>1
    <3>. QED BY <3>1 DEF Range
  <2>. QED BY <1>3, <2>1
<1>7. Range(s) \subseteq Range(t) \cup {Head(s)}
  BY <1>1, <1>6 DEF Range
<1>. QED BY <1>7 DEF t

(* Two functions never have the lock, so a live call and a live answer exclude each other. *)
LEMMA LiveOne ==
  ASSUME OneLive
  PROVE  /\ \A q \in Range(inbox), r \in Range(outbox) : ~(Live(q) /\ Live(r.of))
         /\ \A r \in Range(outbox) : ~(Live(work.q) /\ Live(r.of))
<1>1. Either(LiveSent, LiveAnswered) /\ Either(LiveAnswered, LiveIn({work.q}))
  BY DEF OneLive, OneAmong
<1>2. Live(work.q) => LiveIn({work.q}) # {}
  BY DEF LiveIn
<1>. QED BY <1>1, <1>2, NoneLive DEF Either

(* The calls that change the previews are of functions that take the lock. *)
LEMMA LockingCalls ==
  ASSUME NEW q \in Calls, q.call \in {"prepare", "confirm", "dismiss", "sample"}
  PROVE  /\ q.by \in Locking /\ (Live(q) <=> q.id >= since)
         /\ q.call = "confirm" => q.by = "confirm"
<1>1. <<q.by, q.call>> \in Kinds
  BY CallFields
<1>2. q.by \in Locking /\ (q.call = "confirm" => q.by = "confirm")
  BY <1>1 DEF Kinds, Locking
<1>. QED BY <1>2 DEF Live, Locking

(* A token a preview can show, in the terms of the table's lemmas, *)
LEMMA UsableLasts ==
  ASSUME TokensTyped, NEW k
  PROVE  Usable(k) <=> k = issued /\ Lasts(tokens, issued)
BY DEF Usable, Lasts, TokensTyped

(* and in the next state. *)
LEMMA UsableLastsNext ==
  ASSUME TokensTyped', NEW k
  PROVE  Usable(k)' <=> k = issued' /\ Lasts(tokens', issued')
BY DEF Usable, Lasts, TokensTyped

(* A token that is pending has been issued. *)
LEMMA PendingIssued ==
  ASSUME TokensTyped
  PROVE  issued \in Pending(tokens) => issued # 0
<1>1. DOMAIN tokens \subseteq 1 .. issued /\ issued \in Nat
  BY DEF TokensTyped
<1>2. Pending(tokens) \subseteq DOMAIN tokens
  BY DEF Pending, InState
<1>. QED BY <1>1, <1>2

\* The parts of the invariant.
OnlyLast == Pending(tokens) \subseteq {issued}
ShowsLast == ui.preview # 0 => Behind /\ ui.preview = issued /\ (Consuming \/ Usable(ui.preview))
OffersLast ==
  \A r \in Range(outbox) : Offered(r) =>
    Behind /\ Pending(tokens) \subseteq {r.token} /\ (r.token # 0 => Usable(r.token))
PreparesAlone ==
  /\ \A q \in Preparing : Pending(tokens) = {} /\ (q.id >= since => Behind)
  /\ Alone(Preparing) /\ (work.q.call = "prepare" => ~Picking)
ConsumesLast == Consuming => Pending(tokens) = {}
LastIsKnown ==
  \/ issued \notin Pending(tokens) \/ "preview" \in missed \/ ui.preview = issued
  \/ \E q \in Range(inbox) : q.call = "dismiss" /\ q.arg[2] = issued
  \/ \E r \in Range(outbox) : r.of.call = "prepare" /\ r.token = issued
Dialog == OnlyLast /\ ShowsLast /\ OffersLast /\ PreparesAlone /\ ConsumesLast /\ LastIsKnown

(* The invariant in its parts, *)
LEMMA DialogParts == DialogInvariant <=> TokensTyped /\ Dialog
BY DEF DialogInvariant, TokensTyped, Dialog, OnlyLast, ShowsLast, OffersLast, PreparesAlone,
       ConsumesLast, LastIsKnown

(* and in the next state. *)
LEMMA DialogPartsNext == DialogInvariant' <=> TokensTyped' /\ Dialog'
BY DEF DialogInvariant, TokensTyped, Dialog, OnlyLast, ShowsLast, OffersLast, PreparesAlone,
       ConsumesLast, LastIsKnown

\* What the calls on their way and the calls that are held may become on the same page.
Moves ==
  /\ since' = since
  /\ \A p \in Range(inbox') : p \in Range(inbox) \/ p.id >= since
  /\ \A p \in native' \cup {work'.q} :
       p.call \in {"prepare", "confirm"} => p \in native \cup {work.q} \cup Range(inbox)

(* The main process stays past what an earlier page has asked of it. *)
LEMMA BehindStays ==
  ASSUME Moves, Behind
  PROVE  Behind'
BY DEF Moves, Behind

\* A step that gives a preview to nobody, and takes none.
Undisturbed ==
  /\ Moves /\ Ages /\ ui'.preview = ui.preview /\ missed' = missed
  /\ Range(outbox) \subseteq Range(outbox')
  /\ \A r \in Range(outbox') :
       r \in Range(outbox) \/ (~Used(r) /\ (Offered(r) => r.token = 0 /\ r.of \in Preparing))
  /\ (Live(work'.q) /\ work'.q.call = "confirm") <=> (Live(work.q) /\ work.q.call = "confirm")
  /\ Preparing' \subseteq Preparing /\ (work'.q.call = "prepare" => ~Picking')
  /\ \A q \in Range(inbox) : q.call = "dismiss" => q \in Range(inbox')

(* It keeps the invariant. *)
LEMMA DialogStays ==
  ASSUME TokensTyped, TokensTyped', Dialog, Undisturbed
  PROVE  Dialog'
<1>1. /\ since' = since /\ issued' = issued /\ Pending(tokens') \subseteq Pending(tokens)
      /\ ui'.preview = ui.preview /\ missed' = missed
      /\ Lasts(tokens, issued) => Lasts(tokens', issued)
  BY DEF Undisturbed, Moves, Ages, Shrinks, Shrunk
<1>2. Behind => Behind'
  BY BehindStays DEF Undisturbed
<1>3. \A k : Usable(k) => Usable(k)'
  BY <1>1, UsableLasts, UsableLastsNext
<1>4. \A r : (Used(r)' <=> Used(r)) /\ (Offered(r)' <=> Offered(r))
  BY <1>1 DEF Used, Offered, Live
<1>5. Consuming' <=> Consuming
  <2>1. (Live(work.q) /\ work.q.call = "confirm")' <=> (Live(work.q) /\ work.q.call = "confirm")
    BY <1>1 DEF Undisturbed, Live
  <2>2. (\E r \in Range(outbox) : Used(r))' <=> \E r \in Range(outbox) : Used(r)
    BY <1>4 DEF Undisturbed
  <2>. QED BY <2>1, <2>2 DEF Consuming
<1>6. OnlyLast' /\ ConsumesLast'
  BY <1>1, <1>5 DEF Dialog, OnlyLast, ConsumesLast
<1>7. ShowsLast'
  BY <1>1, <1>2, <1>3, <1>5 DEF Dialog, ShowsLast
<1>8. OffersLast'
  <2>1. ASSUME NEW r \in Range(outbox'), Offered(r)
        PROVE  Behind' /\ Pending(tokens') \subseteq {r.token} /\ (r.token # 0 => Usable(r.token)')
    <3>1. CASE r \in Range(outbox)
      BY <1>1, <1>2, <1>3, <2>1, <3>1 DEF Dialog, OffersLast
    <3>2. CASE r.token = 0 /\ r.of \in Preparing
      <4>1. Pending(tokens) = {} /\ (r.of.id >= since => Behind)
        BY <3>2 DEF Dialog, PreparesAlone
      <4>2. r.of.id >= since
        BY <2>1 DEF Offered, Live
      <4>. QED BY <1>1, <1>2, <3>2, <4>1, <4>2
    <3>. QED BY <2>1, <3>1, <3>2 DEF Undisturbed
  <2>. QED BY <1>4, <2>1 DEF OffersLast
<1>9. PreparesAlone'
  BY <1>1, <1>2 DEF Dialog, PreparesAlone, Undisturbed, Alone
<1>10. LastIsKnown'
  BY <1>1 DEF Dialog, LastIsKnown, Undisturbed
<1>. QED BY <1>6, <1>7, <1>8, <1>9, <1>10 DEF Dialog

(* Nothing is said to the main process, or a call of the page that is shown is sent. *)
LEMMA InboxMoves ==
  ASSUME CallInvariant,
         inbox' = inbox \/ \E q \in Calls : inbox' = Append(inbox, q) /\ q.id >= since
  PROVE  /\ Range(inbox) \subseteq Range(inbox')
         /\ \A p \in Range(inbox') : p \in Range(inbox) \/ p.id >= since
<1>1. QueuesTyped
  BY DEF CallInvariant, QueuesTyped
<1>2. ASSUME NEW q \in Calls, inbox' = Append(inbox, q) PROVE Range(inbox') = Range(inbox) \cup {q}
  BY <1>1, <1>2, InboxGrows
<1>. QED BY <1>2

(* A gesture and the dialog: one that closes the dialog leaves its preview to be dismissed. *)
LEMMA DialogGestured ==
  ASSUME CallInvariant, TokensTyped, TokensTyped', Dialog, GestureMade
  PROVE  Dialog'
<1>1. /\ since' = since /\ outbox' = outbox /\ Calm /\ missed' = missed /\ native' = native
      /\ work' = work /\ gestures \in Nat /\ since \in Nat /\ since <= gestures
  BY DEF GestureMade, GestureKeeps, Calm, workVars, CallInvariant
<1>2. inbox' = inbox \/ \E q : Sent(q)
  BY DEF GestureMade
<1>3. /\ Range(inbox) \subseteq Range(inbox')
      /\ \A p \in Range(inbox') : p \in Range(inbox) \/ p.id >= since
  <2>1. inbox' = inbox \/ \E q \in Calls : inbox' = Append(inbox, q) /\ q.id >= since
    BY <1>1, <1>2 DEF Sent
  <2>. QED BY <2>1, InboxMoves
<1>4. Moves
  BY <1>1, <1>3 DEF Moves
<1>5. Ages
  BY <1>1, CalmShrinks
<1>6. CASE ui'.preview = ui.preview
  <2>1. Preparing' = Preparing /\ (work'.q.call = "prepare" => ~Picking')
    BY <1>1 DEF Preparing, Picking, Dialog, PreparesAlone
  <2>2. Undisturbed
    BY <1>1, <1>3, <1>4, <1>5, <1>6, <2>1 DEF Undisturbed
  <2>. QED BY <2>2, DialogStays
<1>7. ASSUME NEW q, Sent(q), LockTaken(q), ui'.preview = 0, ui.preview # 0, q.call = "dismiss",
             q.arg[2] = ui.preview
      PROVE  Dialog'
  <2>1. /\ tokens' = tokens /\ issued' = issued
    BY <1>1 DEF Calm, tokenVars
  <2>2. Behind => Behind'
    BY <1>4, BehindStays
  <2>3. \A k : Usable(k)' <=> Usable(k)
    BY <2>1 DEF Usable
  <2>4. \A r : (Used(r)' <=> Used(r)) /\ (Offered(r)' <=> Offered(r))
    BY <1>1 DEF Used, Offered, Live
  <2>5. Consuming' <=> Consuming
    BY <1>1, <2>4 DEF Consuming, Live
  <2>6. OnlyLast' /\ ConsumesLast' /\ ShowsLast'
    BY <1>7, <2>1, <2>5 DEF Dialog, OnlyLast, ConsumesLast, ShowsLast
  <2>7. OffersLast'
    BY <1>1, <2>1, <2>2, <2>3, <2>4 DEF Dialog, OffersLast
  <2>8. PreparesAlone'
    BY <1>1, <2>1, <2>2 DEF Dialog, PreparesAlone, Preparing, Picking, Alone
  <2>9. q \in Range(inbox')
    BY <1>7, InboxGrows DEF Sent, CallInvariant, QueuesTyped
  <2>10. LastIsKnown'
    <3>1. ui.preview = issued => q \in Range(inbox') /\ q.call = "dismiss" /\ q.arg[2] = issued
      BY <1>7, <2>9
    <3>. QED BY <1>1, <1>3, <2>1, <3>1 DEF Dialog, LastIsKnown
  <2>. QED BY <2>6, <2>7, <2>8, <2>10 DEF Dialog
<1>8. ASSUME NEW q, Sent(q), LockTaken(q) PROVE Dialog'
  BY <1>6, <1>7, <1>8 DEF LockTaken
<1>. QED BY <1>6, <1>8 DEF GestureMade, LockLeft

(* A page that is loaded anew has no dialog, and nothing on its way. *)
LEMMA DialogReloads ==
  ASSUME CallInvariant, CallInvariant', TokensTyped, Dialog, Reloaded
  PROVE  Dialog'
<1>1. /\ since' = gestures + 1 /\ outbox' = outbox /\ Calm /\ native' = native /\ work' = work
      /\ gestures \in Nat /\ ui'.preview = 0 /\ missed' = missed \cup {"sources", "activity"} \cup Forgotten(ui)
      /\ inbox' = Append(inbox, Loading(gestures + 1)) /\ QueuesTyped
  BY DEF Reloaded, Calm, workVars, CallInvariant, QueuesTyped, Page
<1>2. tokens' = tokens /\ issued' = issued
  BY <1>1 DEF Calm, tokenVars
<1>3. Range(inbox) \subseteq Range(inbox')
  <2>1. <<"both", 0>> \in Subjects \X Nat /\ <<"load", "refresh">> \in Kinds /\ "both" \in Parted
    BY DEF Subjects, Parted, Kinds
  <2>2. gestures + 1 \in Nat \ {0}
    BY <1>1
  <2>3. Loading(gestures + 1) \in Calls
    BY <2>1, <2>2, CallTyped DEF Loading, Call
  <2>. QED BY <1>1, <2>3, InboxGrows
<1>4. ASSUME NEW q \in {r.of : r \in Range(outbox)} \cup Held PROVE ~(q.id >= since')
  <2>1. q \in Flying /\ q.id <= gestures
    BY <1>4 DEF Flying, CallInvariant
  <2>2. q \in Calls \/ q = NoCall
    BY <1>1, <1>4, AnswerFields, CallParts DEF QueuesTyped, HeldTyped, Held, Range
  <2>3. q.id \in Nat
    <3>1. \A p \in Calls : p.id \in Nat
      BY CallFields
    <3>2. NoCall.id \in Nat
      BY DEF NoCall
    <3>. QED BY <2>2, <3>1, <3>2
  <2>. QED BY <1>1, <2>1, <2>3
<1>5. \A r \in Range(outbox) : ~(r.of.id >= since')
  BY <1>4
<1>6. ~(work.q.id >= since') /\ \A q \in native : ~(q.id >= since')
  BY <1>4 DEF Held
<1>7. ~Consuming'
  BY <1>1, <1>5, <1>6 DEF Consuming, Used, Live
<1>8. OnlyLast' /\ ConsumesLast' /\ ShowsLast'
  BY <1>1, <1>2, <1>7 DEF Dialog, OnlyLast, ConsumesLast, ShowsLast
<1>9. OffersLast'
  BY <1>1, <1>5 DEF OffersLast, Offered, Live
<1>10. PreparesAlone'
  BY <1>1, <1>2, <1>6 DEF Dialog, PreparesAlone, Preparing, Picking, Alone
<1>11. LastIsKnown'
  <2>1. issued \in Pending(tokens) => issued # 0
    BY PendingIssued
  <2>2. ui.preview # 0 => "preview" \in missed'
    BY <1>1 DEF Forgotten
  <2>3. "preview" \in missed => "preview" \in missed'
    BY <1>1
  <2>. QED BY <1>1, <1>2, <1>3, <2>1, <2>2, <2>3 DEF Dialog, LastIsKnown
<1>. QED BY <1>8, <1>9, <1>10, <1>11 DEF Dialog

(* What the page learns of a preview when an answer is delivered. *)
LEMMA DeliveredCourse ==
  ASSUME CallInvariant, ShapedLive, Delivered, NEW r, r = Head(outbox)
  PROVE  /\ r \in Answers /\ r \in Range(outbox) /\ Range(outbox') \subseteq Range(outbox)
         /\ Range(outbox) \subseteq Range(outbox') \cup {r}
         /\ inbox' = inbox \/ \E q \in Calls : inbox' = Append(inbox, q) /\ q.id >= since
         /\ \/ ui'.preview = ui.preview /\ ~Used(r) /\ (r.of.call = "prepare" => "preview" \in missed')
            \/ /\ Live(r.of) /\ Shaped(r.of) /\ ui'.preview = After(r)
         /\ Offered(r) \/ ("preview" \in missed => "preview" \in missed')
<1>1. outbox \in Seq(Answers) /\ outbox # <<>> /\ outbox' = Tail(outbox) /\ since \in Nat
  BY DEF CallInvariant, Delivered
<1>2. /\ r \in Answers /\ r \in Range(outbox) /\ Range(outbox') \subseteq Range(outbox)
      /\ Range(outbox) \subseteq Range(outbox') \cup {r}
  BY <1>1, TakenRange, HeadOrTail
<1>3. r.of \in Calls /\ r.of.id \in Nat /\ <<r.of.by, r.of.call>> \in Kinds
  BY <1>2, AnswerFields, CallFields
<1>4. \/ r.of.id < since /\ UNCHANGED <<ui, inbox>> /\ missed' = missed \cup Unread(r)
      \/ /\ r.of.id >= since /\ LockCourse(r)
         /\ missed' = (missed \cup IF r.of.call = "refresh" THEN Parts(r.of) ELSE {})
                        \ (IF r.of.call = "prepare" /\ r.status # "busy" THEN {"preview"}
                           ELSE IF r.of.call = "refresh" THEN Learnt(r) ELSE {})
  BY DEF Delivered, Learned
<1>5. inbox' = inbox \/ \E q \in Calls : inbox' = Append(inbox, q) /\ q.id >= since
  BY <1>4 DEF LockCourse, NewCall
<1>6. r.of.call = "refresh" => "preview" \notin r.got
  BY <1>2, AnswerFields, CallFields DEF Readable, Parts, Parted
<1>7. CASE r.of.id < since
  <2>1. ui' = ui /\ missed' = missed \cup Unread(r)
    BY <1>1, <1>3, <1>4, <1>7
  <2>2. r.of.call = "prepare" => Unread(r) = {"preview"}
    BY DEF Unread
  <2>3. ~Used(r)
    BY <1>1, <1>3, <1>7 DEF Used, Live
  <2>. QED BY <1>2, <1>5, <2>1, <2>2, <2>3
<1>8. CASE r.of.id >= since
  <2>1. /\ LockCourse(r)
        /\ missed' = (missed \cup IF r.of.call = "refresh" THEN Parts(r.of) ELSE {})
                       \ (IF r.of.call = "prepare" /\ r.status # "busy" THEN {"preview"}
                          ELSE IF r.of.call = "refresh" THEN Learnt(r) ELSE {})
    BY <1>1, <1>3, <1>4, <1>8
  <2>2. Live(r.of) <=> r.of.by \in Locking
    BY <1>8 DEF Live, Locking
  <2>3. r.of.call \in {"prepare", "confirm"} => Live(r.of)
    BY <1>3, <1>8, LockingCalls
  <2>4. Offered(r) \/ ("preview" \in missed => "preview" \in missed')
    <3>1. r.of.call = "prepare" /\ r.status # "busy" => Offered(r)
      BY <2>3 DEF Offered
    <3>. QED BY <1>6, <2>1, <3>1 DEF Learnt
  <2>5. CASE r.of.by \notin Locking
    <3>1. ui'.preview = ui.preview /\ r.of.call \notin {"prepare", "confirm"}
      BY <2>1, <2>2, <2>3, <2>5 DEF LockCourse, LockLeft
    <3>. QED BY <1>2, <1>5, <2>4, <3>1 DEF Used
  <2>6. CASE r.of.by \in Locking
    <3>1. ui'.preview = After(r)
      BY <2>1, <2>6 DEF LockCourse
    <3>2. r.of \in Flying
      BY <1>2 DEF Flying
    <3>. QED BY <1>2, <1>5, <2>2, <2>4, <2>6, <3>1, <3>2 DEF ShapedLive
  <2>. QED BY <2>5, <2>6
<1>. QED BY <1>1, <1>3, <1>7, <1>8

(* An answer and the dialog: the page shows the preview that was issued, or has lost it. *)
LEMMA DialogDelivers ==
  ASSUME CallInvariant, TokensTyped, TokensTyped', OneLive, ShapedLive, Dialog, Delivered
  PROVE  Dialog'
<1> DEFINE r == Head(outbox)
<1>1. /\ r \in Answers /\ r \in Range(outbox) /\ Range(outbox') \subseteq Range(outbox)
      /\ Range(outbox) \subseteq Range(outbox') \cup {r}
      /\ inbox' = inbox \/ \E q \in Calls : inbox' = Append(inbox, q) /\ q.id >= since
      /\ \/ ui'.preview = ui.preview /\ ~Used(r) /\ (r.of.call = "prepare" => "preview" \in missed')
         \/ /\ Live(r.of) /\ Shaped(r.of) /\ ui'.preview = After(r)
      /\ Offered(r) \/ ("preview" \in missed => "preview" \in missed')
  BY DeliveredCourse
<1>2. /\ since' = since /\ tokens' = tokens /\ issued' = issued /\ native' = native /\ work' = work
  BY DEF Delivered, tokenVars, workVars
<1> HIDE DEF r
<1>3. /\ Range(inbox) \subseteq Range(inbox')
      /\ \A p \in Range(inbox') : p \in Range(inbox) \/ p.id >= since
  BY <1>1, InboxMoves
<1>4. Behind => Behind'
  <2>1. Moves
    BY <1>2, <1>3 DEF Moves
  <2>. QED BY <2>1, BehindStays
<1>5. \A k : Usable(k)' <=> Usable(k)
  BY <1>2 DEF Usable
<1>6. \A a : (Used(a)' <=> Used(a)) /\ (Offered(a)' <=> Offered(a))
  BY <1>2 DEF Used, Offered, Live
<1>7. (Consuming' => Consuming) /\ (Consuming /\ ~Used(r) => Consuming')
  BY <1>1, <1>2, <1>6 DEF Consuming, Live
<1>8. OnlyLast' /\ ConsumesLast'
  BY <1>2, <1>7 DEF Dialog, OnlyLast, ConsumesLast
<1>9. OffersLast'
  BY <1>1, <1>2, <1>4, <1>5, <1>6 DEF Dialog, OffersLast
<1>10. PreparesAlone'
  BY <1>2, <1>4 DEF Dialog, PreparesAlone, Preparing, Picking, Alone
<1>11. issued \in Pending(tokens) => issued # 0
  BY PendingIssued
<1>12. ASSUME ui'.preview = ui.preview, ~Used(r), r.of.call = "prepare" => "preview" \in missed'
       PROVE  ShowsLast' /\ LastIsKnown'
  <2>1. ShowsLast'
    BY <1>2, <1>4, <1>5, <1>7, <1>12 DEF Dialog, ShowsLast
  <2>2. ("preview" \in missed => "preview" \in missed') \/ "preview" \in missed'
    BY <1>1, <1>12 DEF Offered
  <2>3. LastIsKnown'
    BY <1>1, <1>2, <1>3, <1>12, <2>2 DEF Dialog, LastIsKnown
  <2>. QED BY <2>1, <2>3
<1>13. ASSUME Live(r.of), Shaped(r.of), ui'.preview = After(r), r.of.call = "prepare"
       PROVE  ShowsLast' /\ LastIsKnown'
  <2>1. ui'.preview = r.token /\ ui.preview = 0
    BY <1>13 DEF After, Shaped
  <2>2. r.token # 0 => Offered(r)
    BY <1>1, <1>13, AnswerFields DEF Offered
  <2>3. Offered(r) =>
          Behind /\ Pending(tokens) \subseteq {r.token} /\ (r.token # 0 => Usable(r.token))
    BY <1>1 DEF Dialog, OffersLast
  <2>4. ShowsLast'
    BY <1>2, <1>4, <1>5, <2>1, <2>2, <2>3 DEF ShowsLast, Usable
  <2>5. CASE Offered(r)
    BY <1>2, <2>1, <2>3, <2>4, <2>5 DEF LastIsKnown
  <2>6. CASE ~Offered(r)
    BY <1>1, <1>2, <1>3, <1>11, <2>1, <2>2, <2>4, <2>6 DEF Dialog, LastIsKnown
  <2>. QED BY <2>5, <2>6
<1>14. ASSUME Live(r.of), Shaped(r.of), ui'.preview = After(r), r.of.call # "prepare"
       PROVE  ShowsLast' /\ LastIsKnown'
  <2>1. "preview" \in missed => "preview" \in missed'
    BY <1>1, <1>14 DEF Offered
  <2>2. CASE r.of.by = "confirm" /\ r.status # "busy"
    <3>1. ui'.preview = 0
      BY <1>14, <2>2 DEF After
    <3>2. r.of.call = "confirm" => Consuming
      BY <1>1, <1>14, <2>2 DEF Consuming, Used
    <3>3. r.of.call # "confirm" => ui.preview = 0
      BY <1>14 DEF Shaped
    <3>4. issued \in Pending(tokens) => ui.preview # issued
      BY <1>11, <3>2, <3>3 DEF Dialog, ConsumesLast
    <3>5. LastIsKnown'
      BY <1>1, <1>2, <1>3, <1>14, <2>1, <3>4 DEF Dialog, LastIsKnown
    <3>. QED BY <3>1, <3>5 DEF ShowsLast
  <2>3. CASE ~(r.of.by = "confirm" /\ r.status # "busy")
    <3>1. ui'.preview = ui.preview
      BY <1>14, <2>3 DEF After
    <3>2. ~Used(r)
      <4>1. r.of.call = "confirm" => r.of.by = "confirm"
        BY <1>1, AnswerFields, LockingCalls
      <4>. QED BY <2>3, <4>1 DEF Used
    <3>. QED BY <1>12, <1>14, <3>1, <3>2
  <2>. QED BY <2>2, <2>3
<1>15. ShowsLast' /\ LastIsKnown'
  BY <1>1, <1>12, <1>13, <1>14
<1>. QED BY <1>8, <1>9, <1>10, <1>15 DEF Dialog

\* A call that is about to change the previews.
Due(q) ==
  /\ q \in Calls
  /\ \/ q \in Range(inbox) /\ q.call \in {"prepare", "confirm", "dismiss", "sample"}
     \/ q = work.q /\ q.call \in {"prepare", "confirm"}

(* When the main process is past the calls of earlier pages, it is a call of the function that *)
(* has the lock.  So nothing is offered then, and a preview is shown only to be confirmed.     *)
LEMMA DueIsLive ==
  ASSUME OneLive, ShapedLive, Dialog, NEW q, Due(q)
  PROVE  /\ Behind => Live(q) /\ Shaped(q)
         /\ \A r \in Range(outbox) : ~Offered(r)
         /\ ui.preview # 0 => Behind /\ Live(q) /\ q.call = "confirm" /\ ui.preview = issued
         /\ Live(q) /\ q.call = "confirm" => ui.preview # 0 /\ q.arg[2] = issued
<1>1. q \in Flying /\ q \in Calls /\ q.call \in {"prepare", "confirm", "dismiss", "sample"}
  BY DEF Due, Flying, Held
<1>2. ASSUME Behind PROVE Live(q) /\ Shaped(q) /\ \A r \in Range(outbox) : ~Offered(r)
  <2>1. q.id >= since
    BY <1>2 DEF Behind, Due
  <2>2. Live(q)
    BY <1>1, <2>1, LockingCalls
  <2>3. Shaped(q)
    BY <1>1, <2>2 DEF ShapedLive
  <2>4. \A r \in Range(outbox) : ~Offered(r)
    BY <2>2, LiveOne DEF Offered, Due
  <2>. QED BY <2>2, <2>3, <2>4
<1>3. \A r \in Range(outbox) : ~Offered(r)
  <2>1. \A r \in Range(outbox) : Offered(r) => Behind
    BY DEF Dialog, OffersLast
  <2>. QED BY <1>2, <2>1
<1>4. ASSUME ui.preview # 0
      PROVE  Behind /\ Live(q) /\ q.call = "confirm" /\ ui.preview = issued
  <2>1. Behind /\ ui.preview = issued
    BY <1>4 DEF Dialog, ShowsLast
  <2>2. Live(q) /\ Shaped(q)
    BY <1>2, <2>1
  <2>. QED BY <1>4, <2>1, <2>2 DEF Shaped
<1>5. ASSUME Live(q), q.call = "confirm" PROVE ui.preview # 0 /\ q.arg[2] = issued
  <2>1. ui.preview # 0 /\ q.arg[2] = ui.preview
    BY <1>1, <1>5 DEF ShapedLive, Shaped
  <2>. QED BY <2>1 DEF Dialog, ShowsLast
<1>. QED BY <1>2, <1>3, <1>4, <1>5

(* A handler that answers and the dialog. *)
LEMMA DialogAnswered ==
  ASSUME CallInvariant, TokensTyped, TokensTyped', OneLive, ShapedLive, Dialog, Handles,
         NEW q, q = Head(inbox), NEW r, ServesWith(q, r)
  PROVE  Dialog'
<1>1. /\ inbox \in Seq(Calls) /\ inbox # <<>> /\ inbox' = Tail(inbox) /\ since' = since
      /\ ui' = ui /\ missed' = missed /\ native' = native /\ work'.q = work.q /\ QueuesTyped
      /\ r \in Answers /\ r.of = q /\ outbox' = Append(outbox, r)
  BY DEF Handles, CallInvariant, QueuesTyped, ServesWith, Answering, pageVars
<1>2. /\ q \in Calls /\ q \in Range(inbox) /\ Range(inbox') \subseteq Range(inbox)
      /\ Range(inbox) \subseteq Range(inbox') \cup {q}
  BY <1>1, TakenRange, HeadOrTail
<1>3. Range(outbox') = Range(outbox) \cup {r}
  BY <1>1, OutboxGrows
<1>4. Moves
  BY <1>1, <1>2 DEF Moves
<1>5. Preparing' = Preparing /\ (work'.q.call = "prepare" => ~Picking')
  BY <1>1 DEF Preparing, Picking, Dialog, PreparesAlone
<1>6. ASSUME Calm, q.call # "dismiss", q.call \in {"prepare", "confirm"} => r.status = "busy"
      PROVE  Dialog'
  <2>1. ~Used(r) /\ ~Offered(r)
    BY <1>1, <1>6 DEF Used, Offered
  <2>2. Ages
    BY <1>6, CalmShrinks
  <2>3. Undisturbed
    BY <1>1, <1>2, <1>3, <1>4, <1>5, <1>6, <2>1, <2>2 DEF Undisturbed
  <2>. QED BY <2>3, DialogStays
<1>7. ASSUME q.call \in {"confirm", "dismiss"}, Spends(q), q.call = "confirm" => r.status # "busy"
      PROVE  Dialog'
  <2>1. /\ issued' = issued /\ Pending(tokens') \subseteq Pending(tokens)
        /\ q.arg[2] \notin Pending(tokens') /\ Due(q)
    BY <1>2, <1>7 DEF Spends, Shrinks, Shrunk, Due
  <2>2. Behind => Behind'
    BY <1>4, BehindStays
  <2>3. \A a : (Used(a)' <=> Used(a)) /\ (Offered(a)' <=> Offered(a))
    BY <1>1 DEF Used, Offered, Live
  <2>4. ~Offered(r)
    BY <1>1, <1>7 DEF Offered
  <2>5. OnlyLast'
    BY <2>1 DEF Dialog, OnlyLast
  <2>6. ConsumesLast'
    <3>1. Used(r) => issued \notin Pending(tokens')
      BY <1>1, <2>1, DueIsLive DEF Used
    <3>2. Consuming' => Consuming \/ Used(r)
      BY <1>1, <1>3, <2>3 DEF Consuming, Live
    <3>. QED BY <2>1, <2>5, <3>1, <3>2 DEF Dialog, ConsumesLast, OnlyLast
  <2>7. ShowsLast'
    <3>1. ui.preview # 0 => Used(r) /\ Behind /\ ui.preview = issued
      BY <1>1, <1>7, <2>1, DueIsLive DEF Used
    <3>2. Used(r) => Consuming'
      BY <1>3, <2>3 DEF Consuming
    <3>. QED BY <1>1, <2>1, <2>2, <3>1, <3>2 DEF ShowsLast
  <2>8. OffersLast'
    <3>1. \A a \in Range(outbox) : ~Offered(a)
      BY <2>1, DueIsLive
    <3>. QED BY <1>3, <2>3, <2>4, <3>1 DEF OffersLast
  <2>9. PreparesAlone'
    BY <1>1, <1>5, <2>1, <2>2 DEF Dialog, PreparesAlone, Alone
  <2>10. LastIsKnown'
    BY <1>1, <1>2, <1>3, <2>1 DEF Dialog, LastIsKnown
  <2>. QED BY <2>5, <2>6, <2>7, <2>8, <2>9, <2>10 DEF Dialog
<1>. QED BY <1>6, <1>7 DEF ServesWith

(* Nothing prepares while activeImport and the picker are free. *)
LEMMA FreePrepares ==
  ASSUME NotBusy
  PROVE  Preparing = {} /\ work.q = NoCall
BY DEF NotBusy, Picking, Preparing, NoWork, NoCall

(* A handler that is answered later and the dialog. *)
LEMMA DialogServed ==
  ASSUME CallInvariant, TokensTyped, TokensTyped', OneLive, ShapedLive, Ordered, Dialog, Handles,
         NEW q, q = Head(inbox), ServesLater(q)
  PROVE  Dialog'
<1>1. /\ inbox \in Seq(Calls) /\ inbox # <<>> /\ inbox' = Tail(inbox) /\ since' = since
      /\ ui' = ui /\ missed' = missed /\ outbox' = outbox
      /\ \A p \in native : p.call \in {"prepare", "purge", "clear"}
  BY DEF Handles, CallInvariant, ServesLater, pageVars
<1>2. /\ q \in Calls /\ q \in Range(inbox) /\ Range(inbox') \subseteq Range(inbox)
      /\ Range(inbox) \subseteq Range(inbox') \cup {q}
  BY <1>1, TakenRange, HeadOrTail
<1>3. \A a : (Used(a)' <=> Used(a)) /\ (Offered(a)' <=> Offered(a))
  BY <1>1 DEF Used, Offered, Live
<1>4. CASE q.call \in {"purge", "clear"} /\ native' = native \cup {q} /\ UNCHANGED work /\ Calm
  <2>1. Moves
    BY <1>1, <1>2, <1>4 DEF Moves
  <2>2. Ages
    BY <1>4, CalmShrinks
  <2>3. Preparing' = Preparing /\ (work'.q.call = "prepare" => ~Picking')
    BY <1>4 DEF Preparing, Picking, Dialog, PreparesAlone
  <2>4. Undisturbed
    BY <1>1, <1>2, <1>4, <2>1, <2>2, <2>3 DEF Undisturbed
  <2>. QED BY <2>4, DialogStays
\* Nothing is offered, and no dialog shown, when the previews are dropped.
<1>5. ASSUME Due(q), q.call # "confirm", Clears, PreparesAlone' PROVE Dialog'
  <2>1. Pending(tokens') = {} /\ issued' = issued
    BY <1>5 DEF Clears, Shrinks
  <2>2. ui.preview = 0 /\ \A r \in Range(outbox) : ~Offered(r)
    BY <1>5, DueIsLive
  <2>3. OnlyLast' /\ ConsumesLast' /\ LastIsKnown'
    BY <2>1 DEF OnlyLast, ConsumesLast, LastIsKnown
  <2>4. ShowsLast' /\ OffersLast'
    BY <1>1, <1>3, <2>2 DEF ShowsLast, OffersLast
  <2>. QED BY <1>5, <2>3, <2>4 DEF Dialog
<1>6. CASE q.call = "sample" /\ UNCHANGED <<native, work>> /\ Clears
  <2>1. Moves
    BY <1>1, <1>2, <1>6 DEF Moves
  <2>2. Behind => Behind'
    BY <2>1, BehindStays
  <2>3. PreparesAlone'
    BY <1>1, <1>6, <2>2 DEF Dialog, PreparesAlone, Preparing, Picking, Alone, Clears
  <2>. QED BY <1>2, <1>5, <1>6, <2>3 DEF Due
<1>7. CASE q.call = "prepare" /\ NotBusy /\ native' = native \cup {q} /\ UNCHANGED work /\ Clears
  <2>1. Preparing = {} /\ work.q = NoCall
    BY <1>7, FreePrepares
  <2>2. Preparing' = {q} /\ work'.q.call # "prepare"
    BY <1>7, <2>1 DEF Preparing, NoCall
  <2>3. ASSUME q.id >= since PROVE Behind'
    <3>1. \A p \in Range(inbox') : p.id >= since
      <4>1. Len(inbox) \in Nat /\ DOMAIN inbox = 1 .. Len(inbox) /\ q = inbox[1] /\ 1 \in DOMAIN inbox
        BY <1>1
      <4>2. \A j \in DOMAIN inbox : inbox[j].id >= since
        BY <2>3, <4>1 DEF Ordered
      <4>. QED BY <1>2, <4>2 DEF Range
    <3>2. ASSUME NEW p \in native', p.call \in {"prepare", "confirm"} PROVE p.id >= since
      <4>1. p.call = "prepare"
        BY <1>1, <1>7, <3>2
      <4>2. p \in Preparing'
        BY <4>1 DEF Preparing
      <4>. QED BY <2>2, <2>3, <4>2
    <3>3. work'.q.call \notin {"prepare", "confirm"}
      BY <1>7, <2>1 DEF NoCall
    <3>. QED BY <1>1, <3>1, <3>2, <3>3 DEF Behind
  <2>4. PreparesAlone'
    BY <1>1, <1>7, <2>2, <2>3 DEF PreparesAlone, Alone, Clears
  <2>. QED BY <1>2, <1>5, <1>7, <2>4 DEF Due
<1>8. CASE q.call = "confirm" /\ NotBusy /\ work'.q = q /\ UNCHANGED native /\ Spends(q)
  <2>1. /\ issued' = issued /\ Pending(tokens') \subseteq Pending(tokens)
        /\ q.arg[2] \notin Pending(tokens')
    BY <1>8 DEF Spends, Shrinks, Shrunk
  <2>2. Due(q)
    BY <1>2, <1>8 DEF Due
  <2>3. Behind => Behind'
    <3>1. Moves
      BY <1>1, <1>2, <1>8 DEF Moves
    <3>. QED BY <3>1, BehindStays
  <2>4. Preparing' = {} /\ work'.q.call # "prepare"
    BY <1>8, FreePrepares DEF Preparing
  <2>5. PreparesAlone'
    BY <2>4 DEF PreparesAlone, Alone
  <2>6. OnlyLast'
    BY <2>1 DEF Dialog, OnlyLast
  <2>7. ConsumesLast'
    <3>1. CASE Live(q)
      BY <1>8, <2>1, <2>2, <2>6, <3>1, DueIsLive DEF ConsumesLast, OnlyLast
    <3>2. CASE ~Live(q)
      <4>1. Consuming' => Consuming
        BY <1>1, <1>3, <1>8, <3>2 DEF Consuming, Live
      <4>. QED BY <2>1, <4>1 DEF Dialog, ConsumesLast
    <3>. QED BY <3>1, <3>2
  <2>8. ShowsLast'
    <3>1. ui.preview # 0 => Behind /\ Live(q) /\ ui.preview = issued
      BY <2>2, DueIsLive
    <3>2. Live(q) => Consuming'
      BY <1>1, <1>8 DEF Consuming, Live
    <3>. QED BY <1>1, <2>1, <2>3, <3>1, <3>2 DEF ShowsLast
  <2>9. OffersLast'
    <3>1. \A r \in Range(outbox) : ~Offered(r)
      BY <2>2, DueIsLive
    <3>. QED BY <1>1, <1>3, <3>1 DEF OffersLast
  <2>10. LastIsKnown'
    BY <1>1, <1>2, <1>8, <2>1 DEF Dialog, LastIsKnown
  <2>. QED BY <2>5, <2>6, <2>7, <2>8, <2>9, <2>10 DEF Dialog
<1>. QED BY <1>4, <1>6, <1>7, <1>8 DEF ServesLater

(* A held call that is answered and the dialog. *)
LEMMA DialogEnds ==
  ASSUME CallInvariant, TokensTyped, TokensTyped', OneLive, ShapedLive, Dialog,
         NEW q \in Calls, Left(q), NEW r, EndsWith(q, r)
  PROVE  Dialog'
<1>1. /\ since' = since /\ ui' = ui /\ missed' = missed /\ inbox' = inbox /\ QueuesTyped
      /\ r \in Answers /\ r.of = q /\ outbox' = Append(outbox, r)
      /\ \A p \in native : p.call \in {"prepare", "purge", "clear"}
      /\ \A p \in samples : p.call = "sample"
  BY DEF Left, CallInvariant, QueuesTyped, EndsWith, Answering, pageVars
<1>2. Range(outbox') = Range(outbox) \cup {r}
  BY <1>1, OutboxGrows
<1>3. \A a : (Used(a)' <=> Used(a)) /\ (Offered(a)' <=> Offered(a))
  BY <1>1 DEF Used, Offered, Live
<1>4. NoWork.q = NoCall /\ NoCall.call = "none" /\ ~Live(NoCall)
  BY NoCallRests DEF NoWork, NoCall
<1>5. ASSUME q \in native, native' = native \ {q}, UNCHANGED work, Calm, r.token = 0
      PROVE  Dialog'
  <2>1. ~Used(r) /\ (Offered(r) => r.of \in Preparing)
    BY <1>1, <1>5 DEF Used, Offered, Preparing
  <2>2. Moves /\ Ages
    BY <1>1, <1>5, CalmShrinks DEF Moves
  <2>3. Preparing' \subseteq Preparing /\ (work'.q.call = "prepare" => ~Picking')
    BY <1>5 DEF Preparing, Picking, Dialog, PreparesAlone
  <2>4. Undisturbed
    BY <1>1, <1>2, <1>5, <2>1, <2>2, <2>3 DEF Undisturbed
  <2>. QED BY <2>4, DialogStays
<1>6. ASSUME q \in samples, UNCHANGED <<native, work>>, Calm PROVE Dialog'
  <2>1. ~Used(r) /\ ~Offered(r)
    BY <1>1, <1>6 DEF Used, Offered
  <2>2. Moves /\ Ages
    BY <1>1, <1>6, CalmShrinks DEF Moves
  <2>3. Preparing' \subseteq Preparing /\ (work'.q.call = "prepare" => ~Picking')
    BY <1>6 DEF Preparing, Picking, Dialog, PreparesAlone
  <2>4. Undisturbed
    BY <1>1, <1>2, <1>6, <2>1, <2>2, <2>3 DEF Undisturbed
  <2>. QED BY <2>4, DialogStays
<1>7. ASSUME q = work.q, work' = NoWork, UNCHANGED native
      PROVE  /\ Moves /\ Preparing' = Preparing \cap native /\ work'.q.call # "prepare" /\ ~Live(work'.q)
  BY <1>1, <1>4, <1>7 DEF Moves, Preparing
<1>8. ASSUME q = work.q, work' = NoWork, UNCHANGED native,
             (q.call = "prepare" /\ r.token = 0) \/ q.call = "sample", Calm
      PROVE  Dialog'
  <2>1. ~Used(r) /\ (Offered(r) => r.token = 0 /\ r.of \in Preparing)
    BY <1>1, <1>8 DEF Used, Offered, Preparing
  <2>2. Ages
    BY <1>8, CalmShrinks
  <2>3. Undisturbed
    BY <1>1, <1>2, <1>7, <1>8, <2>1, <2>2 DEF Undisturbed
  <2>. QED BY <2>3, DialogStays
\* A preview is issued: it is offered to the page, or waits for an earlier one.
<1>9. ASSUME q = work.q, work' = NoWork, UNCHANGED native, q.call = "prepare", Grows,
             r.token = issued + 1
      PROVE  Dialog'
  <2>1. /\ issued \in Nat /\ issued' = issued + 1 /\ Pending(tokens') \subseteq {issued + 1}
        /\ Lasts(tokens', issued')
    BY <1>9 DEF Grows, TokensTyped
  <2>2. Due(q) /\ q \in Preparing
    BY <1>9 DEF Due, Preparing
  <2>3. ui.preview = 0 /\ \A a \in Range(outbox) : ~Offered(a)
    BY <1>9, <2>2, DueIsLive
  <2>4. Preparing' = {}
    BY <1>7, <1>9 DEF Preparing, Picking, Dialog, PreparesAlone
  <2>5. OnlyLast' /\ PreparesAlone'
    BY <1>7, <1>9, <2>1, <2>4 DEF OnlyLast, PreparesAlone, Alone
  <2>6. ShowsLast'
    BY <1>1, <2>3 DEF ShowsLast
  <2>7. OffersLast'
    <3>1. Offered(r) => Behind
      <4>1. Offered(r) => r.of.id >= since
        BY DEF Offered, Live
      <4>. QED BY <1>1, <2>2, <4>1 DEF Dialog, PreparesAlone
    <3>2. Behind => Behind'
      BY <1>7, <1>9, BehindStays
    <3>3. Usable(r.token)' /\ Pending(tokens') \subseteq {r.token}
      BY <1>9, <2>1, UsableLastsNext
    <3>. QED BY <1>2, <1>3, <2>3, <3>1, <3>2, <3>3 DEF OffersLast
  <2>8. ConsumesLast'
    <3>1. \A a \in Range(outbox) : ~Used(a)
      <4>1. ASSUME NEW a \in Range(outbox), Used(a) PROVE FALSE
        <5>1. Live(a.of) /\ a.of.call = "confirm" /\ a.of \in Flying
          BY <4>1 DEF Used, Flying
        <5>. QED BY <2>3, <5>1 DEF ShapedLive, Shaped
      <4>. QED BY <4>1
    <3>2. ~Used(r)
      BY <1>1, <1>9 DEF Used
    <3>3. work'.q.call # "confirm"
      BY <1>4, <1>9
    <3>4. ~Consuming'
      BY <1>2, <1>3, <3>1, <3>2, <3>3 DEF Consuming
    <3>. QED BY <3>4 DEF ConsumesLast
  <2>9. LastIsKnown'
    BY <1>1, <1>2, <1>9, <2>1 DEF LastIsKnown
  <2>. QED BY <2>5, <2>6, <2>7, <2>8, <2>9 DEF Dialog
\* An import ends, and its preview with it.
<1>10. ASSUME q = work.q, work' = NoWork, UNCHANGED native, q.call = "confirm", Shrinks,
              r.status # "busy"
       PROVE  Dialog'
  <2>1. issued' = issued /\ Pending(tokens') \subseteq Pending(tokens) /\ Due(q)
    BY <1>10 DEF Shrinks, Shrunk, Due
  <2>2. Behind => Behind'
    BY <1>7, <1>10, BehindStays
  <2>3. Used(r) <=> Live(work.q)
    BY <1>1, <1>10 DEF Used
  <2>4. ~Offered(r)
    BY <1>1, <1>10 DEF Offered
  <2>5. Consuming' => Consuming
    BY <1>2, <1>3, <1>7, <1>10, <2>3 DEF Consuming, NoWork, NoCall
  <2>6. OnlyLast' /\ ConsumesLast'
    BY <2>1, <2>5 DEF Dialog, OnlyLast, ConsumesLast
  <2>7. ShowsLast'
    <3>1. ui.preview # 0 => Used(r) /\ Behind /\ ui.preview = issued
      BY <1>10, <2>1, <2>3, DueIsLive
    <3>2. Used(r) => Consuming'
      BY <1>2, <1>3 DEF Consuming
    <3>. QED BY <1>1, <2>1, <2>2, <3>1, <3>2 DEF ShowsLast
  <2>8. OffersLast'
    <3>1. \A a \in Range(outbox) : ~Offered(a)
      BY <2>1, DueIsLive
    <3>. QED BY <1>2, <1>3, <2>4, <3>1 DEF OffersLast
  <2>9. PreparesAlone'
    BY <1>1, <1>7, <1>10, <2>1, <2>2 DEF Dialog, PreparesAlone, Alone
  <2>10. LastIsKnown'
    BY <1>1, <1>2, <2>1 DEF Dialog, LastIsKnown
  <2>. QED BY <2>6, <2>7, <2>8, <2>9, <2>10 DEF Dialog
<1>. QED BY <1>5, <1>6, <1>8, <1>9, <1>10 DEF EndsWith

(* A scan or an import that begins and the dialog. *)
LEMMA DialogBegins ==
  ASSUME CallInvariant, TokensTyped, TokensTyped', Dialog, NEW q \in Calls, Left(q), Begins(q)
  PROVE  Dialog'
<1>1. /\ since' = since /\ ui' = ui /\ missed' = missed /\ inbox' = inbox /\ outbox' = outbox
      /\ Calm /\ work.q = NoCall /\ work'.q = q /\ NoCall.call = "none" /\ ~Live(NoCall)
      /\ \A p \in samples : p.call = "sample"
  BY NoCallRests DEF Left, CallInvariant, Begins, pageVars, NoWork, NoCall
<1>2. Ages
  BY <1>1, CalmShrinks
<1>3. CASE q.call = "prepare" /\ q \in native /\ native' = native \ {q}
  <2>1. Preparing' = Preparing /\ q \in Preparing
    BY <1>1, <1>3 DEF Preparing
  <2>2. ~Picking'
    <3>1. ASSUME NEW p \in native', p.call = "prepare" PROVE FALSE
      <4>1. p \in Preparing /\ p # q
        BY <1>3, <3>1 DEF Preparing
      <4>. QED BY <2>1, <4>1 DEF Dialog, PreparesAlone, Alone
    <3>. QED BY <3>1 DEF Picking
  <2>3. Moves
    BY <1>1, <1>3 DEF Moves
  <2>4. Undisturbed
    BY <1>1, <1>2, <1>3, <2>1, <2>2, <2>3 DEF Undisturbed
  <2>. QED BY <2>4, DialogStays
<1>4. CASE q.call = "sample" /\ q \in samples /\ UNCHANGED native
  <2>1. Preparing' \subseteq Preparing /\ work'.q.call # "prepare"
    BY <1>1, <1>4 DEF Preparing
  <2>2. Moves
    BY <1>1, <1>4 DEF Moves
  <2>3. Undisturbed
    BY <1>1, <1>2, <1>4, <2>1, <2>2 DEF Undisturbed
  <2>. QED BY <2>3, DialogStays
<1>. QED BY <1>3, <1>4 DEF Begins

(* Time passes, and the dialog stays. *)
LEMMA DialogAges ==
  ASSUME TokensTyped, TokensTyped', Dialog, Stays, Ages
  PROVE  Dialog'
<1>1. UNCHANGED <<ui, since, inbox, outbox, native, missed>> /\ work'.q = work.q
  BY DEF Stays, pageVars
<1>2. Preparing' = Preparing /\ (work'.q.call = "prepare" => ~Picking')
  BY <1>1 DEF Preparing, Picking, Dialog, PreparesAlone
<1>3. Moves
  BY <1>1 DEF Moves
<1>4. Undisturbed
  BY <1>1, <1>2, <1>3 DEF Undisturbed
<1>. QED BY <1>4, DialogStays

(* So every step keeps the dialog on the last preview. *)
LEMMA DialogStep ==
  ASSUME CallInvariant, CallInvariant', LockInvariant, DialogInvariant, Turn
  PROVE  DialogInvariant'
<1>1. OneLive /\ ShapedLive /\ Ordered /\ TokensTyped /\ Dialog
  BY LockParts, DialogParts
<1>2. TokensTyped'
  BY <1>1, TokensStep
<1>3. ASSUME GestureMade PROVE Dialog'
  BY <1>1, <1>2, <1>3, DialogGestured
<1>4. ASSUME Reloaded PROVE Dialog'
  BY <1>1, <1>2, <1>4, DialogReloads
<1>5. ASSUME Delivered PROVE Dialog'
  BY <1>1, <1>2, <1>5, DialogDelivers
<1>6. ASSUME Handles, ServeTurn(Head(inbox)) PROVE Dialog'
  BY <1>1, <1>2, <1>6, DialogAnswered, DialogServed DEF ServeTurn
<1>7. ASSUME NEW q \in Calls, Left(q), EndTurn(q) PROVE Dialog'
  BY <1>1, <1>2, <1>7, DialogEnds, DialogBegins DEF EndTurn
<1>8. ASSUME Stays, Ages PROVE Dialog'
  BY <1>1, <1>2, <1>8, DialogAges
<1>. QED BY <1>2, <1>3, <1>4, <1>5, <1>6, <1>7, <1>8, DialogPartsNext DEF Turn

(* There is no preview when the page has been loaded. *)
LEMMA DialogInit ==
  ASSUME Init, TokensTyped
  PROVE  DialogInvariant
<1>1. /\ inbox = <<>> /\ outbox = <<>> /\ native = {} /\ work = NoWork /\ tokens = <<>>
      /\ ui.preview = 0
  BY DEF Init, Page
<1>2. Range(inbox) = {} /\ Range(outbox) = {} /\ DOMAIN tokens = {}
  BY <1>1 DEF Range
<1>3. Pending(tokens) = {}
  BY <1>2 DEF Pending, InState
<1>4. Preparing = {} /\ work.q.call # "prepare"
  BY <1>1 DEF Preparing, NoWork, NoCall
<1>5. Dialog
  BY <1>1, <1>2, <1>3, <1>4
     DEF Dialog, OnlyLast, ShowsLast, OffersLast, PreparesAlone, ConsumesLast, LastIsKnown, Alone
<1>. QED BY <1>5, DialogParts

-----------------------------------------------------------------------------
(* The theorems *)

\* What is kept by every step.
PageInvariant ==
  /\ CallInvariant /\ LockInvariant /\ DialogInvariant
  /\ PartInvariant("sources") /\ PartInvariant("activity") /\ ResultInvariant

(* The page has no result when it has been loaded. *)
LEMMA ResultInit ==
  ASSUME Init
  PROVE  ResultInvariant
<1>1. ui.results = {} /\ ui.drawer = "none" /\ DOMAIN outbox = {}
  BY DEF Init, Page
<1>. QED BY <1>1 DEF ResultInvariant

(* It holds when the page has been loaded. *)
LEMMA PageInvariantInit == Init => PageInvariant
<1> SUFFICES ASSUME Init PROVE PageInvariant
  OBVIOUS
<1>1. CallInvariant /\ TokensTyped
  BY CallInit
<1>2. DialogInvariant /\ LockInvariant
  BY <1>1, DialogInit, LockInit
<1>3. PartInvariant("sources") /\ PartInvariant("activity")
  BY PartInit DEF Parts2
<1>4. ResultInvariant
  BY ResultInit
<1>. QED BY <1>1, <1>2, <1>3, <1>4 DEF PageInvariant

(* Every step keeps it. *)
LEMMA PageInvariantStep == PageInvariant /\ [Next]_vars => PageInvariant'
<1> SUFFICES ASSUME PageInvariant, [Next]_vars PROVE PageInvariant'
  OBVIOUS
<1>1. CallInvariant /\ LockInvariant /\ DialogInvariant
  BY DEF PageInvariant
<1>2. TokensTyped
  BY <1>1, DialogParts
<1>3. Turn /\ Course
  BY <1>1, <1>2, Turns, TurnIsCourse
<1>4. CallInvariant'
  BY <1>1, <1>3, CallStep
<1>5. LockInvariant'
  BY <1>1, <1>3, <1>4, LockStep
<1>6. DialogInvariant'
  BY <1>1, <1>3, <1>4, DialogStep
<1>7. PartInvariant("sources")'
  <2>1. "sources" \in Parts2 /\ PartInvariant("sources")
    BY DEF Parts2, PageInvariant
  <2>. QED BY <1>1, <1>3, <1>4, <2>1, PartStep
<1>8. PartInvariant("activity")'
  <2>1. "activity" \in Parts2 /\ PartInvariant("activity")
    BY DEF Parts2, PageInvariant
  <2>. QED BY <1>1, <1>3, <1>4, <2>1, PartStep
<1>9. ResultInvariant'
  BY <1>1, <1>3, <1>4, ResultStep DEF PageInvariant
<1>. QED BY <1>4, <1>5, <1>6, <1>7, <1>8, <1>9 DEF PageInvariant

(* What the page and the main process send each other is typed; one of the page's functions *)
(* has its lock at a time; and only the last preview can be confirmed.                      *)
THEOREM PageInvariantHolds == Spec => []PageInvariant
BY PageInvariantInit, PageInvariantStep, PTL DEF Spec

(* When all has been answered the page shows the vault as it is. *)
LEMMA QuietIsCurrent == PageInvariant => ScreenIsCurrent
<1> SUFFICES ASSUME PageInvariant, Quiet
             PROVE  /\ "sources" \notin missed => ui.shown = ver
                    /\ "activity" \notin missed => ui.history = log
                    /\ "results" \notin missed =>
                         ui.results \subseteq Present /\ ui.drawer \in Present \cup {"none"}
  BY DEF ScreenIsCurrent
<1>1. DOMAIN inbox = {} /\ DOMAIN outbox = {}
  BY DEF Quiet
<1>2. \A p, i : ~Told(p, i)
  BY <1>1 DEF Told
<1>3. \A i : ~PurgeFollows(i)
  BY <1>1 DEF PurgeFollows
<1>4. "sources" \notin missed => ui.shown = ver
  BY <1>2 DEF PageInvariant, PartInvariant, View, Content
<1>5. "activity" \notin missed => ui.history = log
  BY <1>2 DEF PageInvariant, PartInvariant, View, Content
<1>6. "results" \notin missed => ui.results \cup ({ui.drawer} \ {"none"}) \subseteq Present
  BY <1>3 DEF PageInvariant, ResultInvariant
<1>. QED BY <1>4, <1>5, <1>6

(* The page shows the vault's sources and its retrieval history as they are, and nothing of a *)
(* removed source, as soon as nothing is under way: App.tsx's refreshes follow every change.  *)
THEOREM ScreenAlwaysCurrent == Spec => []ScreenIsCurrent
BY PageInvariantHolds, QuietIsCurrent, PTL

(* When all has been answered a dialog's preview can be confirmed, and no other can. *)
LEMMA QuietIsUsable == PageInvariant => DialogIsUsable
<1> SUFFICES ASSUME PageInvariant, Quiet
             PROVE  /\ ui.preview # 0 => tokens[ui.preview].state \in {"pending", "expired"}
                    /\ "preview" \notin missed => Pending(tokens) \subseteq {ui.preview}
  BY DEF DialogIsUsable
<1>1. Dialog
  BY DialogParts DEF PageInvariant
<1>2. Range(inbox) = {} /\ Range(outbox) = {}
  BY DEF Quiet, Range
<1>3. ~Consuming
  BY <1>2, NoCallRests DEF Quiet, Consuming, NoWork
<1>4. ui.preview # 0 => Usable(ui.preview)
  BY <1>1, <1>3 DEF Dialog, ShowsLast
<1>5. "preview" \notin missed => issued \notin Pending(tokens) \/ ui.preview = issued
  BY <1>1, <1>2 DEF Dialog, LastIsKnown
<1>6. Pending(tokens) \subseteq {issued}
  BY <1>1 DEF Dialog, OnlyLast
<1>. QED BY <1>4, <1>5, <1>6 DEF Usable

(* The dialog never stays on a token that was used or dropped, and no token stays confirmable *)
(* without its dialog, whatever was confirmed, dismissed, replaced or reloaded meanwhile.     *)
THEOREM DialogAlwaysUsable == Spec => []DialogIsUsable
BY PageInvariantHolds, QuietIsUsable, PTL

\* A step removes a source only as it was shown.
RemovesAsShown ==
  \A s \in Present : ver'[s] = 0 =>
    \E q \in native \ native' : q.call = "purge" /\ q.arg = <<s, ver[s]>>

(* Imports add versions, and a removal compares the one that was confirmed. *)
LEMMA PurgeStep ==
  ASSUME CallInvariant, [Next]_vars
  PROVE  RemovesAsShown
<1>1. ver \in Versions /\ clock \in Nat /\ clock + 1 # 0
  BY DEF CallInvariant
<1>2. ASSUME ver' = ver PROVE RemovesAsShown
  BY <1>2 DEF RemovesAsShown, Present
<1>3. CASE Gestures
  BY <1>2, <1>3
     DEF Gestures, Gesture, vaultVars, AddFolder, ImportSample, ConfirmImport, CancelPreview,
         ChooseAnother, CancelImport, Search, KeepSource, ConfirmPurge, ClearHistory,
         RefreshHistory, Navigate, Reload, ViewContext, RemoveSource
<1>4. CASE Serve
  BY <1>2, <1>4
     DEF Serve, HandlePrepare, HandleConfirm, HandleDismiss, HandleSample, HandleCancel,
         HandleSearch, HandleFetch, HandleRefresh, HandlePreparePurge, HandlePurge, HandleClear,
         SameVault, vaultVars
<1>5. CASE Deliver \/ OpenSample
  BY <1>2, <1>5 DEF Deliver, OpenSample, vaultVars
<1>6. CASE AnswerNative
  <2>1. PICK q \in native : native' = native \ {q} /\ (AnswerPicker(q) \/ AnswerPurge(q) \/ AnswerClear(q))
    BY <1>6 DEF AnswerNative
  <2>2. q \in Calls /\ q.arg = <<q.arg[1], q.arg[2]>>
    BY CallFields DEF CallInvariant
  <2>3. CASE ver' = ver
    BY <1>2, <2>3
  <2>4. CASE /\ q.call = "purge" /\ PurgeStatus(q) = "ready"
             /\ ver' = [ver EXCEPT ![q.arg[1]] = 0]
    <3>1. AsShown(q)
      BY <2>4 DEF PurgeStatus
    <3>2. \A s \in Present : ver'[s] = 0 => s = q.arg[1]
      BY <1>1, <2>4 DEF Versions, Present
    <3>. QED BY <2>1, <2>2, <2>4, <3>1, <3>2 DEF RemovesAsShown, AsShown
  <2>. QED BY <2>1, <2>3, <2>4 DEF AnswerPicker, AnswerPurge, AnswerClear, SameVault, vaultVars
<1>7. CASE Settle
  <2>1. ASSUME NEW s \in Sources, Imports(s) PROVE RemovesAsShown
    BY <1>1, <2>1 DEF Imports, Versions, RemovesAsShown, Present
  <2>2. "folder" \in Sources /\ "sample" \in Sources
    BY DEF Sources
  <2>. QED BY <1>2, <1>7, <2>1, <2>2
     DEF Settle, SettleScan, SettleConfirm, SettleSample, SameVault, vaultVars
<1>8. CASE SampleReady \/ TokenDue \/ UNCHANGED vars
  BY <1>2, <1>8 DEF SampleReady, TokenDue, SameVault, vaultVars, vars
<1>. QED BY <1>3, <1>4, <1>5, <1>6, <1>7, <1>8 DEF Next

(* A source is removed only in the version that was shown to the user who confirmed it, whatever *)
(* was imported or removed between the preview, the confirmation and the native question.        *)
THEOREM PurgesAreAsShown == Spec => PurgedAsShown
<1>1. PageInvariant /\ [Next]_vars => [RemovesAsShown]_vars
  BY PurgeStep DEF PageInvariant
<1>2. Spec => [][RemovesAsShown]_vars
  BY <1>1, PageInvariantHolds, PTL DEF Spec
<1>. QED BY <1>2 DEF PurgedAsShown, RemovesAsShown

-----------------------------------------------------------------------------
(* The types and the bounds *)

\* A step adds at most one answer, which copies what the vault has.
Copies(r) ==
  /\ r.ver = NoVersions \/ \E listed \in Listings : r.ver = listed.ver
  /\ r.log \in {{}, log}
AnswerCopies == outbox' = outbox \/ \E r : outbox' = Append(outbox, r) /\ Copies(r)

(* An appended element needs no type of its own. *)
LEMMA AppendedAny ==
  ASSUME NEW S, NEW s \in Seq(S), NEW x
  PROVE  Range(Append(s, x)) = Range(s) \cup {x}
<1> DEFINE T == S \cup {x}
<1>1. s \in Seq(T) /\ x \in T
  OBVIOUS
<1> HIDE DEF T
<1>. QED BY <1>1, AppendedRange

(* What is of the past stays so. *)
LEMMA PastStays ==
  ASSUME NEW n \in Nat, NEW m \in Nat, n <= m
  PROVE  /\ \A v : Dated(v, n) => Dated(v, m)
         /\ \A h : Numbered(h, n) => Numbered(h, m)
<1>1. \A i \in 0 .. n : i \in 0 .. m
  OBVIOUS
<1>2. \A i \in 1 .. n : i \in 1 .. m
  OBVIOUS
<1>. QED BY <1>1, <1>2 DEF Dated, Numbered

(* The answers of the handlers. *)
LEMMA PlainCopies ==
  ASSUME NEW q, NEW s
  PROVE  /\ Copies(Answer(q, s))
         /\ \A g : Copies([Answer(q, s) EXCEPT !.got = g])
         /\ \A g, d : \A listed \in Listings :
              Copies([Answer(q, s) EXCEPT !.got = g, !.ver = listed.ver, !.draft = d, !.log = log])
         /\ Copies([Answer(q, s) EXCEPT !.ver = ver])
         /\ \A t, c : Copies([Answer(q, s) EXCEPT !.token = t, !.can = c])
<1>1. \E listed \in Listings : listed.ver = ver
  <2>1. Listing(ver, FALSE) \in Listings /\ Listing(ver, FALSE).ver = ver
    BY DEF Listings, Listing
  <2>. QED BY <2>1
<1>. QED BY <1>1 DEF Copies, Answer

(* No step of the main process answers otherwise. *)
LEMMA ServedCopies ==
  ASSUME Serve \/ AnswerNative \/ Settle \/ SampleReady \/ OpenSample
  PROVE  AnswerCopies
<1>1. ASSUME NEW r, Reply(r), Copies(r) PROVE AnswerCopies
  BY <1>1 DEF Reply, AnswerCopies
<1>2. ASSUME NEW q, NEW s, Reply(Answer(q, s)) PROVE AnswerCopies
  BY <1>1, <1>2, PlainCopies
<1>3. UNCHANGED outbox => AnswerCopies
  BY DEF AnswerCopies
<1>4. CASE Serve
  <2>1. PICK q : \/ HandlePrepare(q) \/ HandleConfirm(q) \/ HandleDismiss(q) \/ HandleSample(q)
                 \/ HandleCancel(q) \/ HandleSearch(q) \/ HandleFetch(q) \/ HandleRefresh(q)
                 \/ HandlePreparePurge(q) \/ HandlePurge(q) \/ HandleClear(q)
    BY <1>4 DEF Serve
  <2>2. CASE \/ HandlePrepare(q) \/ HandleConfirm(q) \/ HandleDismiss(q) \/ HandleSample(q)
             \/ HandleCancel(q) \/ HandlePurge(q) \/ HandleClear(q)
    BY <1>2, <1>3, <2>2
       DEF HandlePrepare, HandleConfirm, HandleDismiss, HandleSample, HandleCancel, HandlePurge,
           HandleClear
  <2>3. CASE HandleSearch(q) \/ HandleFetch(q)
    <3>1. \/ Reply(Answer(q, "thrown"))
          \/ \E g : Reply([Answer(q, "ok") EXCEPT !.got = g])
      BY <2>3 DEF HandleSearch, HandleFetch, Withheld, Retrieve
    <3>. QED BY <1>1, <3>1, PlainCopies
  <2>4. CASE HandleRefresh(q)
    <3>1. PICK listed \in Listings : \E g, s :
            Reply([Answer(q, s) EXCEPT !.got = g, !.ver = listed.ver, !.draft = listed.draft, !.log = log])
      BY <2>4 DEF HandleRefresh
    <3>2. PICK g, s :
            Reply([Answer(q, s) EXCEPT !.got = g, !.ver = listed.ver, !.draft = listed.draft, !.log = log])
      BY <3>1
    <3>3. Copies([Answer(q, s) EXCEPT !.got = g, !.ver = listed.ver, !.draft = listed.draft, !.log = log])
      BY PlainCopies
    <3>. QED BY <1>1, <3>2, <3>3
  <2>5. CASE HandlePreparePurge(q)
    <3>1. (\E s : Reply(Answer(q, s))) \/ Reply([Answer(q, "ready") EXCEPT !.ver = ver])
      BY <2>5 DEF HandlePreparePurge
    <3>. QED BY <1>1, <3>1, PlainCopies
  <2>. QED BY <2>1, <2>2, <2>3, <2>4, <2>5
<1>5. CASE AnswerNative
  BY <1>2, <1>3, <1>5 DEF AnswerNative, AnswerPicker, AnswerPurge, AnswerClear
<1>6. CASE Settle
  <2>1. CASE SettleScan
    <3>1. \/ \E s : Reply(Answer(work.q, s))
          \/ \E t, c : Reply([Answer(work.q, "ready") EXCEPT !.token = t, !.can = c])
      BY <2>1 DEF SettleScan
    <3>. QED BY <1>1, <3>1, PlainCopies
  <2>. QED BY <1>2, <1>6, <2>1 DEF Settle, SettleConfirm, SettleSample
<1>7. CASE SampleReady \/ OpenSample
  BY <1>2, <1>3, <1>7 DEF SampleReady, OpenSample
<1>. QED BY <1>4, <1>5, <1>6, <1>7

(* So does the list of sources. *)
LEMMA ListedOfThePast ==
  ASSUME clock \in Nat, Dated(ver, clock), NEW listed \in Listings
  PROVE  Dated(listed.ver, clock)
BY DEF Dated, Listings, Listing

(* The vault's versions are of its clock, its retrievals of gestures made. *)
LEMMA VaultOfThePast ==
  ASSUME CallInvariant, PastInvariant, [Next]_vars
  PROVE  /\ clock' \in Nat /\ clock <= clock' /\ gestures' \in Nat /\ gestures <= gestures'
         /\ Dated(ver', clock') /\ Numbered(log', gestures')
<1>1. clock \in Nat /\ gestures \in Nat /\ Dated(ver, clock) /\ Numbered(log, gestures)
  BY DEF CallInvariant, PastInvariant
<1>2. ASSUME UNCHANGED vaultVars, gestures' \in {gestures, gestures + 1}
      PROVE  /\ clock' \in Nat /\ clock <= clock' /\ gestures' \in Nat /\ gestures <= gestures'
             /\ Dated(ver', clock') /\ Numbered(log', gestures')
  <2>1. gestures' \in Nat /\ gestures <= gestures' /\ clock' = clock /\ ver' = ver /\ log' = log
    BY <1>1, <1>2 DEF vaultVars
  <2>. QED BY <1>1, <2>1, PastStays
<1>3. ASSUME UNCHANGED <<clock, gestures>>, Dated(ver', clock), Numbered(log', gestures)
      PROVE  /\ clock' \in Nat /\ clock <= clock' /\ gestures' \in Nat /\ gestures <= gestures'
             /\ Dated(ver', clock') /\ Numbered(log', gestures')
  BY <1>1, <1>3
<1>10. ASSUME UNCHANGED <<ver, log, gestures>>, clock' = clock + 1
      PROVE  /\ clock' \in Nat /\ clock <= clock' /\ gestures' \in Nat /\ gestures <= gestures'
             /\ Dated(ver', clock') /\ Numbered(log', gestures')
  <2>1. clock + 1 \in Nat /\ clock <= clock + 1
    BY <1>1
  <2>2. Dated(ver, clock + 1)
    BY <1>1, <2>1, PastStays
  <2>. QED BY <1>1, <1>10, <2>1, <2>2
<1>4. CASE Gestures
  BY <1>2, <1>4
     DEF Gestures, Gesture, AddFolder, ImportSample, ConfirmImport, CancelPreview,
         ChooseAnother, CancelImport, Search, KeepSource, ConfirmPurge, ClearHistory,
         RefreshHistory, Navigate, Reload, ViewContext, RemoveSource
<1>5. CASE Serve
  <2> DEFINE q == Head(inbox)
  <2>1. q.id \in 1 .. gestures
    <3>1. inbox # <<>> /\ inbox \in Seq(Calls) /\ \A p \in Flying : p.id <= gestures
      BY <1>5 DEF Serve, CallInvariant
    <3>2. q \in Calls /\ q \in Range(inbox)
      BY <3>1, TakenRange
    <3>3. q.id \in Nat /\ q.id # 0 /\ q.id <= gestures
      BY <3>1, <3>2, CallFields DEF Flying
    <3>. QED BY <1>1, <3>3
  <2>2. UNCHANGED gestures
    BY <1>5 DEF Serve, pageVars
  <2>3. CASE HandleSearch(q) \/ HandleFetch(q)
    <3>1. UNCHANGED <<ver, clock>>
          /\ (log' = log \/ \E g \in SUBSET (Sources \cup {"none"}) : log' = log \cup {q.id} \X g)
      BY <2>3 DEF HandleSearch, HandleFetch, Withheld, Retrieve, Entries, Present
    <3> HIDE DEF q
    <3>2. \A g \in SUBSET (Sources \cup {"none"}) : Numbered(log \cup {q.id} \X g, gestures)
      BY <1>1, <2>1 DEF Numbered
    <3>. QED BY <1>1, <1>3, <2>2, <3>1, <3>2
  <2>4. HandleSearch(q) \/ HandleFetch(q) \/ UNCHANGED vaultVars
        \/ (UNCHANGED <<ver, log>> /\ clock' = clock + 1)
    BY <1>5
       DEF Serve, HandlePrepare, HandleConfirm, HandleDismiss, HandleSample, HandleCancel,
           HandleRefresh, HandlePreparePurge, HandlePurge, HandleClear, SameVault, vaultVars
  <2>. QED BY <1>2, <1>10, <2>2, <2>3, <2>4
<1>6. CASE Deliver
  BY <1>2, <1>6 DEF Deliver
<1>7. CASE AnswerNative
  <2>1. UNCHANGED gestures
    BY <1>7 DEF AnswerNative, pageVars
  <2>2. \/ UNCHANGED vaultVars
        \/ /\ UNCHANGED clock /\ log' \subseteq log
           /\ ver' = ver \/ \E s : ver' = [ver EXCEPT ![s] = 0]
    BY <1>7 DEF AnswerNative, AnswerPicker, AnswerPurge, AnswerClear, SameVault
  <2>3. ASSUME NEW s PROVE Dated([ver EXCEPT ![s] = 0], clock)
    <3>1. 0 \in 0 .. clock /\ ver \in [Sources -> 0 .. clock]
      BY <1>1 DEF Dated
    <3>. QED BY <3>1 DEF Dated
  <2>4. log' \subseteq log => Numbered(log', gestures)
    BY <1>1 DEF Numbered
  <2>. QED BY <1>1, <1>2, <1>3, <2>1, <2>2, <2>3, <2>4
<1>8. CASE Settle
  <2>1. UNCHANGED gestures
    BY <1>8 DEF Settle, pageVars
  <2>2. UNCHANGED vaultVars \/ \E s : Imports(s)
    BY <1>8 DEF Settle, SettleScan, SettleConfirm, SettleSample, SameVault, vaultVars
  <2>3. ASSUME NEW s, Imports(s)
        PROVE  clock' = clock + 1 /\ Dated(ver', clock') /\ log' = log
    <3>1. clock' = clock + 1 /\ ver' = [ver EXCEPT ![s] = clock + 1] /\ log' = log
      BY <2>3 DEF Imports
    <3>2. Dated(ver, clock + 1) /\ clock + 1 \in 0 .. clock + 1
      BY <1>1, PastStays
    <3>. QED BY <3>1, <3>2 DEF Dated
  <2>. QED BY <1>1, <1>2, <2>1, <2>2, <2>3
<1>9. CASE SampleReady \/ TokenDue \/ UNCHANGED vars
  BY <1>2, <1>9 DEF SampleReady, TokenDue, SameVault, pageVars, vars
<1>11. CASE OpenSample
  BY <1>10, <1>11 DEF OpenSample, pageVars
<1>. QED BY <1>4, <1>5, <1>6, <1>7, <1>8, <1>9, <1>11 DEF Next

(* So is what the answers carry and what the page shows. *)
LEMMA PastStep ==
  ASSUME CallInvariant, Course, PastInvariant, [Next]_vars
  PROVE  PastInvariant'
<1>1. /\ clock \in Nat /\ clock' \in Nat /\ clock <= clock'
      /\ gestures \in Nat /\ gestures' \in Nat /\ gestures <= gestures'
      /\ Dated(ver', clock') /\ Numbered(log', gestures')
  BY VaultOfThePast DEF CallInvariant
<1>2. /\ \A v : Dated(v, clock) => Dated(v, clock')
      /\ \A h : Numbered(h, gestures) => Numbered(h, gestures')
  BY <1>1, PastStays
<1>3. Dated(NoVersions, clock) /\ Numbered({}, gestures)
  BY <1>1 DEF Dated, Numbered, NoVersions
<1>4. outbox \in Seq(Answers)
  BY DEF CallInvariant
<1>5. \A r \in Range(outbox') : Dated(r.ver, clock') /\ Numbered(r.log, gestures')
  <2>1. AnswerCopies \/ (outbox # <<>> /\ outbox' = Tail(outbox))
    <3>1. CASE Serve \/ AnswerNative \/ Settle \/ SampleReady \/ OpenSample
      BY <3>1, ServedCopies
    <3>2. CASE Gestures \/ TokenDue \/ UNCHANGED vars
      BY <3>2
         DEF AnswerCopies, Gestures, Gesture, AddFolder, ImportSample, ConfirmImport,
             CancelPreview, ChooseAnother, CancelImport, Search, KeepSource, ConfirmPurge,
             ClearHistory, RefreshHistory, Navigate, Reload, ViewContext, RemoveSource, TokenDue,
             vars
    <3>3. CASE Deliver
      BY <3>3 DEF Deliver
    <3>. QED BY <3>1, <3>2, <3>3 DEF Next
  <2>2. \A r \in Range(outbox) : Dated(r.ver, clock') /\ Numbered(r.log, gestures')
    BY <1>2 DEF PastInvariant
  <2>3. CASE outbox' = outbox
    BY <2>2, <2>3
  <2>4. ASSUME NEW r, outbox' = Append(outbox, r), Copies(r)
        PROVE  \A a \in Range(outbox') : Dated(a.ver, clock') /\ Numbered(a.log, gestures')
    <3>1. Range(outbox') = Range(outbox) \cup {r}
      BY <1>4, <2>4, AppendedAny
    <3>2. Dated(r.ver, clock) /\ Numbered(r.log, gestures)
      BY <1>1, <1>3, <2>4, ListedOfThePast DEF Copies, PastInvariant
    <3>. QED BY <1>2, <2>2, <3>1, <3>2
  <2>5. CASE outbox # <<>> /\ outbox' = Tail(outbox)
    BY <1>4, <2>2, <2>5, TakenRange
  <2>. QED BY <2>1, <2>3, <2>4, <2>5 DEF AnswerCopies
<1>6. Dated(ui'.shown, clock') /\ Numbered(ui'.history, gestures')
  <2>1. ASSUME ui'.shown = ui.shown, ui'.history = ui.history
        PROVE  Dated(ui'.shown, clock') /\ Numbered(ui'.history, gestures')
    BY <1>2, <2>1 DEF PastInvariant
  <2>2. CASE Reloaded
    <3>1. ui'.shown = NoVersions /\ ui'.history = {}
      BY <2>2 DEF Reloaded, Page
    <3>. QED BY <1>2, <1>3, <3>1
  <2>3. CASE Delivered
    <3> DEFINE r == Head(outbox)
    <3>1. r \in Range(outbox)
      BY <1>4, <2>3, TakenRange DEF Delivered
    <3>2. ui'.shown \in {ui.shown, r.ver} /\ ui'.history \in {ui.history, r.log}
      BY <2>3 DEF Delivered, Learned, ViewCourse
    <3>. QED BY <1>2, <3>1, <3>2 DEF PastInvariant
  <2>. QED BY <2>1, <2>2, <2>3
       DEF Course, GestureMade, LookKept, Handles, Left, Stays, pageVars
<1>. QED BY <1>1, <1>5, <1>6 DEF PastInvariant

(* The bounds are kept, and what the page can miss is named. *)
LEMMA BoundStep ==
  ASSUME CallInvariant, TokensTyped, BoundInvariant, [Next]_vars
  PROVE  BoundInvariant'
<1> DEFINE Missable == {"sources", "activity", "preview", "results"}
<1>1. /\ gestures \in Nat /\ gestures <= MaxGestures /\ reloads \in 0 .. MaxReloads
      /\ fails \in 0 .. MaxFails /\ issued <= MaxTokens /\ missed \subseteq Missable
      /\ {MaxGestures, MaxReloads, MaxTokens, MaxFails} \subseteq Nat
  BY RendererAssumption DEF CallInvariant, BoundInvariant
<1>2. Fail \/ Sound => fails' \in 0 .. MaxFails
  BY <1>1 DEF Fail, Sound
<1>3. ASSUME UNCHANGED <<gestures, reloads, issued, missed>>, Fail \/ Sound
      PROVE  BoundInvariant'
  BY <1>1, <1>2, <1>3 DEF BoundInvariant
<1>4. CASE Gestures
  <2>1. gestures' = gestures + 1 /\ gestures < MaxGestures /\ issued' = issued /\ fails' = fails
    BY <1>4
       DEF Gestures, Gesture, InView, InDialog, AddFolder, ImportSample, ConfirmImport,
           CancelPreview, ChooseAnother, CancelImport, Search, KeepSource, ConfirmPurge,
           ClearHistory, RefreshHistory, Navigate, Reload, ViewContext, RemoveSource, tokenVars
  <2>2. \/ reloads' = reloads /\ missed' = missed
        \/ Reload
    BY <1>4
       DEF Gestures, Gesture, AddFolder, ImportSample, ConfirmImport, CancelPreview,
           ChooseAnother, CancelImport, Search, KeepSource, ConfirmPurge, ClearHistory,
           RefreshHistory, Navigate, ViewContext, RemoveSource
  <2>3. ASSUME Reload PROVE reloads' \in 0 .. MaxReloads /\ missed' \subseteq Missable
    BY <1>1, <2>3 DEF Reload, Forgotten
  <2>4. gestures' <= MaxGestures
    BY <1>1, <2>1
  <2>. QED BY <1>1, <2>1, <2>2, <2>3, <2>4 DEF BoundInvariant
<1>5. CASE Serve
  <2>1. UNCHANGED <<gestures, reloads, issued, missed>>
    BY <1>5
       DEF Serve, HandlePrepare, HandleConfirm, HandleDismiss, HandleSample, HandleCancel,
           HandleSearch, HandleFetch, HandleRefresh, HandlePreparePurge, HandlePurge, HandleClear,
           SameTokens, tokenVars, pageVars
  <2>2. Fail \/ Sound
    BY <1>5
       DEF Serve, HandlePrepare, HandleConfirm, HandleDismiss, HandleSample, HandleCancel,
           HandleSearch, HandleFetch, HandleRefresh, HandlePreparePurge, HandlePurge, HandleClear,
           Withheld
  <2>. QED BY <1>3, <2>1, <2>2
<1>6. CASE Deliver
  <2> DEFINE r == Head(outbox)
  <2>1. UNCHANGED <<gestures, reloads, fails, issued>>
    BY <1>6 DEF Deliver, tokenVars
  <2>2. r \in Answers
    BY <1>6, TakenRange DEF Deliver, CallInvariant
  <2>3. r.of.call = "refresh" => Parts(r.of) \subseteq Missable
    BY <2>2, AnswerFields, CallFields DEF Parts, Parted
  <2>4. missed' \subseteq missed \cup Missable
    BY <1>6, <2>3 DEF Deliver, Unread
  <2>. QED BY <1>1, <2>1, <2>4 DEF BoundInvariant
<1>7. CASE AnswerNative
  <2>1. UNCHANGED <<gestures, reloads, issued, missed>> /\ (Fail \/ Sound)
    BY <1>7
       DEF AnswerNative, AnswerPicker, AnswerPurge, AnswerClear, SameTokens, tokenVars, pageVars
  <2>. QED BY <1>3, <2>1
<1>8. CASE Settle
  <2>1. UNCHANGED <<gestures, reloads, fails, missed>>
        /\ (issued' = issued \/ (issued < MaxTokens /\ issued' = issued + 1))
    BY <1>8 DEF Settle, SettleScan, SettleConfirm, SettleSample, SameTokens, tokenVars, pageVars
  <2>2. issued' <= MaxTokens
    <3>1. issued \in Nat /\ MaxTokens \in Nat
      BY <1>1 DEF TokensTyped
    <3>. QED BY <1>1, <2>1, <3>1
  <2>. QED BY <1>1, <2>1, <2>2 DEF BoundInvariant
<1>9. CASE SampleReady \/ OpenSample \/ TokenDue \/ UNCHANGED vars
  BY <1>3, <1>9
     DEF SampleReady, OpenSample, TokenDue, SameTokens, tokenVars, pageVars, vars, Sound
<1>. QED BY <1>4, <1>5, <1>6, <1>7, <1>8, <1>9 DEF Next

(* The page that has been loaded. *)
LEMMA PastInit ==
  ASSUME Init
  PROVE  PastInvariant /\ BoundInvariant
<1>1. /\ ver \in [Sources -> 0 .. 1] /\ ui.shown = ver /\ ui.history = {} /\ log = {}
      /\ clock = 1 /\ Range(outbox) = {}
  BY DEF Init, Page, NoVersions, Sources, Range
<1>2. PastInvariant
  BY <1>1 DEF PastInvariant, Dated, Numbered
<1>3. BoundInvariant
  BY RendererAssumption DEF Init, BoundInvariant
<1>. QED BY <1>2, <1>3

(* The page shows what it may show, no version or retrieval that never was, and no preview *)
(* that was not issued; and the counters keep their bounds.                                *)
THEOREM TypeCorrect == Spec => []TypeOK
<1>1. Init => PastInvariant /\ BoundInvariant
  BY PastInit
<1>2. PageInvariant /\ PastInvariant /\ BoundInvariant /\ [Next]_vars
        => (PastInvariant /\ BoundInvariant)'
  <2> SUFFICES ASSUME PageInvariant, PastInvariant, BoundInvariant, [Next]_vars
               PROVE  (PastInvariant /\ BoundInvariant)'
    OBVIOUS
  <2>1. CallInvariant /\ TokensTyped
    BY DialogParts DEF PageInvariant
  <2>2. Course
    BY <2>1, Turns, TurnIsCourse
  <2>. QED BY <2>1, <2>2, PastStep, BoundStep
<1>3. PageInvariant /\ PastInvariant /\ BoundInvariant => TypeOK
  <2> SUFFICES ASSUME PageInvariant, PastInvariant, BoundInvariant PROVE TypeOK
    OBVIOUS
  <2>1. PageTyped /\ HeldTyped /\ TokensTyped /\ Dialog
    BY CallParts, DialogParts DEF PageInvariant
  <2>2. issued \in Nat /\ issued <= MaxTokens /\ due \in 0 .. issued /\ DOMAIN tokens \subseteq 1 .. issued
        /\ {MaxGestures, MaxReloads, MaxTokens, MaxFails} \subseteq Nat
    BY <2>1, RendererAssumption DEF TokensTyped, BoundInvariant
  <2>3. /\ ui \in Pages /\ gestures \in Nat /\ since \in Nat /\ since <= gestures
        /\ gestures <= MaxGestures /\ reloads \in 0 .. MaxReloads
    BY <2>1 DEF PageTyped, BoundInvariant
  <2>4. ui.preview \in Nat /\ (ui.preview # 0 => ui.preview = issued)
    BY <2>1, <2>3 DEF Dialog, ShowsLast, Pages
  <2>5. ui.preview \in 0 .. issued /\ gestures \in 0 .. MaxGestures /\ since \in 0 .. gestures
        /\ issued \in 0 .. MaxTokens
    BY <2>2, <2>3, <2>4
  <2>6. /\ ui.view \in {"library", "history"}
        /\ ui.activity \in {"none", "preflight", "import", "search", "purge"}
        /\ {ui.lock, ui.busy, ui.can, ui.historyBusy} \subseteq BOOLEAN
        /\ ui.results \subseteq Sources /\ ui.drawer \in Sources \cup {"none"}
    BY <2>3 DEF Pages
  <2>7. {work.aborted, work.open} \subseteq BOOLEAN
    BY <2>1 DEF HeldTyped
  <2>. QED BY <2>2, <2>3, <2>5, <2>6, <2>7 DEF TypeOK, PastInvariant, BoundInvariant, Dated, Numbered
<1>. QED BY <1>1, <1>2, <1>3, PageInvariantHolds, PTL DEF Spec
=============================================================================
