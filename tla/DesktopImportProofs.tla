------------------------- MODULE DesktopImportProofs -------------------------
(***************************************************************************)
(* The desktop's imports, for any number of previews, windows, samples and *)
(* remembered tombstones.  RunInvariant says that activeImport names the   *)
(* one import that runs; TokenInvariant that an import which commits holds *)
(* its token and nobody else can use it.  Every operation of the token     *)
(* table but three only withdraws: it expires or aborts what is pending    *)
(* and forgets what is spent (Withdraws).                                  *)
(***************************************************************************)
EXTENDS DesktopImport, FiniteSetTheorems, WellFoundedInduction, TLAPS

-----------------------------------------------------------------------------
(* Tables.                                                                 *)

Entries == [state : States, sender : Nat, importable : BOOLEAN]

\* A function from tokens to entries.
IsTable(t) == t \in [DOMAIN t -> Entries]

\* What the operations do that only withdraw previews: a pending one expires or
\* is aborted, a spent one may be forgotten, and one being confirmed stays.
Withdraws(t, u) ==
  /\ DOMAIN u \subseteq DOMAIN t
  /\ \A k \in DOMAIN u :
       /\ u[k].sender = t[k].sender /\ u[k].importable = t[k].importable
       /\ u[k].state = t[k].state
            \/ (t[k].state = "pending" /\ u[k].state \in {"expired", "aborted"})
  /\ \A k \in DOMAIN t : t[k].state = "confirming" => k \in DOMAIN u

\* Setting the state of some tokens keeps everything else of the table.
LEMMA StateIsSet ==
  ASSUME NEW t, IsTable(t), NEW K, NEW s, s \in States, NEW u, u = SetState(t, K, s)
  PROVE  /\ IsTable(u) /\ DOMAIN u = DOMAIN t
         /\ \A k \in DOMAIN t :
              /\ u[k].sender = t[k].sender /\ u[k].importable = t[k].importable
              /\ k \in K => u[k].state = s
              /\ k \notin K => u[k].state = t[k].state
<1>1. DOMAIN u = DOMAIN t
  BY DEF SetState
<1>2. \A k \in DOMAIN t : u[k] = IF k \in K THEN [t[k] EXCEPT !.state = s] ELSE t[k]
  BY DEF SetState
<1>3. \A k \in DOMAIN t : t[k] \in Entries
  BY DEF IsTable
<1>4. \A k \in DOMAIN t :
         /\ u[k] \in Entries
         /\ u[k].sender = t[k].sender /\ u[k].importable = t[k].importable
         /\ k \in K => u[k].state = s
         /\ k \notin K => u[k].state = t[k].state
  BY <1>2, <1>3 DEF Entries
<1>5. u \in [DOMAIN u -> Entries]
  BY <1>1, <1>4 DEF SetState
<1> QED BY <1>1, <1>4, <1>5 DEF IsTable

\* Withdrawing and then withdrawing again is withdrawing.
LEMMA WithdrawsTwice ==
  ASSUME NEW t, NEW u, NEW v, Withdraws(t, u), Withdraws(u, v)
  PROVE  Withdraws(t, v)
<1>1. \A k \in DOMAIN v : k \in DOMAIN u /\ k \in DOMAIN t
  BY DEF Withdraws
<1>2. \A k \in DOMAIN v :
         /\ v[k].sender = t[k].sender /\ v[k].importable = t[k].importable
         /\ v[k].state = t[k].state
              \/ (t[k].state = "pending" /\ v[k].state \in {"expired", "aborted"})
  BY <1>1 DEF Withdraws
<1>3. \A k \in DOMAIN t : t[k].state = "confirming" => k \in DOMAIN v
  <2> SUFFICES ASSUME NEW k \in DOMAIN t, t[k].state = "confirming"
               PROVE  k \in DOMAIN v
    OBVIOUS
  <2>1. k \in DOMAIN u /\ u[k].state = "confirming"
    BY DEF Withdraws
  <2> QED BY <2>1 DEF Withdraws
<1> QED BY <1>1, <1>2, <1>3 DEF Withdraws

\* Nothing happens: nothing is withdrawn.
LEMMA WithdrawsNothing ==
  ASSUME NEW t, NEW u, u = t
  PROVE  Withdraws(t, u)
BY DEF Withdraws

\* Tokens past their time expire while they are pending.
LEMMA Expiring ==
  ASSUME NEW t, IsTable(t), NEW K, NEW d, NEW u, u = Expire(t, K, d)
  PROVE  IsTable(u) /\ DOMAIN u = DOMAIN t /\ Withdraws(t, u)
<1> DEFINE J == {k \in Pending(t) \cap K : k <= d}
<1>1. u = SetState(t, J, "expired")
  BY DEF Expire
<1>2. \A k \in J : t[k].state = "pending"
  BY DEF Pending, InState
<1> HIDE DEF J
<1>3. "expired" \in States
  BY DEF States, Terminal
<1>4. /\ IsTable(u) /\ DOMAIN u = DOMAIN t
      /\ \A k \in DOMAIN t :
           /\ u[k].sender = t[k].sender /\ u[k].importable = t[k].importable
           /\ k \in J => u[k].state = "expired"
           /\ k \notin J => u[k].state = t[k].state
  BY <1>1, <1>3, StateIsSet
<1> QED BY <1>2, <1>4 DEF Withdraws

\* Pruning expires what is past its time and forgets only what is spent.
LEMMA Pruning ==
  ASSUME NEW t, IsTable(t), NEW d, NEW u, u = Prune(t, d)
  PROVE  IsTable(u) /\ Withdraws(t, u)
<1> DEFINE e == Expire(t, DOMAIN t, d)
           old == {k \in Tombstones(e) :
                      Cardinality({j \in Tombstones(e) : j > k}) >= MaxTombstones}
<1>1. u = Restrict(e, DOMAIN e \ old)
  BY DEF Prune
<1>2. old \subseteq Tombstones(e)
  OBVIOUS
<1> HIDE DEF old
<1>3. IsTable(e) /\ DOMAIN e = DOMAIN t /\ Withdraws(t, e)
  BY Expiring
<1> HIDE DEF e
<1>4. DOMAIN u = DOMAIN e \ old /\ \A k \in DOMAIN u : u[k] = e[k]
  BY <1>1 DEF Restrict
<1>5. u \in [DOMAIN u -> Entries]
  BY <1>1, <1>3, <1>4 DEF IsTable, Restrict
<1>6. \A k \in old : e[k].state # "confirming"
  BY <1>2 DEF Tombstones, InState, Terminal
<1>7. Withdraws(e, u)
  BY <1>4, <1>6 DEF Withdraws
<1> QED BY <1>3, <1>5, <1>7, WithdrawsTwice DEF IsTable

\* No pending token of the windows remains, and the rest is only withdrawn.
LEMMA Aborting ==
  ASSUME NEW t, IsTable(t), NEW W, NEW d, NEW u, u = AbortPending(t, W, d)
  PROVE  /\ IsTable(u) /\ Withdraws(t, u)
         /\ \A k \in Pending(u) : u[k].sender \notin W
<1> DEFINE e == Expire(t, DOMAIN t, d)
           K == {k \in Pending(e) : e[k].sender \in W}
           a == SetState(e, K, "aborted")
<1>1. u = Prune(a, d)
  BY DEF AbortPending
<1>2. IsTable(e) /\ DOMAIN e = DOMAIN t /\ Withdraws(t, e)
  BY Expiring
<1>3. \A k : k \in K <=> k \in DOMAIN e /\ e[k].state = "pending" /\ e[k].sender \in W
  BY DEF Pending, InState
<1> HIDE DEF e, K
<1>4. "aborted" \in States
  BY DEF States, Terminal
<1>5. /\ IsTable(a) /\ DOMAIN a = DOMAIN e
      /\ \A k \in DOMAIN e :
           /\ a[k].sender = e[k].sender /\ a[k].importable = e[k].importable
           /\ k \in K => a[k].state = "aborted"
           /\ k \notin K => a[k].state = e[k].state
  BY <1>2, <1>4, StateIsSet
<1> HIDE DEF a
<1>6. Withdraws(e, a)
  BY <1>3, <1>5 DEF Withdraws
<1>7. IsTable(u) /\ Withdraws(a, u)
  BY <1>1, <1>5, Pruning
<1>8. Withdraws(t, u)
  BY <1>2, <1>6, <1>7, WithdrawsTwice
<1>9. \A k \in Pending(u) : u[k].sender \notin W
  <2> SUFFICES ASSUME NEW k \in Pending(u), u[k].sender \in W
               PROVE  FALSE
    OBVIOUS
  <2>1. k \in DOMAIN u /\ u[k].state = "pending"
    BY DEF Pending, InState
  <2>2. k \in DOMAIN a /\ a[k].state = "pending" /\ a[k].sender \in W
    BY <1>7, <2>1 DEF Withdraws
  <2>3. k \notin K /\ e[k].state = "pending" /\ e[k].sender \in W /\ k \in DOMAIN e
    BY <1>5, <2>2
  <2> QED BY <1>3, <2>3
<1> QED BY <1>7, <1>8, <1>9

\* No token at all stays pending when the previews of every window are dropped.
LEMMA AbortingAll ==
  ASSUME NEW t, IsTable(t), NEW d, NEW u, u = AbortAll(t, d)
  PROVE  IsTable(u) /\ Withdraws(t, u) /\ Pending(u) = {}
<1> DEFINE W == {t[k].sender : k \in DOMAIN t}
<1>1. u = AbortPending(t, W, d)
  BY DEF AbortAll
<1>2. \A k \in DOMAIN t : t[k].sender \in W
  OBVIOUS
<1> HIDE DEF W
<1>3. IsTable(u) /\ Withdraws(t, u) /\ \A k \in Pending(u) : u[k].sender \notin W
  BY <1>1, Aborting
<1>4. \A k \in Pending(u) : u[k].sender \in W
  BY <1>2, <1>3 DEF Pending, InState, Withdraws
<1> QED BY <1>3, <1>4

\* The same for one window.
LEMMA AbortingForSender ==
  ASSUME NEW t, IsTable(t), NEW w, NEW d, NEW u, u = AbortPendingForSender(t, w, d)
  PROVE  IsTable(u) /\ Withdraws(t, u) /\ \A k \in Pending(u) : u[k].sender # w
<1> DEFINE W == {w}
<1>1. u = AbortPending(t, W, d)
  BY DEF AbortPendingForSender
<1>2. w \in W
  OBVIOUS
<1> HIDE DEF W
<1> QED BY <1>1, <1>2, Aborting

\* Cancelling a token withdraws it.
LEMMA Cancelling ==
  ASSUME NEW t, IsTable(t), NEW k, NEW d, NEW u, u = Cancel(t, k, d)
  PROVE  IsTable(u) /\ Withdraws(t, u)
<1> DEFINE O == {k}
           e == Expire(t, O, d)
           K == {k} \cap Pending(e)
<1>1. u = SetState(e, K, "aborted")
  BY DEF Cancel
<1> HIDE DEF O
<1>2. IsTable(e) /\ DOMAIN e = DOMAIN t /\ Withdraws(t, e)
  BY Expiring
<1>3. \A j \in K : e[j].state = "pending"
  BY DEF Pending, InState
<1> HIDE DEF e, K
<1>4. "aborted" \in States
  BY DEF States, Terminal
<1>5. /\ IsTable(u) /\ DOMAIN u = DOMAIN e
      /\ \A j \in DOMAIN e :
           /\ u[j].sender = e[j].sender /\ u[j].importable = e[j].importable
           /\ j \in K => u[j].state = "aborted"
           /\ j \notin K => u[j].state = e[j].state
  BY <1>1, <1>2, <1>4, StateIsSet
<1>6. Withdraws(e, u)
  BY <1>3, <1>5 DEF Withdraws
<1> QED BY <1>2, <1>5, <1>6, WithdrawsTwice

\* So does the timer of one token.
LEMMA ExpiringOne ==
  ASSUME NEW t, IsTable(t), NEW k, NEW d, NEW u, u = ExpireIfDue(t, k, d)
  PROVE  IsTable(u) /\ Withdraws(t, u)
<1> DEFINE O == {k}
           e == Expire(t, O, d)
<1>1. u = Prune(e, d)
  BY DEF ExpireIfDue
<1> HIDE DEF O
<1>2. IsTable(e) /\ Withdraws(t, e)
  BY Expiring
<1> HIDE DEF e
<1>3. IsTable(u) /\ Withdraws(e, u)
  BY <1>1, <1>2, Pruning
<1> QED BY <1>2, <1>3, WithdrawsTwice

\* Taking a token confirms it, expires it or leaves it, and no other is touched.
LEMMA Taking ==
  ASSUME NEW t, IsTable(t), NEW k, NEW d, NEW u, u = TakeForConfirmation(t, k, d)
  PROVE  /\ IsTable(u) /\ DOMAIN u = DOMAIN t
         /\ \A j \in DOMAIN t :
              u[j].sender = t[j].sender /\ u[j].importable = t[j].importable
         /\ \A j \in DOMAIN t : j # k => u[j].state = t[j].state
         /\ k \in DOMAIN t =>
              \/ t[k].state # "pending" /\ u[k].state = t[k].state
              \/ t[k].state = "pending" /\ u[k].state \in {"expired", "confirming"}
<1> DEFINE J == {j \in Pending(t) \cap {k} : j <= d}
           e == SetState(t, J, "expired")
           K == {k} \cap Pending(e)
<1>1. u = SetState(e, K, "confirming")
  BY DEF TakeForConfirmation, Expire
<1>2. \A j \in J : j = k /\ t[j].state = "pending"
  BY DEF Pending, InState
<1>3. \A j : j \in K <=> j = k /\ k \in DOMAIN e /\ e[k].state = "pending"
  BY DEF Pending, InState
<1> HIDE DEF J, e, K
<1>4. "expired" \in States /\ "confirming" \in States
  BY DEF States, Terminal
<1>5. /\ IsTable(e) /\ DOMAIN e = DOMAIN t
      /\ \A j \in DOMAIN t :
           /\ e[j].sender = t[j].sender /\ e[j].importable = t[j].importable
           /\ j \in J => e[j].state = "expired"
           /\ j \notin J => e[j].state = t[j].state
  <2> e = SetState(t, J, "expired")
    BY DEF e
  <2> QED BY <1>4, StateIsSet
<1>6. /\ IsTable(u) /\ DOMAIN u = DOMAIN e
      /\ \A j \in DOMAIN e :
           /\ u[j].sender = e[j].sender /\ u[j].importable = e[j].importable
           /\ j \in K => u[j].state = "confirming"
           /\ j \notin K => u[j].state = e[j].state
  BY <1>1, <1>4, <1>5, StateIsSet
<1>7. \A j \in DOMAIN t : j # k => u[j].state = t[j].state
  BY <1>2, <1>3, <1>5, <1>6
<1>8. ASSUME k \in DOMAIN t
      PROVE  \/ t[k].state # "pending" /\ u[k].state = t[k].state
             \/ t[k].state = "pending" /\ u[k].state \in {"expired", "confirming"}
  BY <1>2, <1>3, <1>5, <1>6, <1>8
<1> QED BY <1>5, <1>6, <1>7, <1>8

\* The mark of an import's end is put on a token that was still usable.
LEMMA Marking ==
  ASSUME NEW t, IsTable(t), NEW k, NEW s, s \in States, NEW u, u = SetTerminalState(t, k, s)
  PROVE  /\ IsTable(u) /\ DOMAIN u = DOMAIN t
         /\ \A j \in DOMAIN t :
              u[j].sender = t[j].sender /\ u[j].importable = t[j].importable
         /\ \A j \in DOMAIN t : j # k => u[j].state = t[j].state
         /\ k \in DOMAIN t =>
              \/ t[k].state \in {"pending", "confirming"} /\ u[k].state = s
              \/ t[k].state \notin {"pending", "confirming"} /\ u[k].state = t[k].state
<1> DEFINE K == {k} \cap InState(t, {"pending", "confirming"})
<1>1. u = SetState(t, K, s)
  BY DEF SetTerminalState
<1>2. \A j : j \in K <=> j = k /\ k \in DOMAIN t /\ t[k].state \in {"pending", "confirming"}
  BY DEF InState
<1> HIDE DEF K
<1>3. /\ IsTable(u) /\ DOMAIN u = DOMAIN t
      /\ \A j \in DOMAIN t :
           /\ u[j].sender = t[j].sender /\ u[j].importable = t[j].importable
           /\ j \in K => u[j].state = s
           /\ j \notin K => u[j].state = t[j].state
  BY <1>1, StateIsSet
<1> QED BY <1>2, <1>3

\* What issuing does: previews of the window are dropped, a pending one is added,
\* and then pruning withdraws again.
Issues(t, k, w, m, u) ==
  \E a, v :
    /\ IsTable(a) /\ Withdraws(t, a)
    /\ \A j \in Pending(a) : a[j].sender # w
    /\ IsTable(v) /\ DOMAIN v = DOMAIN a \cup {k}
    /\ \A j \in DOMAIN a : v[j] = a[j]
    /\ v[k] = [state |-> "pending", sender |-> w, importable |-> m]
    /\ IsTable(u) /\ Withdraws(v, u)

\* Issuing drops the previews of the window, adds a pending one and withdraws.
LEMMA Issuing ==
  ASSUME NEW t, IsTable(t), NEW k, k \notin DOMAIN t, NEW w \in Nat,
         NEW m \in BOOLEAN, NEW d, NEW u, u = Issue(t, k, w, m, d)
  PROVE  Issues(t, k, w, m, u)
<1> DEFINE a == AbortPendingForSender(t, w, d)
           e == Entry(w, m)
           v == Register(a, k, e)
<1>1. u = Prune(v, d)
  BY DEF Issue
<1>2. IsTable(a) /\ Withdraws(t, a) /\ \A j \in Pending(a) : a[j].sender # w
  BY AbortingForSender
<1>3. e = [state |-> "pending", sender |-> w, importable |-> m] /\ e \in Entries
  BY DEF Entry, Entries, States
<1>4. DOMAIN v = DOMAIN a \cup {k} /\ \A j \in DOMAIN v : v[j] = IF j = k THEN e ELSE a[j]
  BY DEF Register
<1>5. v \in [DOMAIN v -> Entries]
  <2> HIDE DEF a, e
  <2>1. \A j \in DOMAIN a : a[j] \in Entries
    BY <1>2 DEF IsTable
  <2>2. \A j \in DOMAIN a \cup {k} : (IF j = k THEN e ELSE a[j]) \in Entries
    BY <1>3, <2>1
  <2> QED BY <2>2 DEF Register
<1>6. k \notin DOMAIN a
  BY <1>2 DEF Withdraws
<1> HIDE DEF a, e, v
<1>7. IsTable(v)
  BY <1>5 DEF IsTable
<1>8. IsTable(u) /\ Withdraws(v, u)
  BY <1>1, <1>7, Pruning
<1>9. \A j \in DOMAIN a : v[j] = a[j]
  BY <1>4, <1>6
<1>10. v[k] = [state |-> "pending", sender |-> w, importable |-> m]
  BY <1>3, <1>4
<1> QED BY <1>2, <1>4, <1>7, <1>8, <1>9, <1>10 DEF Issues

-----------------------------------------------------------------------------
(* The imports that run.                                                   *)

Records == [kind : {"none", "scan", "commit", "sample"},
            window : 0 .. MaxWindows, token : 0 .. MaxTokens, aborted : BOOLEAN]

\* `a` is the slot of the one import that runs, 0 when none does.
Alone(r, a) ==
  \A s \in Slots :
    /\ r[s].kind # "none" <=> s = a
    /\ r[s].kind = "none" => r[s] = Idle

\* A typed table of previews, in the terms of the lemmas above.
TableType(t, n, o) ==
  /\ IsTable(t) /\ DOMAIN t \subseteq 1 .. n
  /\ \A k \in DOMAIN t : t[k].sender \in 1 .. o

\* A slot that runs nothing has the kind "none".
LEMMA IdleType ==
  /\ Idle \in Records /\ Idle.kind = "none"
  /\ Idle.window = 0 /\ Idle.token = 0 /\ Idle.aborted = FALSE
BY DesktopImportAssumption DEF Idle, Records

\* The type invariant's table is a table of the lemmas.
LEMMA TypedTable ==
  ASSUME TypeOK
  PROVE  TableType(tokens, issued, opened)
<1> DEFINE E == [state : States, sender : 1 .. opened, importable : BOOLEAN]
<1>1. tokens \in [DOMAIN tokens -> E] /\ DOMAIN tokens \subseteq 1 .. issued
  BY DEF TypeOK
<1>2. opened \in Nat
  BY DesktopImportAssumption DEF TypeOK
<1>3. \A e \in E : e \in Entries /\ e.sender \in 1 .. opened
  BY <1>2 DEF Entries
<1> HIDE DEF E
<1> QED BY <1>1, <1>3 DEF TableType, IsTable

\* And back.
LEMMA TableTyped ==
  ASSUME NEW t, NEW n, NEW o, TableType(t, n, o)
  PROVE  /\ DOMAIN t \subseteq 1 .. n
         /\ t \in [DOMAIN t -> [state : States, sender : 1 .. o, importable : BOOLEAN]]
<1> DEFINE E == [state : States, sender : 1 .. o, importable : BOOLEAN]
<1>1. \A e \in Entries : e.sender \in 1 .. o => e \in E
  BY DEF Entries
<1>2. t \in [DOMAIN t -> Entries] /\ DOMAIN t \subseteq 1 .. n
      /\ \A k \in DOMAIN t : t[k].sender \in 1 .. o
  BY DEF TableType, IsTable
<1> HIDE DEF E
<1>3. \A k \in DOMAIN t : t[k] \in E
  BY <1>1, <1>2
<1>4. t \in [DOMAIN t -> E]
  BY <1>2, <1>3
<1> QED BY <1>2, <1>4 DEF E

\* What only withdraws keeps the type.
LEMMA WithdrawnType ==
  ASSUME NEW t, NEW n, NEW o, TableType(t, n, o), NEW u, IsTable(u), Withdraws(t, u)
  PROVE  TableType(u, n, o)
BY DEF TableType, Withdraws

\* One import runs at most, in the terms of Alone.
LEMMA AloneIs ==
  ASSUME NEW r \in [Slots -> Records], NEW a \in {0} \cup Slots
  PROVE  Alone(r, a) <=>
           /\ {s \in Slots : r[s] # Idle} = IF a = 0 THEN {} ELSE {a}
           /\ \A s \in Slots : r[s].kind = "none" => r[s] = Idle
<1>1. \A s \in Slots : r[s] = Idle => r[s].kind = "none"
  BY IdleType
<1>2. 0 \notin Slots
  BY DEF Slots
<1>3. ASSUME Alone(r, a)
      PROVE  /\ {s \in Slots : r[s] # Idle} = IF a = 0 THEN {} ELSE {a}
             /\ \A s \in Slots : r[s].kind = "none" => r[s] = Idle
  <2>1. \A s \in Slots : r[s] # Idle <=> s = a
    BY <1>1, <1>3 DEF Alone
  <2> QED BY <1>2, <1>3, <2>1 DEF Alone
<1>4. ASSUME {s \in Slots : r[s] # Idle} = IF a = 0 THEN {} ELSE {a},
             \A s \in Slots : r[s].kind = "none" => r[s] = Idle
      PROVE  Alone(r, a)
  <2>1. \A s \in Slots : r[s] # Idle <=> s = a
    BY <1>2, <1>4
  <2> QED BY <1>1, <1>4, <2>1 DEF Alone
<1> QED BY <1>3, <1>4

\* Starting an import while none runs.
LEMMA Starting ==
  ASSUME NEW kind \in {"scan", "commit", "sample"}, NEW w \in 0 .. MaxWindows,
         NEW k \in 0 .. MaxTokens, run \in [Slots -> Records], active = 0,
         Alone(run, active), Start(kind, w, k)
  PROVE  /\ active' \in Slots /\ run' \in [Slots -> Records] /\ Alone(run', active')
         /\ run'[active'].kind = kind /\ run'[active'].window = w
         /\ run'[active'].token = k
<1>1. \A s \in Slots : run[s].kind = "none"
  BY DEF Alone, Slots
<1> DEFINE i == CHOOSE j \in Slots : run[j] = Idle
           R == [kind |-> kind, window |-> w, token |-> k, aborted |-> FALSE]
<1>2. i \in Slots
  <2>1. 1 \in Slots /\ run[1] = Idle
    BY <1>1 DEF Alone, Slots
  <2> QED BY <2>1
<1>3. run' = [run EXCEPT ![i] = R] /\ active' = i
  BY DEF Start
<1>4. R \in Records /\ R.kind = kind /\ R.window = w /\ R.token = k
  BY DEF Records
<1> HIDE DEF i, R
<1>5. run' \in [Slots -> Records]
  BY <1>2, <1>3, <1>4
<1>6. \A s \in Slots : run'[s] = IF s = i THEN R ELSE run[s]
  BY <1>2, <1>3
<1>7. R.kind # "none"
  BY <1>4
<1>8. Alone(run', active')
  BY <1>1, <1>2, <1>3, <1>6, <1>7 DEF Alone
<1> QED BY <1>2, <1>3, <1>4, <1>5, <1>6, <1>8

\* An abort leaves what runs as it is, but for the mark.
LEMMA Aborted ==
  ASSUME run \in [Slots -> Records], active \in {0} \cup Slots, Alone(run, active),
         NEW r, r = Abort
  PROVE  /\ r \in [Slots -> Records] /\ Alone(r, active)
         /\ active # 0 => r[active].aborted
         /\ \A s \in Slots : /\ r[s].kind = run[s].kind /\ r[s].window = run[s].window
                             /\ r[s].token = run[s].token
<1>1. CASE active = 0
  BY <1>1 DEF Abort
<1>2. CASE active # 0
  <2>1. r = [run EXCEPT ![active].aborted = TRUE] /\ active \in Slots
    BY <1>2 DEF Abort
  <2> DEFINE R == [run[active] EXCEPT !.aborted = TRUE]
  <2>2. r = [run EXCEPT ![active] = R]
    BY <2>1
  <2>3. R \in Records /\ R.aborted
    <3>1. run[active] \in Records
      BY <2>1
    <3> QED BY <3>1 DEF Records
  <2>4. R.kind = run[active].kind /\ R.window = run[active].window
        /\ R.token = run[active].token
    <3>1. run[active] \in Records
      BY <2>1
    <3> QED BY <3>1 DEF Records
  <2> HIDE DEF R
  <2>5. \A s \in Slots : r[s] = IF s = active THEN R ELSE run[s]
    BY <2>1, <2>2
  <2>6. r \in [Slots -> Records]
    BY <2>1, <2>2, <2>3
  <2>7. \A s \in Slots : /\ r[s].kind = run[s].kind /\ r[s].window = run[s].window
                         /\ r[s].token = run[s].token
    BY <2>4, <2>5
  <2>8. Alone(r, active)
    <3>1. run[active].kind # "none"
      BY <2>1 DEF Alone
    <3> QED BY <3>1, <2>5, <2>7 DEF Alone
  <2> QED BY <2>1, <2>3, <2>5, <2>6, <2>7, <2>8
<1> QED BY <1>1, <1>2

\* The end of the import that runs leaves none.
LEMMA Finished ==
  ASSUME run \in [Slots -> Records], active \in {0} \cup Slots, Alone(run, active),
         NEW s \in Slots, run[s].kind # "none", NEW t, Finally(s, t)
  PROVE  /\ active = s /\ active' = 0
         /\ run' = [i \in Slots |-> Idle]
         /\ run' \in [Slots -> Records] /\ Alone(run', active')
<1>1. active = s
  BY DEF Alone
<1>2. run' = [run EXCEPT ![s] = Idle] /\ active' = 0
  BY DEF Finally
<1>3. \A i \in Slots : i # s => run[i] = Idle
  BY <1>1 DEF Alone
<1>4. run' = [i \in Slots |-> Idle]
  BY <1>2, <1>3
<1>5. run' \in [Slots -> Records]
  BY <1>4, IdleType
<1>6. Alone(run', active')
  BY <1>2, <1>4, IdleType DEF Alone, Slots
<1> QED BY <1>1, <1>2, <1>4, <1>5, <1>6

\* What `finally` leaves of the tokens it is given.
LEMMA FinallyTable ==
  ASSUME NEW t, IsTable(t), NEW s, Finally(s, t)
  PROVE  IsTable(tokens') /\ Withdraws(t, tokens')
<1>1. CASE quitAfter
  <2>1. tokens' = AbortAll(t, due)
    BY <1>1 DEF Finally
  <2> QED BY <2>1, AbortingAll
<1>2. CASE ~quitAfter
  <2>1. tokens' = t
    BY <1>2 DEF Finally
  <2> QED BY <2>1, WithdrawsNothing
<1> QED BY <1>1, <1>2

\* What every state has, in the terms of the lemmas.
LEMMA Facts ==
  ASSUME TypeOK, RunInvariant
  PROVE  /\ run \in [Slots -> Records] /\ active \in {0} \cup Slots /\ Alone(run, active)
         /\ TableType(tokens, issued, opened)
         /\ opened \in 1 .. MaxWindows /\ window \in 0 .. opened /\ picker \in 0 .. opened
         /\ issued \in 0 .. MaxTokens /\ MaxTokens \in Nat /\ MaxWindows \in Nat
<1>1. run \in [Slots -> Records] /\ active \in {0} \cup Slots
  BY DEF TypeOK, Records
<1>2. Alone(run, active)
  <2>1. /\ {s \in Slots : run[s] # Idle} = IF active = 0 THEN {} ELSE {active}
        /\ \A s \in Slots : run[s].kind = "none" => run[s] = Idle
    BY DEF RunInvariant, OneImportAtATime, Busy
  <2> QED BY <1>1, <2>1, AloneIs
<1> QED BY <1>1, <1>2, TypedTable, DesktopImportAssumption DEF TypeOK

-----------------------------------------------------------------------------
(* RunInvariant.                                                           *)

\* The part of RunInvariant about the windows, the vault and the quit.
RunPromises ==
  /\ \A s \in Slots : run[s].kind = "scan" => run[s].window # 0
  /\ QuitIsAwaited /\ VaultOpenWhileImporting /\ VaultNotLeftOpen

\* RunInvariant is made of it and of Alone.
LEMMA RunParts ==
  ASSUME RunInvariant
  PROVE  RunPromises
BY DEF RunInvariant, RunPromises

\* While nothing of it changes it holds.
LEMMA RunQuiet ==
  ASSUME RunPromises,
         UNCHANGED <<run, active, quitAfter, vaultOpen, window>>
  PROVE  RunPromises'
BY DEF RunPromises, QuitIsAwaited, VaultOpenWhileImporting, VaultNotLeftOpen

\* An import may start: no quit waits, and it has what it needs.
LEMMA RunStarts ==
  ASSUME NEW kind \in {"scan", "commit", "sample"}, NEW w \in 0 .. MaxWindows,
         NEW k \in 0 .. MaxTokens, TypeOK, RunInvariant, active = 0, Start(kind, w, k),
         kind = "scan" => w # 0, kind # "scan" => vaultOpen,
         UNCHANGED <<quitAfter, vaultOpen, window>>
  PROVE  /\ run' \in [Slots -> Records] /\ active' \in {0} \cup Slots
         /\ Alone(run', active') /\ RunPromises'
<1>1. /\ run \in [Slots -> Records] /\ Alone(run, active)
  BY Facts
<1>2. /\ active' \in Slots /\ run' \in [Slots -> Records] /\ Alone(run', active')
      /\ run'[active'].kind = kind /\ run'[active'].window = w
  BY <1>1, Starting
<1>3. ~quitAfter
  BY DEF RunInvariant, QuitIsAwaited
<1>4. \A s \in Slots : s # active' => run'[s].kind = "none"
  BY <1>2 DEF Alone
<1>5. (\A s \in Slots : run[s].kind = "scan" => run[s].window # 0)'
  BY <1>2, <1>4
<1>6. QuitIsAwaited'
  BY <1>3 DEF QuitIsAwaited
<1>7. VaultOpenWhileImporting'
  BY <1>2, <1>4 DEF VaultOpenWhileImporting
<1>8. VaultNotLeftOpen'
  BY <1>2 DEF VaultNotLeftOpen, Slots
<1> QED BY <1>2, <1>5, <1>6, <1>7, <1>8 DEF RunPromises

\* An import ends.
LEMMA RunEnds ==
  ASSUME TypeOK, RunInvariant, NEW s \in Slots, run[s].kind # "none", NEW t,
         Finally(s, t), UNCHANGED window
  PROVE  /\ run' \in [Slots -> Records] /\ active' \in {0} \cup Slots
         /\ Alone(run', active') /\ RunPromises'
<1>1. /\ run \in [Slots -> Records] /\ active \in {0} \cup Slots /\ Alone(run, active)
  BY Facts
<1>2. /\ active' = 0 /\ run' = [i \in Slots |-> Idle]
      /\ run' \in [Slots -> Records] /\ Alone(run', active')
  BY <1>1, Finished
<1>3. \A i \in Slots : run'[i].kind = "none"
  BY <1>2, IdleType
<1>4. ~quitAfter' /\ (vaultOpen' => window' # 0)
  BY DEF Finally
<1>5. RunPromises'
  BY <1>3, <1>4 DEF RunPromises, QuitIsAwaited, VaultOpenWhileImporting, VaultNotLeftOpen
<1> QED BY <1>2, <1>5

\* The import that runs is aborted, whoever asks for it.
LEMMA RunAborts ==
  ASSUME TypeOK, RunInvariant, run' = Abort, UNCHANGED active,
         quitAfter' => quitAfter \/ active # 0,
         active # 0 => vaultOpen' = vaultOpen,
         vaultOpen' => window' # 0 \/ active # 0
  PROVE  /\ run' \in [Slots -> Records] /\ active' \in {0} \cup Slots
         /\ Alone(run', active') /\ RunPromises'
<1>1. /\ run \in [Slots -> Records] /\ active \in {0} \cup Slots /\ Alone(run, active)
  BY Facts
<1>2. /\ run' \in [Slots -> Records] /\ Alone(run', active)
      /\ active # 0 => run'[active].aborted
      /\ \A s \in Slots : /\ run'[s].kind = run[s].kind /\ run'[s].window = run[s].window
                          /\ run'[s].token = run[s].token
  BY <1>1, Aborted
<1>3. RunPromises
  BY RunParts
<1>4. (\A s \in Slots : run[s].kind = "scan" => run[s].window # 0)'
  BY <1>2, <1>3 DEF RunPromises
<1>5. QuitIsAwaited'
  BY <1>2, <1>3 DEF RunPromises, QuitIsAwaited
<1>6. VaultOpenWhileImporting'
  <2> SUFFICES ASSUME NEW s \in Slots, run'[s].kind \in {"commit", "sample"}
               PROVE  vaultOpen'
    BY DEF VaultOpenWhileImporting
  <2>1. run[s].kind \in {"commit", "sample"}
    BY <1>2
  <2>2. vaultOpen
    BY <1>3, <2>1 DEF RunPromises, VaultOpenWhileImporting
  <2>3. active # 0
    BY <1>1, <2>1 DEF Alone, Slots
  <2> QED BY <2>2, <2>3
<1>7. VaultNotLeftOpen'
  BY DEF VaultNotLeftOpen
<1> QED BY <1>1, <1>2, <1>4, <1>5, <1>6, <1>7 DEF RunPromises

\* Every step keeps what RunInvariant says.
LEMMA RunStep ==
  ASSUME TypeOK, RunInvariant, [Next]_vars
  PROVE  /\ run' \in [Slots -> Records] /\ active' \in {0} \cup Slots
         /\ Alone(run', active') /\ RunPromises'
<1> DEFINE Goal == /\ run' \in [Slots -> Records] /\ active' \in {0} \cup Slots
                   /\ Alone(run', active') /\ RunPromises'
<1>1. /\ run \in [Slots -> Records] /\ active \in {0} \cup Slots /\ Alone(run, active)
      /\ RunPromises
      /\ opened \in 1 .. MaxWindows /\ window \in 0 .. opened /\ picker \in 0 .. opened
      /\ issued \in 0 .. MaxTokens /\ MaxTokens \in Nat /\ MaxWindows \in Nat
  BY Facts, RunParts
<1>2. window \in 0 .. MaxWindows /\ picker \in 0 .. MaxWindows /\ 0 \in 0 .. MaxTokens
  BY <1>1
<1>3. ASSUME UNCHANGED <<run, active, quitAfter, vaultOpen, window>>
      PROVE  Goal
  BY <1>1, <1>3, RunQuiet
<1> SUFFICES Goal
  OBVIOUS
<1> HIDE DEF Goal
<1>4. CASE UNCHANGED vars \/ PrepareDirectoryImport \/ TokenDue \/ ExpiryTimer
  BY <1>3, <1>4 DEF vars, uiVars, tokenVars, PrepareDirectoryImport, TokenDue, ExpiryTimer
<1>5. CASE ImportSampleLibrary \/ \E k \in Tokens : CancelDirectoryImport(k)
  BY <1>3, <1>5 DEF uiVars, tokenVars, ImportSampleLibrary, CancelDirectoryImport
<1>6. CASE AnswerPicker
  <2>1. UNCHANGED <<quitAfter, vaultOpen, window>> /\ picker # 0
    BY <1>6 DEF AnswerPicker, uiVars
  <2>2. CASE NotStarted
    BY <1>3, <2>1, <2>2 DEF NotStarted
  <2>3. CASE NotImporting /\ Start("scan", picker, 0)
    BY <1>2, <2>1, <2>3, RunStarts DEF Goal, NotImporting
  <2> QED BY <1>6, <2>2, <2>3 DEF AnswerPicker
<1>7. CASE SampleReady
  <2>1. UNCHANGED <<quitAfter, vaultOpen, window>>
    BY <1>7 DEF SampleReady, uiVars
  <2>2. CASE NotStarted
    BY <1>3, <2>1, <2>2 DEF NotStarted
  <2>3. CASE NotImporting /\ vaultOpen /\ Start("sample", window, 0)
    BY <1>2, <2>1, <2>3, RunStarts DEF Goal, NotImporting
  <2> QED BY <1>7, <2>2, <2>3 DEF SampleReady
<1>8. ASSUME NEW k \in Tokens, ConfirmDirectoryImport(k)
      PROVE  Goal
  <2>1. UNCHANGED <<quitAfter, vaultOpen, window>> /\ active = 0
    BY <1>8 DEF ConfirmDirectoryImport, uiVars, NotBusy
  <2>2. NotStarted \/ (vaultOpen /\ Start("commit", window, k))
    BY <1>8 DEF ConfirmDirectoryImport
  <2>3. k \in 0 .. MaxTokens
    BY <1>1 DEF Tokens
  <2>4. CASE NotStarted
    BY <1>3, <2>1, <2>4 DEF NotStarted
  <2>5. CASE vaultOpen /\ Start("commit", window, k)
    BY <1>2, <2>1, <2>3, <2>5, RunStarts DEF Goal
  <2> QED BY <2>2, <2>4, <2>5
<1>9. CASE CancelImport
  <2>1. run' = Abort /\ UNCHANGED <<active, quitAfter, vaultOpen, window>>
    BY <1>9 DEF CancelImport, uiVars
  <2> QED BY <1>1, <2>1, RunAborts DEF Goal, RunPromises, VaultNotLeftOpen
<1>10. ASSUME NEW s \in Slots, Settle(s)
       PROVE  Goal
  <2>1. run[s].kind # "none" /\ UNCHANGED window /\ \E t : Finally(s, t)
    <3>1. CASE SettleScan(s)
      BY <3>1 DEF SettleScan
    <3>2. CASE SettleCommit(s)
      BY <3>2 DEF SettleCommit
    <3>3. CASE SettleSample(s)
      BY <3>3 DEF SettleSample
    <3> QED BY <1>10, <3>1, <3>2, <3>3 DEF Settle
  <2>2. PICK t : Finally(s, t)
    BY <2>1
  <2> QED BY <2>1, <2>2, RunEnds DEF Goal
<1>11. CASE CloseWindow
  <2>1. UNCHANGED active /\ vaultOpen' = (vaultOpen /\ active # 0)
    BY <1>11 DEF CloseWindow, VaultAfterClose
  <2>2. run' = Abort /\ (quitAfter' => quitAfter \/ active # 0)
    BY <1>11 DEF CloseWindow, BeforeQuit
  <2>3. active # 0 => vaultOpen' = vaultOpen
    BY <2>1 DEF TypeOK
  <2> QED BY <2>1, <2>2, <2>3, RunAborts DEF Goal
<1>12. CASE Activate
  <2>1. UNCHANGED <<run, active, quitAfter, vaultOpen>> /\ window' # 0
    BY <1>1, <1>12 DEF Activate
  <2>2. RunPromises'
    BY <1>1, <2>1 DEF RunPromises, QuitIsAwaited, VaultOpenWhileImporting, VaultNotLeftOpen
  <2> QED BY <1>1, <2>1, <2>2 DEF Goal
<1>13. CASE Quit
  <2>1. run' = Abort /\ (quitAfter' => quitAfter \/ active # 0)
        /\ UNCHANGED <<active, window, vaultOpen>>
    BY <1>13 DEF Quit, BeforeQuit
  <2>2. vaultOpen' => window' # 0 \/ active # 0
    BY <1>1, <2>1 DEF RunPromises, VaultNotLeftOpen
  <2> QED BY <2>1, <2>2, RunAborts DEF Goal
<1>14. CASE Exit
  <2>1. run' = [s \in Slots |-> Idle] /\ active' = 0 /\ ~quitAfter' /\ ~vaultOpen'
    BY <1>14 DEF Exit
  <2>2. \A s \in Slots : run'[s] = Idle /\ run'[s].kind = "none"
    BY <2>1, IdleType
  <2>3. run' \in [Slots -> Records]
    BY <2>1, IdleType
  <2>4. Alone(run', active')
    BY <2>1, <2>2 DEF Alone, Slots
  <2>5. RunPromises'
    BY <2>1, <2>2 DEF RunPromises, QuitIsAwaited, VaultOpenWhileImporting, VaultNotLeftOpen
  <2> QED BY <2>1, <2>3, <2>4, <2>5 DEF Goal
<1> QED BY <1>4, <1>5, <1>6, <1>7, <1>8, <1>9, <1>10, <1>11, <1>12, <1>13, <1>14 DEF Next

-----------------------------------------------------------------------------
(* The type invariant.                                                     *)

\* A preview that is issued joins the table under the next number.
LEMMA IssuedType ==
  ASSUME TypeOK, RunInvariant, NEW w, w = window, w # 0, NEW m \in BOOLEAN,
         NEW n, n = issued + 1, NEW u, u = Issue(tokens, n, w, m, due)
  PROVE  TableType(u, n, opened)
<1>1. TableType(tokens, issued, opened) /\ opened \in Nat
      /\ w \in 1 .. opened /\ issued \in Nat
  BY Facts
<1>2. n \notin DOMAIN tokens /\ IsTable(tokens) /\ w \in Nat
  BY <1>1 DEF TableType
<1>3. Issues(tokens, n, w, m, u)
  BY <1>2, Issuing
<1>4. PICK a, v :
           /\ IsTable(a) /\ Withdraws(tokens, a)
           /\ IsTable(v) /\ DOMAIN v = DOMAIN a \cup {n}
           /\ \A j \in DOMAIN a : v[j] = a[j]
           /\ v[n] = [state |-> "pending", sender |-> w, importable |-> m]
           /\ IsTable(u) /\ Withdraws(v, u)
  BY <1>3 DEF Issues
<1>5. TableType(a, issued, opened)
  BY <1>1, <1>4, WithdrawnType
<1>6. TableType(v, n, opened)
  <2>1. DOMAIN v \subseteq 1 .. n
    BY <1>1, <1>4, <1>5 DEF TableType
  <2>2. \A k \in DOMAIN a : v[k].sender \in 1 .. opened
    BY <1>4, <1>5 DEF TableType
  <2>3. v[n].sender \in 1 .. opened
    BY <1>1, <1>4
  <2> QED BY <1>4, <2>1, <2>2, <2>3 DEF TableType
<1> QED BY <1>4, <1>6, WithdrawnType

\* Every step keeps the table typed.
LEMMA TableStep ==
  ASSUME TypeOK, RunInvariant, [Next]_vars
  PROVE  TableType(tokens', issued', opened')
<1>1. TableType(tokens, issued, opened) /\ IsTable(tokens)
      /\ opened \in Nat /\ issued \in Nat /\ window \in Nat
  <2>1. TableType(tokens, issued, opened) /\ opened \in Nat /\ issued \in Nat
        /\ window \in Nat
    BY Facts
  <2> QED BY <2>1 DEF TableType
<1>2. ASSUME IsTable(tokens'), Withdraws(tokens, tokens'), UNCHANGED <<issued, opened>>
      PROVE  TableType(tokens', issued', opened')
  BY <1>1, <1>2, WithdrawnType
<1>3. CASE UNCHANGED vars \/ AnswerPicker \/ TokenDue \/ SampleReady \/ CancelImport
  <2>1. tokens' = tokens /\ UNCHANGED <<issued, opened>>
    BY <1>3 DEF vars, uiVars, tokenVars, AnswerPicker, TokenDue, SampleReady, CancelImport
  <2> QED BY <1>1, <2>1
<1>4. CASE PrepareDirectoryImport \/ ImportSampleLibrary
  <2>1. tokens' = AbortPendingForSender(tokens, window, due) /\ UNCHANGED <<issued, opened>>
    BY <1>4 DEF PrepareDirectoryImport, ImportSampleLibrary, uiVars
  <2> QED BY <1>1, <1>2, <2>1, AbortingForSender
<1>5. CASE ExpiryTimer
  <2>1. PICK k : tokens' = ExpireIfDue(tokens, k, due)
    BY <1>5 DEF ExpiryTimer
  <2>2. UNCHANGED <<issued, opened>>
    BY <1>5 DEF ExpiryTimer, uiVars
  <2> QED BY <1>1, <1>2, <2>1, <2>2, ExpiringOne
<1>6. ASSUME NEW k \in Tokens, CancelDirectoryImport(k)
      PROVE  TableType(tokens', issued', opened')
  <2>1. tokens' = Cancel(tokens, k, due) /\ UNCHANGED <<issued, opened>>
    BY <1>6 DEF CancelDirectoryImport, uiVars
  <2> QED BY <1>1, <1>2, <2>1, Cancelling
<1>7. ASSUME NEW k \in Tokens, ConfirmDirectoryImport(k)
      PROVE  TableType(tokens', issued', opened')
  <2> DEFINE e == TakeForConfirmation(tokens, k, due)
  <2>1. tokens' = e \/ tokens' = SetTerminalState(e, k, "aborted")
    BY <1>7 DEF ConfirmDirectoryImport
  <2>2. UNCHANGED <<issued, opened>>
    BY <1>7 DEF ConfirmDirectoryImport, uiVars
  <2>3. IsTable(e) /\ DOMAIN e = DOMAIN tokens
        /\ \A j \in DOMAIN tokens : e[j].sender = tokens[j].sender
    BY <1>1, Taking
  <2> HIDE DEF e
  <2>4. IsTable(tokens') /\ DOMAIN tokens' = DOMAIN e
        /\ \A j \in DOMAIN e : tokens'[j].sender = e[j].sender
    <3>1. "aborted" \in States
      BY DEF States, Terminal
    <3>2. CASE tokens' = e
      BY <2>3, <3>2
    <3>3. CASE tokens' = SetTerminalState(e, k, "aborted")
      BY <2>3, <3>1, <3>3, Marking
    <3> QED BY <2>1, <3>2, <3>3
  <2> QED BY <1>1, <2>2, <2>3, <2>4 DEF TableType
<1>8. ASSUME NEW s \in Slots, SettleScan(s)
      PROVE  TableType(tokens', issued', opened')
  <2>1. opened' = opened
    BY <1>8 DEF SettleScan
  <2>2. CASE UNCHANGED issued /\ Finally(s, tokens)
    BY <1>1, <1>2, <2>1, <2>2, FinallyTable
  <2>3. CASE /\ ~run[s].aborted /\ window = run[s].window /\ issued' = issued + 1
             /\ \E importable \in BOOLEAN :
                  Finally(s, Issue(tokens, issued + 1, run[s].window, importable, due))
    <3>1. window # 0
      BY <1>8, <2>3, RunParts DEF RunPromises, SettleScan
    <3> DEFINE n == issued + 1
               w == run[s].window
    <3>2. PICK m \in BOOLEAN : Finally(s, Issue(tokens, n, w, m, due))
      BY <2>3
    <3>3. issued' = n /\ n = issued + 1 /\ w = window
      BY <2>3
    <3> HIDE DEF n, w
    <3> DEFINE u == Issue(tokens, n, w, m, due)
    <3>4. TableType(u, n, opened)
      BY <3>1, <3>3, IssuedType
    <3>5. Finally(s, u)
      BY <3>2
    <3> HIDE DEF u
    <3>6. IsTable(tokens') /\ Withdraws(u, tokens')
      <4> IsTable(u)
        BY <3>4 DEF TableType
      <4> QED BY <3>5, FinallyTable
    <3> QED BY <2>1, <3>3, <3>4, <3>6, WithdrawnType
  <2> QED BY <1>8, <2>2, <2>3 DEF SettleScan
<1>9. ASSUME NEW s \in Slots, SettleCommit(s)
      PROVE  TableType(tokens', issued', opened')
  <2>1. PICK o \in {"imported", "stale-scan", "aborted"} :
          Finally(s, SetTerminalState(tokens, run[s].token, o))
    BY <1>9 DEF SettleCommit, Mark
  <2>2. UNCHANGED <<issued, opened>>
    BY <1>9 DEF SettleCommit
  <2> DEFINE k == run[s].token
             e == SetTerminalState(tokens, k, o)
  <2>3. o \in States
    BY DEF States, Terminal
  <2>4. Finally(s, e)
    BY <2>1
  <2> HIDE DEF k
  <2>5. IsTable(e) /\ DOMAIN e = DOMAIN tokens
        /\ \A j \in DOMAIN tokens : e[j].sender = tokens[j].sender
    BY <1>1, <2>3, Marking
  <2> HIDE DEF e
  <2>6. TableType(e, issued, opened)
    BY <1>1, <2>5 DEF TableType
  <2>7. IsTable(tokens') /\ Withdraws(e, tokens')
    BY <2>4, <2>5, FinallyTable
  <2> QED BY <2>2, <2>6, <2>7, WithdrawnType
<1>10. ASSUME NEW s \in Slots, SettleSample(s)
       PROVE  TableType(tokens', issued', opened')
  <2>1. Finally(s, tokens) /\ UNCHANGED <<issued, opened>>
    BY <1>10 DEF SettleSample
  <2> QED BY <1>1, <1>2, <2>1, FinallyTable
<1>11. CASE CloseWindow
  <2> DEFINE a == AbortPendingForSender(tokens, window, due)
             t == AbortAll(a, due)
             u == AbortAll(t, due)
  <2>1. tokens' = t \/ tokens' = u
    BY <1>11 DEF CloseWindow, BeforeQuit
  <2>2. UNCHANGED <<issued, opened>>
    BY <1>11 DEF CloseWindow
  <2>3. IsTable(a) /\ Withdraws(tokens, a)
    BY <1>1, AbortingForSender
  <2> HIDE DEF a
  <2>4. IsTable(t) /\ Withdraws(tokens, t)
    BY <2>3, AbortingAll, WithdrawsTwice
  <2> HIDE DEF t
  <2>5. IsTable(u) /\ Withdraws(tokens, u)
    BY <2>4, AbortingAll, WithdrawsTwice
  <2> QED BY <1>2, <2>1, <2>2, <2>4, <2>5
<1>12. CASE Activate
  BY <1>1, <1>12 DEF Activate, tokenVars, TableType
<1>13. CASE Quit
  <2>1. tokens' = AbortAll(tokens, due) /\ UNCHANGED <<issued, opened>>
    BY <1>13 DEF Quit, BeforeQuit
  <2> QED BY <1>1, <1>2, <2>1, AbortingAll
<1>14. CASE Exit
  <2>1. tokens' = <<>>
    BY <1>14 DEF Exit
  <2>2. IsTable(tokens') /\ DOMAIN tokens' = {}
    BY <2>1 DEF IsTable
  <2> QED BY <2>2 DEF TableType
<1> QED BY <1>3, <1>4, <1>5, <1>6, <1>7, <1>8, <1>9, <1>10, <1>11, <1>12, <1>13, <1>14
        DEF Next, Settle

\* What the type invariant says besides the table and the imports.
Scalars ==
  /\ darwin \in BOOLEAN
  /\ app \in {"running", "quitting", "exited"}
  /\ opened \in 1 .. MaxWindows /\ window \in 0 .. opened
  /\ vaultOpen \in BOOLEAN /\ quitAfter \in BOOLEAN /\ asked \in BOOLEAN
  /\ issued \in 0 .. MaxTokens /\ due \in 0 .. issued
  /\ picker \in 0 .. opened /\ samples \in 0 .. MaxSamples
  /\ commits \in [Tokens -> Nat] /\ told \subseteq Tokens

\* The end of an import decides the flags.
LEMMA FinallyFlags ==
  ASSUME TypeOK, NEW s, NEW t, Finally(s, t)
  PROVE  /\ app' \in {"running", "quitting", "exited"}
         /\ vaultOpen' \in BOOLEAN /\ quitAfter' \in BOOLEAN
<1>1. app' = IF quitAfter THEN "quitting" ELSE app
  BY DEF Finally
<1>2. vaultOpen' \in BOOLEAN
  BY DEF Finally
<1>3. quitAfter' \in BOOLEAN
  BY DEF Finally
<1> QED BY <1>1, <1>2, <1>3 DEF TypeOK

\* Every step keeps the flags, the numbers and the histories typed.
LEMMA ScalarStep ==
  ASSUME TypeOK, [Next]_vars
  PROVE  Scalars'
<1>1. Scalars /\ MaxTokens \in Nat /\ MaxSamples \in Nat /\ MaxWindows \in Nat
  BY DesktopImportAssumption DEF TypeOK, Scalars
<1>2. CASE UNCHANGED vars \/ AnswerPicker \/ ExpiryTimer \/ CancelImport
  BY <1>1, <1>2 DEF Scalars, vars, uiVars, tokenVars, AnswerPicker, ExpiryTimer, CancelImport
<1>3. CASE PrepareDirectoryImport \/ TokenDue \/ ImportSampleLibrary \/ SampleReady
  BY <1>1, <1>3 DEF Scalars, uiVars, tokenVars, PrepareDirectoryImport, TokenDue,
     ImportSampleLibrary, SampleReady
<1>4. ASSUME NEW k \in Tokens, CancelDirectoryImport(k)
      PROVE  Scalars'
  BY <1>1, <1>4 DEF Scalars, uiVars, CancelDirectoryImport
<1>5. ASSUME NEW k \in Tokens, ConfirmDirectoryImport(k)
      PROVE  Scalars'
  <2>1. told' = told \/ told' = told \cup {k}
    BY <1>5 DEF ConfirmDirectoryImport
  <2>2. UNCHANGED <<uiVars, vaultOpen, issued, due, picker, samples, quitAfter, commits>>
    BY <1>5 DEF ConfirmDirectoryImport
  <2> QED BY <1>1, <2>1, <2>2 DEF Scalars, uiVars
<1>6. ASSUME NEW s \in Slots, SettleScan(s)
      PROVE  Scalars'
  <2>1. \E t : Finally(s, t)
    BY <1>6 DEF SettleScan
  <2>2. issued' = issued \/ (issued' = issued + 1 /\ issued < MaxTokens)
    BY <1>6 DEF SettleScan
  <2>3. UNCHANGED <<darwin, window, opened, asked, due, picker, samples, commits, told>>
    BY <1>6 DEF SettleScan
  <2>4. /\ app' \in {"running", "quitting", "exited"}
        /\ vaultOpen' \in BOOLEAN /\ quitAfter' \in BOOLEAN
    BY <2>1, FinallyFlags
  <2> QED BY <1>1, <2>2, <2>3, <2>4 DEF Scalars
<1>7. ASSUME NEW s \in Slots, SettleCommit(s)
      PROVE  Scalars'
  <2>1. \E t : Finally(s, t)
    BY <1>7 DEF SettleCommit
  <2>2. commits' \in [Tokens -> Nat]
    <3> DEFINE k == run[s].token
    <3>1. commits' = commits \/ commits' = [commits EXCEPT ![k] = @ + 1]
      BY <1>7 DEF SettleCommit
    <3> HIDE DEF k
    <3>2. CASE k \in Tokens
      BY <1>1, <3>1, <3>2 DEF Scalars
    <3>3. CASE k \notin Tokens
      BY <1>1, <3>1, <3>3 DEF Scalars
    <3> QED BY <3>2, <3>3
  <2>3. UNCHANGED <<darwin, window, opened, asked, issued, due, picker, samples, told>>
    BY <1>7 DEF SettleCommit
  <2>4. /\ app' \in {"running", "quitting", "exited"}
        /\ vaultOpen' \in BOOLEAN /\ quitAfter' \in BOOLEAN
    BY <2>1, FinallyFlags
  <2> QED BY <1>1, <2>2, <2>3, <2>4 DEF Scalars
<1>8. ASSUME NEW s \in Slots, SettleSample(s)
      PROVE  Scalars'
  <2>1. Finally(s, tokens)
        /\ UNCHANGED <<darwin, window, opened, asked, issued, due, picker, samples, commits, told>>
    BY <1>8 DEF SettleSample
  <2>2. /\ app' \in {"running", "quitting", "exited"}
        /\ vaultOpen' \in BOOLEAN /\ quitAfter' \in BOOLEAN
    BY <2>1, FinallyFlags
  <2> QED BY <1>1, <2>1, <2>2 DEF Scalars
<1>9. CASE CloseWindow
  <2>1. /\ window' = 0 /\ UNCHANGED <<darwin, opened, issued, due, picker, samples, commits, told>>
    BY <1>9 DEF CloseWindow
  <2>2. vaultOpen' \in BOOLEAN
    BY <1>9 DEF CloseWindow, VaultAfterClose
  <2>3. app' \in {app, "quitting"}
    BY <1>9 DEF CloseWindow, BeforeQuit
  <2>4. quitAfter' = quitAfter \/ quitAfter' = (quitAfter \/ active # 0)
    BY <1>9 DEF CloseWindow, BeforeQuit
  <2>5. asked' = asked \/ asked' = TRUE
    BY <1>9 DEF CloseWindow, BeforeQuit
  <2>6. quitAfter' \in BOOLEAN /\ asked' \in BOOLEAN
    BY <1>1, <2>4, <2>5 DEF Scalars
  <2> QED BY <1>1, <2>1, <2>2, <2>3, <2>6 DEF Scalars
<1>10. CASE Activate
  BY <1>1, <1>10 DEF Scalars, Activate, tokenVars
<1>11. CASE Quit
  <2>1. /\ asked' = TRUE
        /\ UNCHANGED <<darwin, window, opened, vaultOpen, issued, due, picker, samples,
                       commits, told>>
    BY <1>11 DEF Quit
  <2>2. app' \in {app, "quitting"} /\ quitAfter' = (quitAfter \/ active # 0)
    BY <1>11 DEF Quit, BeforeQuit
  <2>3. quitAfter' \in BOOLEAN
    BY <2>2
  <2> QED BY <1>1, <2>1, <2>2, <2>3 DEF Scalars
<1>12. CASE Exit
  <2>1. darwin' \in BOOLEAN /\ vaultOpen' \in BOOLEAN /\ quitAfter' \in BOOLEAN
        /\ asked' \in BOOLEAN /\ app' \in {"running", "quitting", "exited"}
    BY <1>1, <1>12 DEF Scalars, Exit
  <2>2. UNCHANGED <<opened, issued, due, commits, told>>
        /\ window' = 0 /\ picker' = 0 /\ samples' = 0
    BY <1>12 DEF Exit
  <2>3. /\ opened' \in 1 .. MaxWindows /\ window' \in 0 .. opened'
        /\ issued' \in 0 .. MaxTokens /\ due' \in 0 .. issued'
        /\ picker' \in 0 .. opened' /\ samples' \in 0 .. MaxSamples
        /\ commits' \in [Tokens -> Nat] /\ told' \subseteq Tokens
    BY <1>1, <2>2 DEF Scalars
  <2> QED BY <2>1, <2>3 DEF Scalars
<1> QED BY <1>2, <1>3, <1>4, <1>5, <1>6, <1>7, <1>8, <1>9, <1>10, <1>11, <1>12
        DEF Next, Settle

\* Every step keeps the types and RunInvariant.
LEMMA RunInductive ==
  ASSUME TypeOK, RunInvariant, [Next]_vars
  PROVE  TypeOK' /\ RunInvariant'
<1>1. /\ run' \in [Slots -> Records] /\ active' \in {0} \cup Slots
      /\ Alone(run', active') /\ RunPromises'
  BY RunStep
<1>2. /\ DOMAIN tokens' \subseteq 1 .. issued'
      /\ tokens' \in [DOMAIN tokens' ->
                      [state : States, sender : 1 .. opened', importable : BOOLEAN]]
  BY TableStep, TableTyped
<1>3. TypeOK'
  BY <1>1, <1>2, ScalarStep DEF TypeOK, Records, Scalars
<1>4. /\ {s \in Slots : run'[s] # Idle} = IF active' = 0 THEN {} ELSE {active'}
      /\ \A s \in Slots : run'[s].kind = "none" => run'[s] = Idle
  BY <1>1, AloneIs
<1>5. RunInvariant'
  BY <1>1, <1>4 DEF RunInvariant, RunPromises, OneImportAtATime, Busy
<1> QED BY <1>3, <1>5

\* The desktop starts with no import and no preview.
LEMMA RunStarting ==
  ASSUME Init
  PROVE  TypeOK /\ RunInvariant
<1>1. \A s \in Slots : run[s] = Idle /\ run[s].kind = "none"
  BY IdleType DEF Init
<1>2. run \in [Slots -> Records]
  BY IdleType DEF Init
<1>3. commits \in [Tokens -> Nat] /\ told \subseteq Tokens
  BY DEF Init
<1>4. /\ DOMAIN tokens \subseteq 1 .. issued
      /\ tokens \in [DOMAIN tokens ->
                      [state : States, sender : 1 .. opened, importable : BOOLEAN]]
  BY DEF Init
<1>5. Scalars
  <2>1. /\ opened \in 1 .. MaxWindows /\ window \in 0 .. opened
        /\ issued \in 0 .. MaxTokens /\ due \in 0 .. issued
        /\ picker \in 0 .. opened /\ samples \in 0 .. MaxSamples
    BY DesktopImportAssumption DEF Init
  <2>2. darwin \in BOOLEAN /\ vaultOpen \in BOOLEAN /\ quitAfter \in BOOLEAN
        /\ asked \in BOOLEAN /\ app \in {"running", "quitting", "exited"}
    BY DEF Init
  <2> QED BY <1>3, <2>1, <2>2 DEF Scalars
<1>6. TypeOK
  BY <1>2, <1>4, <1>5 DEF Init, TypeOK, Records, Scalars
<1>7. RunInvariant
  BY <1>1 DEF Init, RunInvariant, OneImportAtATime, Busy, QuitIsAwaited,
     VaultOpenWhileImporting, VaultNotLeftOpen
<1> QED BY <1>6, <1>7

\* In every state of the desktop activeImport names the one import that runs,
\* a waiting quit has aborted it, and the vault is open under it.
THEOREM RunInvariantHolds == Spec => [](TypeOK /\ RunInvariant)
<1>1. Init => TypeOK /\ RunInvariant
  BY RunStarting
<1>2. TypeOK /\ RunInvariant /\ [Next]_vars => TypeOK' /\ RunInvariant'
  BY RunInductive
<1> QED BY <1>1, <1>2, PTL DEF Spec

\* At most one scan or import runs, and activeImport names it.
THEOREM OneImportRuns == Spec => []OneImportAtATime
<1>1. RunInvariant => OneImportAtATime
  BY DEF RunInvariant
<1> QED BY <1>1, RunInvariantHolds, PTL

\* A deferred quit waits for an import that runs and was aborted.
THEOREM QuitAlwaysAwaited == Spec => []QuitIsAwaited
<1>1. RunInvariant => QuitIsAwaited
  BY DEF RunInvariant
<1> QED BY <1>1, RunInvariantHolds, PTL

\* The vault is never closed under an import, nor left open without a window
\* once none runs.
THEOREM VaultFollowsImports == Spec => [](VaultOpenWhileImporting /\ VaultNotLeftOpen)
<1>1. RunInvariant => VaultOpenWhileImporting /\ VaultNotLeftOpen
  BY DEF RunInvariant
<1> QED BY <1>1, RunInvariantHolds, PTL

-----------------------------------------------------------------------------
(* TokenInvariant.                                                         *)

\* TokenInvariant of a table `t`, the imports `r`, the window `w`, the commits `c`,
\* the replayed confirmations `T` and the number `n` of tokens issued.
Honest(t, r, w, c, T, n) ==
  /\ \A s \in Slots : r[s].kind = "commit" =>
       /\ r[s].token \in DOMAIN t /\ t[r[s].token].state = "confirming"
       /\ t[r[s].token].importable
  /\ \A k \in DOMAIN t : t[k].state = "confirming" =>
       \E s \in Slots : r[s].kind = "commit" /\ r[s].token = k
  /\ \A k \in DOMAIN t : t[k].state = "pending" => t[k].sender = w
  /\ \A j, k \in DOMAIN t :
       t[j].state \in {"pending", "confirming"} /\ t[k].state \in {"pending", "confirming"}
         => j = k
  /\ \A k \in DOMAIN t : /\ t[k].state = "imported" <=> c[k] = 1
                         /\ c[k] = 1 => t[k].importable
  /\ \A k \in Tokens : c[k] <= 1
  /\ \A k \in T : c[k] = 1
  /\ \A k \in Tokens : k > n => c[k] = 0

\* What the invariant says of a state.
LEMMA TokensHonest ==
  ASSUME TokenInvariant
  PROVE  Honest(tokens, run, window, commits, told, issued)
<1>1. \A s \in Slots : run[s].kind = "commit" =>
        /\ run[s].token \in DOMAIN tokens /\ tokens[run[s].token].state = "confirming"
        /\ tokens[run[s].token].importable
  BY DEF TokenInvariant, CommitHoldsToken, InState
<1>2. \A k \in DOMAIN tokens : tokens[k].state = "confirming" =>
        \E s \in Slots : run[s].kind = "commit" /\ run[s].token = k
  <2> SUFFICES ASSUME NEW k \in DOMAIN tokens, tokens[k].state = "confirming"
               PROVE  \E s \in Slots : run[s].kind = "commit" /\ run[s].token = k
    OBVIOUS
  <2>1. k \in InState(tokens, {"confirming"})
    BY DEF InState
  <2>2. k \in {run[s].token : s \in {i \in Slots : run[i].kind = "commit"}}
    BY <2>1 DEF TokenInvariant, ConfirmingIsRunning
  <2> QED BY <2>2
<1>3. \A k \in DOMAIN tokens : tokens[k].state = "pending" => tokens[k].sender = window
  BY DEF TokenInvariant, Pending, InState
<1>4. \A j, k \in DOMAIN tokens :
        tokens[j].state \in {"pending", "confirming"}
        /\ tokens[k].state \in {"pending", "confirming"} => j = k
  BY DEF TokenInvariant, InState
<1>5. /\ \A k \in DOMAIN tokens : /\ tokens[k].state = "imported" <=> commits[k] = 1
                                  /\ commits[k] = 1 => tokens[k].importable
      /\ \A k \in Tokens : commits[k] <= 1
      /\ \A k \in told : commits[k] = 1
      /\ \A k \in Tokens : k > issued => commits[k] = 0
  BY DEF TokenInvariant, TokensTellTheTruth, ReplayMeansImported
<1> QED BY <1>1, <1>2, <1>3, <1>4, <1>5 DEF Honest

\* While tokens are only withdrawn and the commit that runs stays, all stays honest.
LEMMA HonestWithdrawn ==
  ASSUME NEW t, NEW r, NEW w, NEW c, NEW T, NEW n, Honest(t, r, w, c, T, n),
         NEW u, Withdraws(t, u), NEW q,
         \A s \in Slots : /\ q[s].kind = "commit" <=> r[s].kind = "commit"
                          /\ q[s].kind = "commit" => q[s].token = r[s].token,
         NEW x, \A k \in Pending(u) : u[k].sender = x,
         NEW V, \A k \in V : c[k] = 1
  PROVE  Honest(u, q, x, c, V, n)
<1>1. \A k \in DOMAIN u :
        /\ k \in DOMAIN t
        /\ u[k].sender = t[k].sender /\ u[k].importable = t[k].importable
        /\ u[k].state = t[k].state
             \/ (t[k].state = "pending" /\ u[k].state \in {"expired", "aborted"})
  BY DEF Withdraws
<1>2. \A k \in DOMAIN t :
        t[k].state = "confirming" => k \in DOMAIN u /\ u[k].state = "confirming"
  BY DEF Withdraws
<1>3. \A s \in Slots : q[s].kind = "commit" =>
        /\ q[s].token \in DOMAIN u /\ u[q[s].token].state = "confirming"
        /\ u[q[s].token].importable
  BY <1>1, <1>2 DEF Honest
<1>4. \A k \in DOMAIN u : u[k].state = "confirming" =>
        \E s \in Slots : q[s].kind = "commit" /\ q[s].token = k
  <2> SUFFICES ASSUME NEW k \in DOMAIN u, u[k].state = "confirming"
               PROVE  \E s \in Slots : q[s].kind = "commit" /\ q[s].token = k
    OBVIOUS
  <2>1. k \in DOMAIN t /\ t[k].state = "confirming"
    BY <1>1
  <2> QED BY <2>1 DEF Honest
<1>5. \A k \in DOMAIN u : u[k].state = "pending" => u[k].sender = x
  BY DEF Pending, InState
<1>6. \A j, k \in DOMAIN u :
       u[j].state \in {"pending", "confirming"} /\ u[k].state \in {"pending", "confirming"}
         => j = k
  BY <1>1 DEF Honest
<1>7. \A k \in DOMAIN u : /\ u[k].state = "imported" <=> c[k] = 1
                          /\ c[k] = 1 => u[k].importable
  BY <1>1 DEF Honest
<1>8. (\A k \in Tokens : c[k] <= 1) /\ (\A k \in Tokens : k > n => c[k] = 0)
  BY DEF Honest
<1> QED BY <1>3, <1>4, <1>5, <1>6, <1>7, <1>8 DEF Honest

\* The steps that only withdraw tokens, and neither start nor end a commit.
LEMMA TokensQuiet ==
  ASSUME TokenInvariant, Withdraws(tokens, tokens'),
         \A s \in Slots : /\ run'[s].kind = "commit" <=> run[s].kind = "commit"
                          /\ run'[s].kind = "commit" => run'[s].token = run[s].token,
         UNCHANGED <<window, commits, told, issued>>
  PROVE  Honest(tokens', run', window', commits', told', issued')
<1>1. Honest(tokens, run, window, commits, told, issued)
  BY TokensHonest
<1>2. (\A k \in DOMAIN tokens : tokens[k].state = "pending" => tokens[k].sender = window)
      /\ (\A k \in told : commits[k] = 1)
  BY <1>1 DEF Honest
<1>3. \A k \in Pending(tokens') : tokens'[k].sender = window
  BY <1>2 DEF Withdraws, Pending, InState
<1>4. Honest(tokens', run', window, commits, told, issued)
  BY <1>1, <1>2, <1>3, HonestWithdrawn
<1> QED BY <1>4

\* An import that does not commit starts or ends.
LEMMA OtherStarts ==
  ASSUME TypeOK, RunInvariant, active = 0, NEW kind \in {"scan", "sample"},
         NEW w \in 0 .. MaxWindows, NEW k \in 0 .. MaxTokens, Start(kind, w, k)
  PROVE  \A s \in Slots : run'[s].kind # "commit" /\ run[s].kind # "commit"
<1>1. run \in [Slots -> Records] /\ Alone(run, active)
  BY Facts
<1>2. /\ active' \in Slots /\ Alone(run', active') /\ run'[active'].kind = kind
  BY <1>1, Starting
<1>3. \A s \in Slots : run[s].kind = "none"
  BY <1>1 DEF Alone, Slots
<1> QED BY <1>2, <1>3 DEF Alone

\* The same at its end.
LEMMA OtherEnds ==
  ASSUME TypeOK, RunInvariant, NEW s \in Slots, run[s].kind \in {"scan", "sample"},
         NEW t, Finally(s, t)
  PROVE  \A i \in Slots : run'[i].kind # "commit" /\ run[i].kind # "commit"
<1>1. run \in [Slots -> Records] /\ active \in {0} \cup Slots /\ Alone(run, active)
  BY Facts
<1>2. active = s /\ run' = [i \in Slots |-> Idle]
  BY <1>1, Finished
<1>3. \A i \in Slots : i # s => run[i].kind = "none"
  BY <1>1, <1>2 DEF Alone
<1>4. \A i \in Slots : run'[i].kind = "none"
  BY <1>2, IdleType
<1> QED BY <1>3, <1>4

\* A confirmation starts the commit of its token, or withdraws it.
LEMMA ConfirmStep ==
  ASSUME TypeOK, RunInvariant, TokenInvariant, NEW k \in Tokens, ConfirmDirectoryImport(k)
  PROVE  Honest(tokens', run', window', commits', told', issued')
<1> DEFINE e == TakeForConfirmation(tokens, k, due)
           a == SetTerminalState(e, k, "aborted")
           ready == k \in Pending(tokens) /\ e[k].state = "confirming"
<1>1. Honest(tokens, run, window, commits, told, issued)
  BY TokensHonest
<1>2. /\ run \in [Slots -> Records] /\ Alone(run, active)
      /\ IsTable(tokens) /\ window \in 0 .. MaxWindows /\ k \in 0 .. MaxTokens
  <2>1. TableType(tokens, issued, opened)
    BY Facts
  <2>2. opened \in 1 .. MaxWindows /\ window \in 0 .. opened /\ MaxTokens \in Nat
        /\ MaxWindows \in Nat
    BY Facts
  <2>3. window \in 0 .. MaxWindows /\ k \in 0 .. MaxTokens
    BY <2>2 DEF Tokens
  <2> QED BY <2>1, <2>3, Facts DEF TableType
<1>3. active = 0 /\ k \in DOMAIN tokens /\ UNCHANGED <<window, commits, issued>>
  BY DEF ConfirmDirectoryImport, NotBusy, EntryForSender, uiVars
<1>4. \A s \in Slots : run[s].kind = "none"
  BY <1>2, <1>3 DEF Alone, Slots
<1>5. \A j \in DOMAIN tokens : tokens[j].state # "confirming"
  BY <1>1, <1>4 DEF Honest
<1>6. \A j \in told' : commits[j] = 1
  <2>1. told' = IF tokens[k].state \in {"confirming", "imported"} THEN told \cup {k} ELSE told
    BY DEF ConfirmDirectoryImport
  <2>2. tokens[k].state = "imported" => commits[k] = 1
    BY <1>1, <1>3 DEF Honest
  <2> QED BY <1>1, <1>3, <1>5, <2>1, <2>2 DEF Honest
<1>7. /\ IsTable(e) /\ DOMAIN e = DOMAIN tokens
      /\ \A j \in DOMAIN tokens :
           e[j].sender = tokens[j].sender /\ e[j].importable = tokens[j].importable
      /\ \A j \in DOMAIN tokens : j # k => e[j].state = tokens[j].state
      /\ k \in DOMAIN tokens =>
           \/ tokens[k].state # "pending" /\ e[k].state = tokens[k].state
           \/ tokens[k].state = "pending" /\ e[k].state \in {"expired", "confirming"}
  BY <1>2, Taking
<1>8. ready <=> tokens[k].state = "pending" /\ e[k].state = "confirming"
  BY <1>3 DEF Pending, InState
<1>9. \/ ~ready /\ tokens' = e /\ NotStarted
      \/ ready /\ e[k].importable /\ tokens' = e /\ Start("commit", window, k)
      \/ ready /\ tokens' = a /\ NotStarted
  BY DEF ConfirmDirectoryImport
<1>10. \A j \in DOMAIN tokens : tokens[j].state = "pending" => tokens[j].sender = window
  BY <1>1 DEF Honest
<1> HIDE DEF e, a, ready
<1>11. ASSUME Withdraws(tokens, tokens'), NotStarted
       PROVE  Honest(tokens', run', window', commits', told', issued')
  <2>1. \A j \in Pending(tokens') : tokens'[j].sender = window
    BY <1>10, <1>11 DEF Withdraws, Pending, InState
  <2>2. run' = run
    BY <1>11 DEF NotStarted
  <2>3. Honest(tokens', run', window, commits, told', issued)
    BY <1>1, <1>6, <1>11, <2>1, <2>2, HonestWithdrawn
  <2> QED BY <1>3, <2>3
<1>12. CASE ~ready /\ tokens' = e /\ NotStarted
  <2>1. Withdraws(tokens, tokens')
    BY <1>3, <1>5, <1>7, <1>8, <1>12 DEF Withdraws
  <2> QED BY <1>11, <1>12, <2>1
<1>13. CASE ready /\ tokens' = a /\ NotStarted
  <2>1. "aborted" \in States
    BY DEF States, Terminal
  <2>2. /\ DOMAIN a = DOMAIN e
        /\ \A j \in DOMAIN e : a[j].sender = e[j].sender /\ a[j].importable = e[j].importable
        /\ \A j \in DOMAIN e : j # k => a[j].state = e[j].state
        /\ k \in DOMAIN e =>
             \/ e[k].state \in {"pending", "confirming"} /\ a[k].state = "aborted"
             \/ e[k].state \notin {"pending", "confirming"} /\ a[k].state = e[k].state
    BY <1>7, <2>1, Marking DEF a
  <2>3. Withdraws(tokens, a)
    BY <1>3, <1>5, <1>7, <1>8, <1>13, <2>2 DEF Withdraws
  <2> QED BY <1>11, <1>13, <2>3
<1>14. CASE ready /\ e[k].importable /\ tokens' = e /\ Start("commit", window, k)
  <2>1. /\ active' \in Slots /\ Alone(run', active')
        /\ run'[active'].kind = "commit" /\ run'[active'].token = k
    BY <1>2, <1>3, <1>14, Starting
  <2>2. \A s \in Slots : run'[s].kind = "commit" <=> s = active'
    BY <2>1 DEF Alone
  <2>3. tokens' = e /\ k \in DOMAIN e /\ e[k].state = "confirming" /\ e[k].importable
        /\ tokens[k].state = "pending"
    BY <1>3, <1>7, <1>8, <1>14
  <2>4. \A j \in DOMAIN e : j # k => e[j].state \notin {"pending", "confirming"}
    <3> SUFFICES ASSUME NEW j \in DOMAIN e, j # k, e[j].state \in {"pending", "confirming"}
                 PROVE  FALSE
      OBVIOUS
    <3>1. j \in DOMAIN tokens /\ tokens[j].state \in {"pending", "confirming"}
      BY <1>7
    <3> QED BY <1>1, <1>3, <2>3, <3>1 DEF Honest
  <2>5. \A s \in Slots : run'[s].kind = "commit" =>
          /\ run'[s].token \in DOMAIN e /\ e[run'[s].token].state = "confirming"
          /\ e[run'[s].token].importable
    BY <2>1, <2>2, <2>3
  <2>6. \A j \in DOMAIN e : e[j].state = "confirming" =>
          \E s \in Slots : run'[s].kind = "commit" /\ run'[s].token = j
    BY <2>1, <2>4
  <2>7. \A j \in DOMAIN e : e[j].state = "pending" => e[j].sender = window
    BY <2>3, <2>4
  <2>8. \A i, j \in DOMAIN e :
          e[i].state \in {"pending", "confirming"} /\ e[j].state \in {"pending", "confirming"}
            => i = j
    BY <2>4
  <2>9. \A j \in DOMAIN e : /\ e[j].state = "imported" <=> commits[j] = 1
                            /\ commits[j] = 1 => e[j].importable
    BY <1>1, <1>7, <2>3 DEF Honest
  <2>10. Honest(e, run', window, commits, told', issued)
    BY <1>1, <1>6, <2>5, <2>6, <2>7, <2>8, <2>9 DEF Honest
  <2> QED BY <1>3, <2>3, <2>10
<1> QED BY <1>9, <1>12, <1>13, <1>14

\* A scan that issues a token: no commit runs, and the new preview is the only one.
LEMMA IssueStep ==
  ASSUME TypeOK, RunInvariant, TokenInvariant, NEW s \in Slots, SettleScan(s),
         window = run[s].window, issued' = issued + 1, NEW m \in BOOLEAN,
         Finally(s, Issue(tokens, issued + 1, run[s].window, m, due))
  PROVE  Honest(tokens', run', window', commits', told', issued')
<1> DEFINE n == issued + 1
           w == run[s].window
           u == Issue(tokens, n, w, m, due)
<1>1. Honest(tokens, run, window, commits, told, issued)
  BY TokensHonest
<1>2. /\ TableType(tokens, issued, opened) /\ IsTable(tokens)
      /\ opened \in Nat /\ window \in 0 .. opened /\ issued \in Nat
  <2>1. TableType(tokens, issued, opened)
    BY Facts
  <2>2. opened \in Nat /\ window \in 0 .. opened /\ issued \in Nat
    BY Facts
  <2> QED BY <2>1, <2>2 DEF TableType
<1>3. run[s].kind = "scan" /\ UNCHANGED <<window, commits, told>>
  BY DEF SettleScan
<1>4. \A i \in Slots : run'[i].kind # "commit" /\ run[i].kind # "commit"
  BY <1>3, OtherEnds
<1>5. Finally(s, u) /\ issued' = n /\ n = issued + 1 /\ w = window /\ w \in Nat
  BY <1>2
<1>6. n \notin DOMAIN tokens
  BY <1>2, <1>5 DEF TableType
<1> HIDE DEF n, w
<1>7. Issues(tokens, n, w, m, u)
  BY <1>2, <1>5, <1>6, Issuing
<1> HIDE DEF u
<1>8. PICK a, v :
        /\ IsTable(a) /\ Withdraws(tokens, a)
        /\ \A j \in Pending(a) : a[j].sender # w
        /\ IsTable(v) /\ DOMAIN v = DOMAIN a \cup {n}
        /\ \A j \in DOMAIN a : v[j] = a[j]
        /\ v[n] = [state |-> "pending", sender |-> w, importable |-> m]
        /\ IsTable(u) /\ Withdraws(v, u)
  BY <1>7 DEF Issues
<1>9. IsTable(tokens') /\ Withdraws(u, tokens')
  BY <1>5, <1>8, FinallyTable
<1>10. Withdraws(v, tokens')
  BY <1>8, <1>9, WithdrawsTwice
<1>11. \A j \in DOMAIN a : a[j].state \notin {"pending", "confirming"}
  <2> SUFFICES ASSUME NEW j \in DOMAIN a, a[j].state \in {"pending", "confirming"}
               PROVE  FALSE
    OBVIOUS
  <2>1. j \in DOMAIN tokens /\ a[j].sender = tokens[j].sender
        /\ tokens[j].state = a[j].state
    BY <1>8 DEF Withdraws
  <2>2. tokens[j].state # "confirming"
    BY <1>1, <1>4, <2>1 DEF Honest
  <2>3. a[j].state = "pending" /\ a[j].sender = w
    BY <1>1, <1>5, <2>1, <2>2 DEF Honest
  <2> QED BY <1>8, <2>3 DEF Pending, InState
<1>12. n \notin DOMAIN a
  BY <1>6, <1>8 DEF Withdraws
<1>13. v[n].state = "pending" /\ v[n].sender = w /\ v[n].importable = m
  BY <1>8
<1>14. commits[n] # 1
  <2>1. n \in Tokens
    <3>1. issued < MaxTokens
      <4>1. issued' = issued \/ issued < MaxTokens
        BY DEF SettleScan
      <4> QED BY <1>2, <1>5, <4>1
    <3> QED BY <1>2, <1>5, <3>1, Facts DEF Tokens
  <2>2. n > issued
    BY <1>2, <1>5
  <2>3. commits[n] = 0
    BY <1>1, <2>1, <2>2 DEF Honest
  <2> QED BY <2>3
<1>15. Honest(v, run', window, commits, told, n)
  <2>1. \A j \in DOMAIN v : j # n => j \in DOMAIN a /\ v[j] = a[j]
    BY <1>8
  <2>2. \A j \in DOMAIN v : v[j].state # "confirming"
    BY <1>11, <1>13, <2>1
  <2>3. \A j \in DOMAIN v : v[j].state = "pending" => j = n
    BY <1>11, <2>1
  <2>4. \A j \in DOMAIN v : /\ v[j].state = "imported" <=> commits[j] = 1
                            /\ commits[j] = 1 => v[j].importable
    <3> SUFFICES ASSUME NEW j \in DOMAIN v
                 PROVE  /\ v[j].state = "imported" <=> commits[j] = 1
                        /\ commits[j] = 1 => v[j].importable
      OBVIOUS
    <3>1. CASE j = n
      BY <1>13, <1>14, <3>1
    <3>2. CASE j # n
      <4>1. j \in DOMAIN tokens /\ v[j].importable = tokens[j].importable
            /\ (v[j].state = tokens[j].state
                  \/ (tokens[j].state = "pending" /\ v[j].state \in {"expired", "aborted"}))
        BY <1>8, <2>1, <3>2 DEF Withdraws
      <4> QED BY <1>1, <4>1 DEF Honest
    <3> QED BY <3>1, <3>2
  <2>5. \A j \in Tokens : j > n => commits[j] = 0
    BY <1>1, <1>2, <1>5 DEF Honest, Tokens
  <2>6. \A j \in DOMAIN v : v[j].state = "pending" => v[j].sender = window
    BY <1>5, <1>13, <2>3
  <2>7. \A i, j \in DOMAIN v :
          v[i].state \in {"pending", "confirming"} /\ v[j].state \in {"pending", "confirming"}
            => i = j
    BY <2>2, <2>3
  <2>8. \A i \in Slots : run'[i].kind = "commit" =>
          /\ run'[i].token \in DOMAIN v /\ v[run'[i].token].state = "confirming"
          /\ v[run'[i].token].importable
    BY <1>4
  <2>9. (\A j \in Tokens : commits[j] <= 1) /\ (\A j \in told : commits[j] = 1)
    BY <1>1 DEF Honest
  <2> QED BY <2>2, <2>4, <2>5, <2>6, <2>7, <2>8, <2>9 DEF Honest
<1>16. \A j \in Pending(tokens') : tokens'[j].sender = window
  <2>1. \A j \in DOMAIN v : v[j].state = "pending" => v[j].sender = window
    BY <1>15 DEF Honest
  <2> QED BY <1>10, <2>1 DEF Withdraws, Pending, InState
<1>17. \A j \in told : commits[j] = 1
  BY <1>1 DEF Honest
<1>18. Honest(tokens', run', window, commits, told, n)
  BY <1>10, <1>15, <1>16, <1>17, HonestWithdrawn
<1> QED BY <1>3, <1>5, <1>18

\* The end of a commit: the table says what became of its token.
LEMMA CommitStep ==
  ASSUME TypeOK, RunInvariant, TokenInvariant, NEW s \in Slots, SettleCommit(s)
  PROVE  Honest(tokens', run', window', commits', told', issued')
<1> DEFINE k == run[s].token
<1>1. Honest(tokens, run, window, commits, told, issued)
  BY TokensHonest
<1>2. /\ IsTable(tokens) /\ run \in [Slots -> Records]
      /\ active \in {0} \cup Slots /\ Alone(run, active) /\ issued \in 0 .. MaxTokens
      /\ DOMAIN tokens \subseteq Tokens /\ commits \in [Tokens -> Nat]
  <2>1. TableType(tokens, issued, opened) /\ issued \in 0 .. MaxTokens /\ MaxTokens \in Nat
    BY Facts
  <2>2. DOMAIN tokens \subseteq Tokens /\ IsTable(tokens)
    BY <2>1 DEF TableType, Tokens
  <2> QED BY <2>1, <2>2, Facts DEF TypeOK
<1>3. run[s].kind = "commit" /\ UNCHANGED <<window, told, issued>>
  BY DEF SettleCommit
<1>4. PICK o \in {"imported", "stale-scan", "aborted"} :
        /\ commits' = IF o = "imported" THEN [commits EXCEPT ![k] = @ + 1] ELSE commits
        /\ Finally(s, SetTerminalState(tokens, k, o))
  BY DEF SettleCommit, Mark
<1>5. /\ k \in DOMAIN tokens /\ tokens[k].state = "confirming" /\ tokens[k].importable
  BY <1>1, <1>3 DEF Honest
<1> DEFINE e == SetTerminalState(tokens, k, o)
<1>6. Finally(s, e)
  BY <1>4
<1>7. run' = [i \in Slots |-> Idle]
  BY <1>2, <1>3, <1>6, Finished
<1>8. \A i \in Slots : run'[i].kind # "commit"
  BY <1>7, IdleType
<1>9. k \in Tokens
  BY <1>2, <1>5
<1> HIDE DEF k
<1>10. o \in States
  BY DEF States, Terminal
<1>11. /\ IsTable(e) /\ DOMAIN e = DOMAIN tokens
       /\ \A j \in DOMAIN tokens :
            e[j].sender = tokens[j].sender /\ e[j].importable = tokens[j].importable
       /\ \A j \in DOMAIN tokens : j # k => e[j].state = tokens[j].state
       /\ k \in DOMAIN tokens =>
            \/ tokens[k].state \in {"pending", "confirming"} /\ e[k].state = o
            \/ tokens[k].state \notin {"pending", "confirming"} /\ e[k].state = tokens[k].state
  BY <1>2, <1>10, Marking
<1> HIDE DEF e
<1>12. \A j \in DOMAIN e : e[j].state \notin {"pending", "confirming"}
  <2> SUFFICES ASSUME NEW j \in DOMAIN e, e[j].state \in {"pending", "confirming"}
               PROVE  FALSE
    OBVIOUS
  <2>1. CASE j = k
    BY <1>5, <1>11, <2>1
  <2>2. CASE j # k
    <3>1. j \in DOMAIN tokens /\ tokens[j].state \in {"pending", "confirming"}
      BY <1>11, <2>2
    <3> QED BY <1>1, <1>5, <2>2, <3>1 DEF Honest
  <2> QED BY <2>1, <2>2
<1>13. commits[k] = 0
  <2>1. commits[k] \in Nat /\ commits[k] <= 1 /\ commits[k] # 1
    BY <1>1, <1>2, <1>5, <1>9 DEF Honest
  <2> QED BY <2>1
<1>14. \A j \in Tokens : commits'[j] = IF j = k /\ o = "imported" THEN 1 ELSE commits[j]
  BY <1>2, <1>4, <1>9, <1>13
<1>15. e[k].state = o
  BY <1>5, <1>11
<1>16. \A j \in DOMAIN e : /\ e[j].state = "imported" <=> commits'[j] = 1
                           /\ commits'[j] = 1 => e[j].importable
  <2> SUFFICES ASSUME NEW j \in DOMAIN e
               PROVE  /\ e[j].state = "imported" <=> commits'[j] = 1
                      /\ commits'[j] = 1 => e[j].importable
    OBVIOUS
  <2>1. j \in DOMAIN tokens /\ j \in Tokens
    BY <1>2, <1>11
  <2>2. CASE j = k
    BY <1>5, <1>9, <1>11, <1>13, <1>14, <1>15, <2>2
  <2>3. CASE j # k
    BY <1>1, <1>11, <1>14, <2>1, <2>3 DEF Honest
  <2> QED BY <2>2, <2>3
<1>17. \A j \in Tokens : commits'[j] <= 1
  BY <1>1, <1>14 DEF Honest
<1>18. told \subseteq Tokens /\ \A j \in told : commits'[j] = 1
  BY <1>1, <1>13, <1>14 DEF Honest, TypeOK
<1>19. \A j \in Tokens : j > issued => commits'[j] = 0
  <2>1. k \in 1 .. issued
    BY <1>5, Facts DEF TableType
  <2>2. \A j \in Tokens : j > issued => j # k
    BY <1>2, <2>1 DEF Tokens
  <2> QED BY <1>1, <1>14, <2>2 DEF Honest
<1>20. Honest(e, run', window, commits', told, issued)
  BY <1>8, <1>12, <1>16, <1>17, <1>18, <1>19 DEF Honest
<1>21. IsTable(tokens') /\ Withdraws(e, tokens')
  BY <1>6, <1>11, FinallyTable
<1>22. \A j \in Pending(tokens') : tokens'[j].sender = window
  BY <1>12, <1>21 DEF Withdraws, Pending, InState
<1>23. Honest(tokens', run', window, commits', told, issued)
  BY <1>18, <1>20, <1>21, <1>22, HonestWithdrawn
<1> QED BY <1>3, <1>23

\* Every other step only withdraws tokens, or leaves them.
LEMMA WithdrawingStep ==
  ASSUME TypeOK, RunInvariant, TokenInvariant,
         \/ PrepareDirectoryImport \/ AnswerPicker \/ TokenDue \/ ExpiryTimer
         \/ \E k \in Tokens : CancelDirectoryImport(k)
         \/ ImportSampleLibrary \/ SampleReady \/ CancelImport
         \/ \E s \in Slots : SettleSample(s)
         \/ \E s \in Slots : SettleScan(s) /\ UNCHANGED issued /\ Finally(s, tokens)
         \/ Quit \/ UNCHANGED vars
  PROVE  Honest(tokens', run', window', commits', told', issued')
<1> DEFINE Same == \A s \in Slots :
                     /\ run'[s].kind = "commit" <=> run[s].kind = "commit"
                     /\ run'[s].kind = "commit" => run'[s].token = run[s].token
           Goal == Honest(tokens', run', window', commits', told', issued')
<1>1. /\ IsTable(tokens) /\ run \in [Slots -> Records] /\ active \in {0} \cup Slots
      /\ Alone(run, active)
      /\ window \in 0 .. MaxWindows /\ picker \in 0 .. MaxWindows /\ 0 \in 0 .. MaxTokens
  <2>1. TableType(tokens, issued, opened)
    BY Facts
  <2>2. opened \in 1 .. MaxWindows /\ window \in 0 .. opened /\ picker \in 0 .. opened
        /\ MaxTokens \in Nat /\ MaxWindows \in Nat
    BY Facts
  <2>3. window \in 0 .. MaxWindows /\ picker \in 0 .. MaxWindows /\ 0 \in 0 .. MaxTokens
    BY <2>2
  <2> QED BY <2>1, <2>3, Facts DEF TableType
<1>2. ASSUME Withdraws(tokens, tokens'), Same, UNCHANGED <<window, commits, told, issued>>
      PROVE  Goal
  BY <1>2, TokensQuiet
<1>3. ASSUME run' = run
      PROVE  Same
  BY <1>3
<1>4. ASSUME run' = Abort
      PROVE  Same
  BY <1>1, <1>4, Aborted
<1>5. ASSUME active = 0, NEW kind \in {"scan", "sample"}, NEW w \in 0 .. MaxWindows,
             Start(kind, w, 0)
      PROVE  Same
  BY <1>1, <1>5, OtherStarts
<1>6. ASSUME NEW s \in Slots, run[s].kind \in {"scan", "sample"}, Finally(s, tokens)
      PROVE  Same /\ Withdraws(tokens, tokens')
  BY <1>1, <1>6, OtherEnds, FinallyTable
<1> SUFFICES Goal
  OBVIOUS
<1> HIDE DEF Goal, Same
<1>7. CASE PrepareDirectoryImport \/ ImportSampleLibrary
  <2>1. tokens' = AbortPendingForSender(tokens, window, due) /\ run' = run
        /\ UNCHANGED <<window, commits, told, issued>>
    BY <1>7 DEF PrepareDirectoryImport, ImportSampleLibrary, uiVars
  <2>2. Withdraws(tokens, tokens')
    BY <1>1, <2>1, AbortingForSender
  <2> QED BY <1>2, <1>3, <2>1, <2>2
<1>8. CASE AnswerPicker
  <2>1. tokens' = tokens /\ UNCHANGED <<window, commits, told, issued>>
    BY <1>8 DEF AnswerPicker, uiVars, tokenVars
  <2>2. run' = run \/ (active = 0 /\ Start("scan", picker, 0))
    BY <1>8 DEF AnswerPicker, NotStarted, NotImporting
  <2>3. Same
    BY <1>1, <1>3, <1>5, <2>2
  <2>4. Withdraws(tokens, tokens')
    BY <2>1, WithdrawsNothing
  <2> QED BY <1>2, <2>1, <2>3, <2>4
<1>9. CASE SampleReady
  <2>1. tokens' = tokens /\ UNCHANGED <<window, commits, told, issued>>
    BY <1>9 DEF SampleReady, uiVars, tokenVars
  <2>2. run' = run \/ (active = 0 /\ Start("sample", window, 0))
    BY <1>9 DEF SampleReady, NotStarted, NotImporting
  <2>3. Same
    BY <1>1, <1>3, <1>5, <2>2
  <2>4. Withdraws(tokens, tokens')
    BY <2>1, WithdrawsNothing
  <2> QED BY <1>2, <2>1, <2>3, <2>4
<1>10. CASE TokenDue \/ UNCHANGED vars
  <2>1. tokens' = tokens /\ run' = run /\ UNCHANGED <<window, commits, told, issued>>
    BY <1>10 DEF TokenDue, vars, uiVars, tokenVars
  <2>2. Withdraws(tokens, tokens')
    BY <2>1, WithdrawsNothing
  <2> QED BY <1>2, <1>3, <2>1, <2>2
<1>11. CASE ExpiryTimer
  <2>1. PICK k : tokens' = ExpireIfDue(tokens, k, due)
    BY <1>11 DEF ExpiryTimer
  <2>2. run' = run /\ UNCHANGED <<window, commits, told, issued>>
    BY <1>11 DEF ExpiryTimer, uiVars
  <2>3. Withdraws(tokens, tokens')
    BY <1>1, <2>1, ExpiringOne
  <2> QED BY <1>2, <1>3, <2>2, <2>3
<1>12. ASSUME NEW k \in Tokens, CancelDirectoryImport(k)
       PROVE  Goal
  <2>1. tokens' = Cancel(tokens, k, due) /\ run' = run
        /\ UNCHANGED <<window, commits, told, issued>>
    BY <1>12 DEF CancelDirectoryImport, uiVars
  <2>2. Withdraws(tokens, tokens')
    BY <1>1, <2>1, Cancelling
  <2> QED BY <1>2, <1>3, <2>1, <2>2
<1>13. CASE CancelImport
  <2>1. tokens' = tokens /\ run' = Abort /\ UNCHANGED <<window, commits, told, issued>>
    BY <1>13 DEF CancelImport, uiVars, tokenVars
  <2>2. Withdraws(tokens, tokens')
    BY <2>1, WithdrawsNothing
  <2> QED BY <1>2, <1>4, <2>1, <2>2
<1>14. ASSUME NEW s \in Slots, SettleSample(s)
       PROVE  Goal
  <2>1. run[s].kind = "sample" /\ Finally(s, tokens)
        /\ UNCHANGED <<window, commits, told, issued>>
    BY <1>14 DEF SettleSample
  <2> QED BY <1>2, <1>6, <2>1
<1>15. ASSUME NEW s \in Slots, SettleScan(s), UNCHANGED issued, Finally(s, tokens)
       PROVE  Goal
  <2>1. run[s].kind = "scan" /\ UNCHANGED <<window, commits, told>>
    BY <1>15 DEF SettleScan
  <2> QED BY <1>2, <1>6, <1>15, <2>1
<1>16. CASE Quit
  <2>1. tokens' = AbortAll(tokens, due) /\ run' = Abort
        /\ UNCHANGED <<window, commits, told, issued>>
    BY <1>16 DEF Quit, BeforeQuit
  <2>2. Withdraws(tokens, tokens')
    BY <1>1, <2>1, AbortingAll
  <2> QED BY <1>2, <1>4, <2>1, <2>2
<1> QED BY <1>7, <1>8, <1>9, <1>10, <1>11, <1>12, <1>13, <1>14, <1>15, <1>16

\* The window and the process: no preview stays pending without its window.
LEMMA WindowStep ==
  ASSUME TypeOK, RunInvariant, TokenInvariant, CloseWindow \/ Activate \/ Exit
  PROVE  Honest(tokens', run', window', commits', told', issued')
<1>1. Honest(tokens, run, window, commits, told, issued)
      /\ \A k \in told : commits[k] = 1
  BY TokensHonest DEF Honest
<1>2. /\ IsTable(tokens) /\ run \in [Slots -> Records] /\ active \in {0} \cup Slots
      /\ Alone(run, active)
      /\ \A k \in DOMAIN tokens : tokens[k].sender # 0
  <2>1. TableType(tokens, issued, opened)
    BY Facts
  <2>2. \A k \in DOMAIN tokens : tokens[k].sender # 0
    BY <2>1 DEF TableType
  <2> QED BY <2>1, <2>2, Facts DEF TableType
<1>3. CASE CloseWindow
  <2> DEFINE a == AbortPendingForSender(tokens, window, due)
             t == AbortAll(a, due)
             u == AbortAll(t, due)
  <2>1. tokens' = t \/ tokens' = u
    BY <1>3 DEF CloseWindow, BeforeQuit
  <2>2. UNCHANGED <<commits, told, issued>> /\ run' = Abort
    BY <1>3 DEF CloseWindow, BeforeQuit
  <2>3. IsTable(a) /\ Withdraws(tokens, a)
    BY <1>2, AbortingForSender
  <2> HIDE DEF a
  <2>4. IsTable(t) /\ Withdraws(a, t) /\ Pending(t) = {}
    BY <2>3, AbortingAll
  <2> HIDE DEF t
  <2>5. IsTable(u) /\ Withdraws(t, u) /\ Pending(u) = {}
    BY <2>4, AbortingAll
  <2> HIDE DEF u
  <2>6. Withdraws(tokens, t) /\ Withdraws(tokens, u)
    <3>1. Withdraws(tokens, t)
      BY <2>3, <2>4, WithdrawsTwice
    <3> QED BY <2>5, <3>1, WithdrawsTwice
  <2>7. Withdraws(tokens, tokens') /\ Pending(tokens') = {}
    BY <2>1, <2>4, <2>5, <2>6
  <2>8. \A s \in Slots : /\ run'[s].kind = "commit" <=> run[s].kind = "commit"
                         /\ run'[s].kind = "commit" => run'[s].token = run[s].token
    BY <1>2, <2>2, Aborted
  <2>9. \A k \in Pending(tokens') : tokens'[k].sender = window'
    BY <2>7
  <2>10. Honest(tokens', run', window', commits, told, issued)
    BY <1>1, <2>7, <2>8, <2>9, HonestWithdrawn
  <2> QED BY <2>2, <2>10
<1>4. CASE Activate
  <2>1. window = 0 /\ tokens' = tokens /\ run' = run
        /\ UNCHANGED <<commits, told, issued>>
    BY <1>4 DEF Activate, tokenVars
  <2>2. \A k \in DOMAIN tokens : tokens[k].state # "pending"
    BY <1>1, <1>2, <2>1 DEF Honest
  <2>3. Honest(tokens, run, window', commits, told, issued)
    BY <1>1, <2>2 DEF Honest
  <2> QED BY <2>1, <2>3
<1>5. CASE Exit
  <2>1. tokens' = <<>> /\ run' = [s \in Slots |-> Idle] /\ UNCHANGED <<commits, told, issued>>
    BY <1>5 DEF Exit
  <2>2. DOMAIN tokens' = {}
    BY <2>1
  <2>3. \A s \in Slots : run'[s].kind # "commit"
    BY <2>1, IdleType
  <2>4. Honest(tokens', run', window', commits, told, issued)
    BY <1>1, <2>2, <2>3 DEF Honest
  <2> QED BY <2>1, <2>4
<1> QED BY <1>3, <1>4, <1>5

\* Every step keeps TokenInvariant.
LEMMA TokenInductive ==
  ASSUME TypeOK, RunInvariant, TokenInvariant, [Next]_vars
  PROVE  TokenInvariant'
<1>1. ASSUME NEW s \in Slots, SettleScan(s)
      PROVE  Honest(tokens', run', window', commits', told', issued')
  <2>1. \/ UNCHANGED issued /\ Finally(s, tokens)
        \/ /\ window = run[s].window /\ issued' = issued + 1
           /\ \E m \in BOOLEAN : Finally(s, Issue(tokens, issued + 1, run[s].window, m, due))
    BY <1>1 DEF SettleScan
  <2>2. CASE UNCHANGED issued /\ Finally(s, tokens)
    BY <1>1, <2>2, WithdrawingStep
  <2>3. ASSUME window = run[s].window, issued' = issued + 1, NEW m \in BOOLEAN,
               Finally(s, Issue(tokens, issued + 1, run[s].window, m, due))
        PROVE  Honest(tokens', run', window', commits', told', issued')
    BY <1>1, <2>3, IssueStep
  <2> QED BY <2>1, <2>2, <2>3
<1>2. Honest(tokens', run', window', commits', told', issued')
  <2>1. CASE \/ PrepareDirectoryImport \/ AnswerPicker \/ TokenDue \/ ExpiryTimer
             \/ \E k \in Tokens : CancelDirectoryImport(k)
             \/ ImportSampleLibrary \/ SampleReady \/ CancelImport
             \/ \E s \in Slots : SettleSample(s)
             \/ Quit \/ UNCHANGED vars
    BY <2>1, WithdrawingStep
  <2>2. ASSUME NEW k \in Tokens, ConfirmDirectoryImport(k)
        PROVE  Honest(tokens', run', window', commits', told', issued')
    BY <2>2, ConfirmStep
  <2>3. ASSUME NEW s \in Slots, SettleCommit(s)
        PROVE  Honest(tokens', run', window', commits', told', issued')
    BY <2>3, CommitStep
  <2>4. CASE CloseWindow \/ Activate \/ Exit
    BY <2>4, WindowStep
  <2> QED BY <1>1, <2>1, <2>2, <2>3, <2>4 DEF Next, Settle
<1>3. CommitHoldsToken'
  BY <1>2 DEF Honest, CommitHoldsToken, InState
<1>4. ConfirmingIsRunning'
  <2>1. \A k : k \in InState(tokens', {"confirming"}) <=>
                 k \in DOMAIN tokens' /\ tokens'[k].state = "confirming"
    BY DEF InState
  <2>2. \A k : k \in {run'[s].token : s \in {i \in Slots : run'[i].kind = "commit"}} <=>
                 \E s \in Slots : run'[s].kind = "commit" /\ run'[s].token = k
    OBVIOUS
  <2>3. \A k : (k \in DOMAIN tokens' /\ tokens'[k].state = "confirming") <=>
                 \E s \in Slots : run'[s].kind = "commit" /\ run'[s].token = k
    BY <1>2 DEF Honest
  <2>4. InState(tokens', {"confirming"}) =
          {run'[s].token : s \in {i \in Slots : run'[i].kind = "commit"}}
    BY <2>1, <2>2, <2>3
  <2> QED BY <2>4 DEF ConfirmingIsRunning
<1>5. \A k \in Pending(tokens') : tokens'[k].sender = window'
  BY <1>2 DEF Honest, Pending, InState
<1>6. \A j, k \in InState(tokens', {"pending", "confirming"}) : j = k
  BY <1>2 DEF Honest, InState
<1>7. TokensTellTheTruth'
  BY <1>2 DEF Honest, TokensTellTheTruth
<1>8. ReplayMeansImported' /\ (\A k \in Tokens : k > issued => commits[k] = 0)'
  BY <1>2 DEF Honest, ReplayMeansImported
<1> QED BY <1>3, <1>4, <1>5, <1>6, <1>7, <1>8 DEF TokenInvariant

\* The desktop starts with no token.
LEMMA TokensStarting ==
  ASSUME Init
  PROVE  TokenInvariant
<1>1. DOMAIN tokens = {} /\ told = {} /\ \A k \in Tokens : commits[k] = 0
  BY DEF Init
<1>2. \A s \in Slots : run[s].kind # "commit"
  BY IdleType DEF Init
<1>3. CommitHoldsToken /\ ConfirmingIsRunning
  BY <1>1, <1>2 DEF CommitHoldsToken, ConfirmingIsRunning, InState
<1>4. TokensTellTheTruth /\ ReplayMeansImported
  BY <1>1 DEF TokensTellTheTruth, ReplayMeansImported
<1> QED BY <1>1, <1>3, <1>4 DEF TokenInvariant, Pending, InState

\* In every state of the desktop an import that commits holds its token, no other
\* token can be used meanwhile, and the table agrees with the commits.
THEOREM TokenInvariantHolds == Spec => []TokenInvariant
<1>1. Init => TokenInvariant
  BY TokensStarting
<1>2. TypeOK /\ RunInvariant /\ TokenInvariant /\ [Next]_vars => TokenInvariant'
  BY TokenInductive
<1> QED BY <1>1, <1>2, RunInvariantHolds, PTL DEF Spec

\* Every confirmation imports at most once, only a preview that had something to
\* import, and the table says what became of it.
THEOREM TokensAlwaysTruthful == Spec => []TokensTellTheTruth
<1>1. TokenInvariant => TokensTellTheTruth
  BY DEF TokenInvariant
<1> QED BY <1>1, TokenInvariantHolds, PTL

\* A replayed confirmation is answered "imported" of a committed import only, and a
\* token is being confirmed exactly while its import runs.
THEOREM ReplaysAreTrue == Spec => [](ReplayMeansImported /\ ConfirmingIsRunning)
<1>1. TokenInvariant => ReplayMeansImported /\ ConfirmingIsRunning
  BY DEF TokenInvariant
<1> QED BY <1>1, TokenInvariantHolds, PTL

\* At most one preview can still be used, and only by the live window.
THEOREM OnePreviewUsable == Spec => []OneUsablePreview
<1>1. TokenInvariant => OneUsablePreview
  <2> SUFFICES ASSUME TokenInvariant
               PROVE  OneUsablePreview
    OBVIOUS
  <2> DEFINE U == InState(tokens, {"pending", "confirming"})
  <2>1. \A j, k \in U : j = k
    BY DEF TokenInvariant
  <2>2. \A k \in Pending(tokens) : tokens[k].sender = window
    BY DEF TokenInvariant
  <2> HIDE DEF U
  <2>3. U = {} \/ \E k : U = {k}
    BY <2>1
  <2>4. Cardinality(U) <= 1
    <3>1. CASE U = {}
      BY <3>1, FS_EmptySet
    <3>2. CASE \E k : U = {k}
      BY <3>2, FS_Singleton
    <3> QED BY <2>3, <3>1, <3>2
  <2> QED BY <2>2, <2>4 DEF OneUsablePreview, U
<1> QED BY <1>1, TokenInvariantHolds, PTL

-----------------------------------------------------------------------------
(* SpentStaysSpent.                                                        *)

\* What is not in `t` of the tokens 1 .. n does not come back, and what is spent is
\* forgotten or stays as it is.
Spends(t, u, n) ==
  \A k \in 1 .. n :
    /\ k \notin DOMAIN t => k \notin DOMAIN u
    /\ k \in Tombstones(t) \cap DOMAIN u => u[k] = t[k]

\* Two entries with the same fields are the same.
LEMMA SameEntry ==
  ASSUME NEW e \in Entries, NEW f \in Entries,
         e.state = f.state, e.sender = f.sender, e.importable = f.importable
  PROVE  e = f
BY DEF Entries

\* What happens to the tokens step after step.
LEMMA SpendsTwice ==
  ASSUME NEW t, NEW u, NEW v, NEW n, Spends(t, u, n), Spends(u, v, n)
  PROVE  Spends(t, v, n)
<1> SUFFICES ASSUME NEW k \in 1 .. n
             PROVE  /\ k \notin DOMAIN t => k \notin DOMAIN v
                    /\ k \in Tombstones(t) \cap DOMAIN v => v[k] = t[k]
  BY DEF Spends
<1>1. k \notin DOMAIN t => k \notin DOMAIN v
  BY DEF Spends
<1>2. ASSUME k \in Tombstones(t), k \in DOMAIN v
      PROVE  v[k] = t[k]
  <2>1. k \in DOMAIN u
    BY <1>2 DEF Spends
  <2>2. u[k] = t[k]
    BY <1>2, <2>1 DEF Spends
  <2>3. k \in Tombstones(u)
    BY <1>2, <2>1, <2>2 DEF Tombstones, InState
  <2> QED BY <1>2, <2>2, <2>3 DEF Spends
<1> QED BY <1>1, <1>2

\* Withdrawing brings nothing back.
LEMMA WithdrawingSpends ==
  ASSUME NEW t, IsTable(t), NEW u, IsTable(u), Withdraws(t, u), NEW n
  PROVE  Spends(t, u, n)
<1> SUFFICES ASSUME NEW k \in DOMAIN u, k \in Tombstones(t)
             PROVE  u[k] = t[k]
  BY DEF Spends, Withdraws
<1>1. k \in DOMAIN t /\ t[k].state \in Terminal
  BY DEF Tombstones, InState
<1>2. t[k] \in Entries /\ u[k] \in Entries
  BY <1>1 DEF IsTable
<1>3. t[k].state # "pending"
  BY <1>1 DEF Terminal
<1>4. u[k].state = t[k].state /\ u[k].sender = t[k].sender
      /\ u[k].importable = t[k].importable
  BY <1>3 DEF Withdraws
<1> QED BY <1>2, <1>4, SameEntry

\* Nor does a step that only changes the state of one token which is not spent.
LEMMA ChangingSpends ==
  ASSUME NEW t, IsTable(t), NEW u, IsTable(u), DOMAIN u = DOMAIN t, NEW k,
         \A j \in DOMAIN t :
           u[j].sender = t[j].sender /\ u[j].importable = t[j].importable,
         \A j \in DOMAIN t : j # k => u[j].state = t[j].state,
         k \in DOMAIN t /\ t[k].state \in Terminal => u[k].state = t[k].state,
         NEW n
  PROVE  Spends(t, u, n)
<1> SUFFICES ASSUME NEW i \in Tombstones(t)
             PROVE  u[i] = t[i]
  BY DEF Spends
<1>1. i \in DOMAIN t /\ t[i].state \in Terminal
  BY DEF Tombstones, InState
<1>2. t[i] \in Entries /\ u[i] \in Entries
  BY <1>1 DEF IsTable
<1>3. u[i].state = t[i].state
  BY <1>1
<1>4. u[i].sender = t[i].sender /\ u[i].importable = t[i].importable
  BY <1>1
<1> QED BY <1>2, <1>3, <1>4, SameEntry

\* Issuing a token brings back none of the earlier ones.
LEMMA IssuingSpends ==
  ASSUME NEW t, IsTable(t), NEW n \in Nat, NEW w, NEW m, NEW u, Issues(t, n + 1, w, m, u)
  PROVE  Spends(t, u, n)
<1> DEFINE k == n + 1
<1>1. PICK a, v :
        /\ IsTable(a) /\ Withdraws(t, a)
        /\ IsTable(v) /\ DOMAIN v = DOMAIN a \cup {k}
        /\ \A j \in DOMAIN a : v[j] = a[j]
        /\ IsTable(u) /\ Withdraws(v, u)
  BY DEF Issues
<1>2. \A j \in 1 .. n : j # k
  OBVIOUS
<1> HIDE DEF k
<1>3. Spends(t, a, n)
  BY <1>1, WithdrawingSpends
<1>4. Spends(a, v, n)
  <2> SUFFICES ASSUME NEW j \in 1 .. n
               PROVE  /\ j \notin DOMAIN a => j \notin DOMAIN v
                      /\ j \in Tombstones(a) => v[j] = a[j]
    BY DEF Spends
  <2> QED BY <1>1, <1>2 DEF Tombstones, InState
<1>5. Spends(v, u, n)
  BY <1>1, WithdrawingSpends
<1> QED BY <1>3, <1>4, <1>5, SpendsTwice

\* Every step of the desktop spends tokens, if anything.
LEMMA SpendingStep ==
  ASSUME TypeOK, RunInvariant, TokenInvariant, [Next]_vars
  PROVE  Spends(tokens, tokens', issued)
<1>1. IsTable(tokens) /\ TableType(tokens, issued, opened) /\ issued \in Nat
      /\ opened \in Nat /\ window \in 0 .. opened
  <2>1. TableType(tokens, issued, opened) /\ issued \in Nat /\ opened \in Nat
        /\ window \in 0 .. opened
    BY Facts
  <2> QED BY <2>1 DEF TableType
<1>2. IsTable(tokens')
  BY TableStep DEF TableType
<1>3. ASSUME Withdraws(tokens, tokens')
      PROVE  Spends(tokens, tokens', issued)
  BY <1>1, <1>2, <1>3, WithdrawingSpends
<1>4. CASE UNCHANGED vars \/ AnswerPicker \/ TokenDue \/ SampleReady \/ CancelImport \/ Activate
  <2>1. tokens' = tokens
    BY <1>4 DEF vars, tokenVars, AnswerPicker, TokenDue, SampleReady, CancelImport, Activate
  <2> QED BY <1>3, <2>1, WithdrawsNothing
<1>5. CASE PrepareDirectoryImport \/ ImportSampleLibrary
  <2>1. tokens' = AbortPendingForSender(tokens, window, due)
    BY <1>5 DEF PrepareDirectoryImport, ImportSampleLibrary
  <2> QED BY <1>1, <1>3, <2>1, AbortingForSender
<1>6. CASE ExpiryTimer
  <2>1. PICK k : tokens' = ExpireIfDue(tokens, k, due)
    BY <1>6 DEF ExpiryTimer
  <2> QED BY <1>1, <1>3, <2>1, ExpiringOne
<1>7. ASSUME NEW k \in Tokens, CancelDirectoryImport(k)
      PROVE  Spends(tokens, tokens', issued)
  <2>1. tokens' = Cancel(tokens, k, due)
    BY <1>7 DEF CancelDirectoryImport
  <2> QED BY <1>1, <1>3, <2>1, Cancelling
<1>8. ASSUME NEW k \in Tokens, ConfirmDirectoryImport(k)
      PROVE  Spends(tokens, tokens', issued)
  <2> DEFINE e == TakeForConfirmation(tokens, k, due)
             a == SetTerminalState(e, k, "aborted")
  <2>1. \/ tokens' = e
        \/ tokens[k].state = "pending" /\ tokens' = a
    BY <1>8 DEF ConfirmDirectoryImport, Pending, InState
  <2>2. /\ IsTable(e) /\ DOMAIN e = DOMAIN tokens
        /\ \A j \in DOMAIN tokens :
             e[j].sender = tokens[j].sender /\ e[j].importable = tokens[j].importable
        /\ \A j \in DOMAIN tokens : j # k => e[j].state = tokens[j].state
        /\ k \in DOMAIN tokens =>
             \/ tokens[k].state # "pending" /\ e[k].state = tokens[k].state
             \/ tokens[k].state = "pending" /\ e[k].state \in {"expired", "confirming"}
    BY <1>1, Taking
  <2> HIDE DEF e
  <2>3. k \in DOMAIN tokens /\ tokens[k].state \in Terminal => e[k].state = tokens[k].state
    BY <2>2 DEF Terminal
  <2>4. CASE tokens' = e
    <3>1. Spends(tokens, e, issued)
      BY <1>1, <2>2, <2>3, ChangingSpends
    <3> QED BY <2>4, <3>1
  <2>5. CASE tokens[k].state = "pending" /\ tokens' = a
    <3>1. "aborted" \in States
      BY DEF States, Terminal
    <3>2. /\ IsTable(a) /\ DOMAIN a = DOMAIN e
          /\ \A j \in DOMAIN e : a[j].sender = e[j].sender /\ a[j].importable = e[j].importable
          /\ \A j \in DOMAIN e : j # k => a[j].state = e[j].state
      BY <2>2, <3>1, Marking
    <3> HIDE DEF a
    <3>3. tokens[k].state \notin Terminal
      BY <2>5 DEF Terminal
    <3>4. /\ DOMAIN a = DOMAIN tokens
          /\ \A j \in DOMAIN tokens :
               a[j].sender = tokens[j].sender /\ a[j].importable = tokens[j].importable
          /\ \A j \in DOMAIN tokens : j # k => a[j].state = tokens[j].state
      BY <2>2, <3>2
    <3>5. Spends(tokens, a, issued)
      BY <1>1, <3>2, <3>3, <3>4, ChangingSpends
    <3> QED BY <2>5, <3>5
  <2> QED BY <2>1, <2>4, <2>5
<1>9. ASSUME NEW s \in Slots, SettleScan(s)
      PROVE  Spends(tokens, tokens', issued)
  <2>1. CASE Finally(s, tokens)
    BY <1>1, <1>3, <2>1, FinallyTable
  <2>2. ASSUME window = run[s].window, NEW m \in BOOLEAN,
               Finally(s, Issue(tokens, issued + 1, run[s].window, m, due))
        PROVE  Spends(tokens, tokens', issued)
    <3> DEFINE n == issued + 1
               w == run[s].window
               u == Issue(tokens, n, w, m, due)
    <3>1. Finally(s, u) /\ n = issued + 1 /\ w \in Nat
      BY <1>1, <2>2
    <3>2. n \notin DOMAIN tokens
      BY <1>1, <3>1 DEF TableType
    <3> HIDE DEF n, w
    <3>3. Issues(tokens, n, w, m, u)
      BY <1>1, <3>1, <3>2, Issuing
    <3> HIDE DEF u
    <3>4. IsTable(u)
      BY <3>3 DEF Issues
    <3>5. Spends(tokens, u, issued)
      BY <1>1, <3>1, <3>3, IssuingSpends
    <3>6. IsTable(tokens') /\ Withdraws(u, tokens')
      BY <3>1, <3>4, FinallyTable
    <3>7. Spends(u, tokens', issued)
      BY <3>4, <3>6, WithdrawingSpends
    <3> QED BY <3>5, <3>7, SpendsTwice
  <2> QED BY <1>9, <2>1, <2>2 DEF SettleScan
<1>10. ASSUME NEW s \in Slots, SettleCommit(s)
       PROVE  Spends(tokens, tokens', issued)
  <2> DEFINE k == run[s].token
  <2>1. PICK o \in {"imported", "stale-scan", "aborted"} :
          Finally(s, SetTerminalState(tokens, k, o))
    BY <1>10 DEF SettleCommit, Mark
  <2>2. o \in States
    BY DEF States, Terminal
  <2> HIDE DEF k
  <2> DEFINE e == SetTerminalState(tokens, k, o)
  <2>3. /\ IsTable(e) /\ DOMAIN e = DOMAIN tokens
        /\ \A j \in DOMAIN tokens :
             e[j].sender = tokens[j].sender /\ e[j].importable = tokens[j].importable
        /\ \A j \in DOMAIN tokens : j # k => e[j].state = tokens[j].state
        /\ k \in DOMAIN tokens =>
             \/ tokens[k].state \in {"pending", "confirming"} /\ e[k].state = o
             \/ tokens[k].state \notin {"pending", "confirming"} /\ e[k].state = tokens[k].state
    BY <1>1, <2>2, Marking
  <2>4. Finally(s, e)
    BY <2>1
  <2> HIDE DEF e
  <2>5. k \in DOMAIN tokens /\ tokens[k].state \in Terminal => e[k].state = tokens[k].state
    BY <2>3 DEF Terminal
  <2>6. Spends(tokens, e, issued)
    BY <1>1, <2>3, <2>5, ChangingSpends
  <2>7. IsTable(tokens') /\ Withdraws(e, tokens')
    BY <2>3, <2>4, FinallyTable
  <2>8. Spends(e, tokens', issued)
    BY <2>3, <2>7, WithdrawingSpends
  <2> QED BY <2>6, <2>8, SpendsTwice
<1>11. ASSUME NEW s \in Slots, SettleSample(s)
       PROVE  Spends(tokens, tokens', issued)
  <2>1. Finally(s, tokens)
    BY <1>11 DEF SettleSample
  <2> QED BY <1>1, <1>3, <2>1, FinallyTable
<1>12. CASE CloseWindow
  <2> DEFINE a == AbortPendingForSender(tokens, window, due)
             t == AbortAll(a, due)
             u == AbortAll(t, due)
  <2>1. tokens' = t \/ tokens' = u
    BY <1>12 DEF CloseWindow, BeforeQuit
  <2>2. IsTable(a) /\ Withdraws(tokens, a)
    BY <1>1, AbortingForSender
  <2> HIDE DEF a
  <2>3. IsTable(t) /\ Withdraws(tokens, t)
    BY <2>2, AbortingAll, WithdrawsTwice
  <2> HIDE DEF t
  <2>4. Withdraws(tokens, u)
    BY <2>3, AbortingAll, WithdrawsTwice
  <2> HIDE DEF u
  <2> QED BY <1>3, <2>1, <2>3, <2>4
<1>13. CASE Quit
  <2>1. tokens' = AbortAll(tokens, due)
    BY <1>13 DEF Quit, BeforeQuit
  <2> QED BY <1>1, <1>3, <2>1, AbortingAll
<1>14. CASE Exit
  <2>1. DOMAIN tokens' = {}
    BY <1>14 DEF Exit
  <2> QED BY <2>1 DEF Spends
<1> QED BY <1>4, <1>5, <1>6, <1>7, <1>8, <1>9, <1>10, <1>11, <1>12, <1>13, <1>14
        DEF Next, Settle

\* A token that was used, dropped, expired or forgotten never comes back.
THEOREM SpentTokensStaySpent == Spec => SpentStaysSpent
<1>1. TypeOK /\ RunInvariant /\ TokenInvariant /\ [Next]_vars
        => [\A k \in 1 .. issued :
              /\ k \notin DOMAIN tokens => k \notin DOMAIN tokens'
              /\ k \in Tombstones(tokens) \cap DOMAIN tokens'
                   => tokens'[k] = tokens[k]]_vars
  BY SpendingStep DEF Spends
<1> QED BY <1>1, RunInvariantHolds, TokenInvariantHolds, PTL DEF Spec, SpentStaysSpent

-----------------------------------------------------------------------------
(* TableBounded.                                                           *)

\* Of a finite set of numbers, those that fewer than m others exceed are at most m:
\* all of them but the least exceed the least.
LEMMA NewestAreFew ==
  ASSUME NEW S \in SUBSET Nat, IsFiniteSet(S), NEW m \in Nat,
         NEW K \in SUBSET S, \A k \in K : Cardinality({j \in S : j > k}) < m
  PROVE  IsFiniteSet(K) /\ Cardinality(K) <= m
<1>1. IsFiniteSet(K)
  BY FS_Subset
<1>2. CASE K = {}
  BY <1>1, <1>2, FS_EmptySet
<1>3. CASE K # {}
  <2>1. K \subseteq Nat
    OBVIOUS
  <2>2. PICK k \in K : \A n \in K : ~(<<n, k>> \in OpToRel(<, Nat))
    BY <1>3, <2>1, NatLessThanWellFounded, WFMin
  <2>3. \A n \in K : n # k => n > k
    <3>1. \A n \in K : ~(n < k)
      BY <2>1, <2>2 DEF OpToRel
    <3> QED BY <2>1, <3>1
  <2> DEFINE G == {j \in S : j > k}
  <2>4. IsFiniteSet(G) /\ Cardinality(G) \in Nat
    <3>1. G \in SUBSET S
      OBVIOUS
    <3> HIDE DEF G
    <3> QED BY <3>1, FS_Subset, FS_CardinalityType
  <2>5. Cardinality(G) < m
    OBVIOUS
  <2>6. K \in SUBSET (G \cup {k})
    BY <2>3
  <2> HIDE DEF G
  <2>7. /\ IsFiniteSet(G \cup {k})
        /\ Cardinality(G \cup {k}) = IF k \in G THEN Cardinality(G) ELSE Cardinality(G) + 1
    BY <2>4, FS_AddElement
  <2>8. Cardinality(K) <= Cardinality(G \cup {k}) /\ Cardinality(K) \in Nat
    BY <1>1, <2>6, <2>7, FS_Subset, FS_CardinalityType
  <2> QED BY <1>1, <2>4, <2>5, <2>7, <2>8
<1> QED BY <1>2, <1>3

\* Pruning leaves of the spent tokens the newest MaxTombstones.
LEMMA PruningBounds ==
  ASSUME NEW t, IsTable(t), IsFiniteSet(DOMAIN t), DOMAIN t \subseteq Nat,
         NEW d, NEW u, u = Prune(t, d)
  PROVE  IsFiniteSet(Tombstones(u)) /\ Cardinality(Tombstones(u)) <= MaxTombstones
<1> DEFINE e == Expire(t, DOMAIN t, d)
           T == Tombstones(e)
           old == {k \in T : Cardinality({j \in T : j > k}) >= MaxTombstones}
<1>1. u = Restrict(e, DOMAIN e \ old)
  BY DEF Prune
<1>2. DOMAIN e = DOMAIN t
  BY Expiring
<1>3. T \in SUBSET (DOMAIN t)
  <2> HIDE DEF e
  <2> QED BY <1>2 DEF Tombstones, InState
<1>4. DOMAIN u = DOMAIN e \ old /\ \A k \in DOMAIN u : u[k] = e[k]
  <2> HIDE DEF e, old
  <2> QED BY <1>1 DEF Restrict
<1>5. Tombstones(u) = T \ old
  <2> HIDE DEF e, old
  <2> QED BY <1>4 DEF Tombstones, InState
<1> HIDE DEF T
<1>6. \A k \in T : Cardinality({j \in T : j > k}) \in Nat
  <2> SUFFICES ASSUME NEW k \in T
               PROVE  Cardinality({j \in T : j > k}) \in Nat
    OBVIOUS
  <2> DEFINE G == {j \in T : j > k}
  <2>1. G \in SUBSET (DOMAIN t)
    BY <1>3
  <2> HIDE DEF G
  <2>2. Cardinality(G) \in Nat
    BY <2>1, FS_Subset, FS_CardinalityType
  <2> QED BY <2>2 DEF G
<1>7. \A k \in T \ old : Cardinality({j \in T : j > k}) < MaxTombstones
  BY <1>6, ImportTokensAssumption
<1>8. T \in SUBSET Nat /\ IsFiniteSet(T)
  BY <1>3, FS_Subset
<1> HIDE DEF old
<1>9. IsFiniteSet(T \ old) /\ Cardinality(T \ old) <= MaxTombstones
  BY <1>7, <1>8, NewestAreFew, ImportTokensAssumption
<1> QED BY <1>5, <1>9

\* A table that keeps a part of another's tokens has no more of them.
LEMMA FewerTokens ==
  ASSUME NEW t, NEW u, IsFiniteSet(DOMAIN t), DOMAIN u \subseteq DOMAIN t,
         NEW m \in Nat, Cardinality(DOMAIN t) <= m
  PROVE  IsFiniteSet(DOMAIN u) /\ Cardinality(DOMAIN u) <= m
<1>1. DOMAIN u \in SUBSET (DOMAIN t)
  OBVIOUS
<1>2. IsFiniteSet(DOMAIN u) /\ Cardinality(DOMAIN u) <= Cardinality(DOMAIN t)
  BY <1>1, FS_Subset
<1>3. Cardinality(DOMAIN u) \in Nat /\ Cardinality(DOMAIN t) \in Nat
  BY <1>2, FS_CardinalityType
<1> QED BY <1>2, <1>3

\* The table after issuing, when nothing is being confirmed and all that is pending
\* is of the window: the new preview and the spent tokens pruning left.
LEMMA IssuingBounds ==
  ASSUME NEW t, IsTable(t), NEW n \in Nat, DOMAIN t \subseteq 1 .. n, NEW w \in Nat,
         NEW m \in BOOLEAN, NEW d,
         \A j \in DOMAIN t : t[j].state # "confirming",
         \A j \in Pending(t) : t[j].sender = w,
         NEW u, u = Issue(t, n + 1, w, m, d)
  PROVE  IsFiniteSet(DOMAIN u) /\ Cardinality(DOMAIN u) <= MaxTombstones + 1
<1> DEFINE k == n + 1
           a == AbortPendingForSender(t, w, d)
           v == Register(a, k, Entry(w, m))
<1>1. u = Prune(v, d)
  BY DEF Issue
<1>2. IsTable(a) /\ Withdraws(t, a) /\ \A j \in Pending(a) : a[j].sender # w
  BY AbortingForSender
<1>3. Entry(w, m) \in Entries
  BY DEF Entry, Entries, States
<1>4. DOMAIN v = DOMAIN a \cup {k} /\ \A j \in DOMAIN v : v[j] = IF j = k THEN Entry(w, m) ELSE a[j]
  BY DEF Register
<1>5. k \in Nat
  OBVIOUS
<1> HIDE DEF a
<1>6. DOMAIN a \subseteq 1 .. n
  BY <1>2 DEF Withdraws
<1>7. \A j \in DOMAIN a : a[j].state \in Terminal
  <2> SUFFICES ASSUME NEW j \in DOMAIN a
               PROVE  a[j].state \in Terminal
    OBVIOUS
  <2>1. j \in DOMAIN t /\ a[j].sender = t[j].sender
        /\ (a[j].state = t[j].state
              \/ (t[j].state = "pending" /\ a[j].state \in {"expired", "aborted"}))
    BY <1>2 DEF Withdraws
  <2>2. a[j].state # "confirming"
    BY <2>1
  <2>3. ASSUME a[j].state = "pending"
        PROVE  FALSE
    <3>1. j \in Pending(a) /\ j \in Pending(t)
      BY <2>1, <2>3 DEF Pending, InState
    <3> QED BY <1>2, <2>1, <3>1
  <2>4. a[j] \in Entries
    BY <1>2 DEF IsTable
  <2>5. a[j].state \in States
    BY <2>4 DEF Entries
  <2> QED BY <2>2, <2>3, <2>5 DEF States
<1>8. IsTable(v)
  <2>1. \A j \in DOMAIN a \cup {k} : (IF j = k THEN Entry(w, m) ELSE a[j]) \in Entries
    BY <1>2, <1>3 DEF IsTable
  <2>2. v \in [DOMAIN v -> Entries]
    <3> HIDE DEF k
    <3> QED BY <2>1 DEF Register
  <2> HIDE DEF v
  <2> QED BY <2>2 DEF IsTable
<1>9. DOMAIN v \subseteq 1 .. k
  BY <1>4, <1>6
<1>10. \A j \in DOMAIN v : j # k => v[j].state \in Terminal
  BY <1>4, <1>7
<1> HIDE DEF v, k
<1>11. IsFiniteSet(DOMAIN v) /\ DOMAIN v \subseteq Nat
  <2>1. IsFiniteSet(1 .. k)
    BY <1>5, FS_Interval
  <2>2. DOMAIN v \in SUBSET (1 .. k)
    BY <1>9
  <2>3. DOMAIN v \subseteq Nat
    BY <1>5, <2>2
  <2> QED BY <2>1, <2>2, <2>3, FS_Subset
<1>12. IsFiniteSet(Tombstones(u)) /\ Cardinality(Tombstones(u)) <= MaxTombstones
  BY <1>1, <1>8, <1>11, PruningBounds
<1>13. Withdraws(v, u)
  BY <1>1, <1>8, Pruning
<1>14. DOMAIN u \in SUBSET (Tombstones(u) \cup {k})
  <2> SUFFICES ASSUME NEW j \in DOMAIN u, j # k
               PROVE  j \in Tombstones(u)
    OBVIOUS
  <2>1. j \in DOMAIN v /\ v[j].state \in Terminal
    BY <1>10, <1>13 DEF Withdraws
  <2>2. u[j].state = v[j].state
    BY <1>13, <2>1 DEF Withdraws, Terminal
  <2> QED BY <2>1, <2>2 DEF Tombstones, InState
<1>15. /\ IsFiniteSet(Tombstones(u) \cup {k})
       /\ Cardinality(Tombstones(u) \cup {k})
            = IF k \in Tombstones(u) THEN Cardinality(Tombstones(u))
              ELSE Cardinality(Tombstones(u)) + 1
  BY <1>12, FS_AddElement
<1>16. IsFiniteSet(DOMAIN u) /\ Cardinality(DOMAIN u) <= Cardinality(Tombstones(u) \cup {k})
  BY <1>14, <1>15, FS_Subset
<1>17. Cardinality(DOMAIN u) \in Nat /\ Cardinality(Tombstones(u)) \in Nat
  BY <1>12, <1>16, FS_CardinalityType
<1> QED BY <1>12, <1>15, <1>16, <1>17, ImportTokensAssumption

\* A token is issued at the end of a scan only, while nothing is being confirmed.
LEMMA IssuesAtScan ==
  ASSUME TypeOK, RunInvariant, TokenInvariant, [Next]_vars, issued' # issued
  PROVE  \E w \in Nat, m \in BOOLEAN :
           /\ DOMAIN tokens' \subseteq DOMAIN Issue(tokens, issued + 1, w, m, due)
           /\ \A j \in DOMAIN tokens : tokens[j].state # "confirming"
           /\ \A j \in Pending(tokens) : tokens[j].sender = w
<1>1. PICK s \in Slots : SettleScan(s)
  BY DEF Next, Settle, vars, tokenVars, AnswerPicker, TokenDue, SampleReady, CancelImport,
         Activate, PrepareDirectoryImport, ImportSampleLibrary, ExpiryTimer,
         CancelDirectoryImport, ConfirmDirectoryImport, SettleCommit, SettleSample,
         CloseWindow, Quit, Exit
<1> DEFINE w == run[s].window
<1>2. PICK m \in BOOLEAN :
        window = w /\ Finally(s, Issue(tokens, issued + 1, w, m, due))
  BY <1>1 DEF SettleScan
<1> DEFINE u == Issue(tokens, issued + 1, w, m, due)
<1>3. /\ TableType(tokens, issued, opened) /\ opened \in Nat /\ window \in 0 .. opened
      /\ issued \in Nat
  <2>1. TableType(tokens, issued, opened)
    BY Facts
  <2>2. opened \in Nat /\ window \in 0 .. opened /\ issued \in Nat
    BY Facts
  <2> QED BY <2>1, <2>2
<1>4. IsTable(tokens) /\ issued + 1 \notin DOMAIN tokens /\ w \in Nat
  BY <1>2, <1>3 DEF TableType
<1>5. run[s].kind = "scan"
  BY <1>1 DEF SettleScan
<1>6. \A i \in Slots : run[i].kind # "commit"
  BY <1>2, <1>5, OtherEnds
<1>7. \A j \in DOMAIN tokens : tokens[j].state # "confirming"
  BY <1>6, TokensHonest DEF Honest
<1>8. \A j \in Pending(tokens) : tokens[j].sender = w
  BY <1>2 DEF TokenInvariant
<1> HIDE DEF w
<1>9. IsTable(u)
  <2>1. Issues(tokens, issued + 1, w, m, u)
    BY <1>4, Issuing
  <2> HIDE DEF u
  <2> QED BY <2>1 DEF Issues
<1>10. DOMAIN tokens' \subseteq DOMAIN u
  <2>1. Finally(s, u)
    BY <1>2
  <2> HIDE DEF u
  <2> QED BY <1>9, <2>1, FinallyTable DEF Withdraws
<1> QED BY <1>4, <1>7, <1>8, <1>10

\* The table never remembers more than one usable token and MaxTombstones spent ones.
LEMMA BoundedStep ==
  ASSUME TypeOK, RunInvariant, TokenInvariant, TableBounded, [Next]_vars
  PROVE  TableBounded'
<1>1. TableType(tokens, issued, opened) /\ issued \in Nat
  BY Facts
<1>2. IsTable(tokens) /\ DOMAIN tokens \subseteq 1 .. issued /\ MaxTombstones + 1 \in Nat
  BY <1>1, ImportTokensAssumption DEF TableType
<1>3. CASE issued' = issued
  <2>1. DOMAIN tokens' \subseteq 1 .. issued
    BY <1>3, TableStep DEF TableType
  <2>2. DOMAIN tokens' \subseteq DOMAIN tokens
    BY <2>1, SpendingStep DEF Spends
  <2>3. IsFiniteSet(DOMAIN tokens)
    <3>1. IsFiniteSet(1 .. issued)
      BY <1>1, FS_Interval
    <3>2. DOMAIN tokens \in SUBSET (1 .. issued)
      BY <1>2
    <3> QED BY <3>1, <3>2, FS_Subset
  <2> QED BY <1>2, <2>2, <2>3, FewerTokens DEF TableBounded
<1>4. CASE issued' # issued
  <2>1. PICK w \in Nat, m \in BOOLEAN :
          /\ DOMAIN tokens' \subseteq DOMAIN Issue(tokens, issued + 1, w, m, due)
          /\ \A j \in DOMAIN tokens : tokens[j].state # "confirming"
          /\ \A j \in Pending(tokens) : tokens[j].sender = w
    BY <1>4, IssuesAtScan
  <2> DEFINE u == Issue(tokens, issued + 1, w, m, due)
  <2>2. IsFiniteSet(DOMAIN u) /\ Cardinality(DOMAIN u) <= MaxTombstones + 1
    BY <1>1, <1>2, <2>1, IssuingBounds
  <2>3. DOMAIN tokens' \subseteq DOMAIN u
    BY <2>1
  <2> HIDE DEF u
  <2> QED BY <1>2, <2>2, <2>3, FewerTokens DEF TableBounded
<1> QED BY <1>3, <1>4

\* The table stays bounded although most of its operations do not prune: it grows
\* only when a preview is issued, which forgets all but the newest spent tokens.
THEOREM TableAlwaysBounded == Spec => []TableBounded
<1>1. Init => TableBounded
  <2> SUFFICES ASSUME Init
               PROVE  TableBounded
    OBVIOUS
  <2>1. DOMAIN tokens = {}
    BY DEF Init
  <2> QED BY <2>1, FS_EmptySet, ImportTokensAssumption DEF TableBounded
<1>2. TypeOK /\ RunInvariant /\ TokenInvariant /\ TableBounded /\ [Next]_vars => TableBounded'
  BY BoundedStep
<1> QED BY <1>1, <1>2, RunInvariantHolds, TokenInvariantHolds, PTL DEF Spec
=============================================================================
