----------------------------- MODULE ImportTokens -----------------------------
(***************************************************************************)
(* The token table of the desktop's main process                           *)
(* (directory-import-preflight.ts): a prepared folder import waits under a *)
(* random token for the confirmation of the window it was prepared for.    *)
(*                                                                         *)
(* Tokens are numbers in the order of their issue, so `issuedAt` is the    *)
(* token and, the time to live being the same for all, the tokens that are *)
(* past their time are 1 .. due.  A table is a function on the tokens it   *)
(* still remembers.  `prepared` is held exactly in the states pending and  *)
(* confirming.                                                             *)
(***************************************************************************)
EXTENDS Integers, FiniteSets, Functions

CONSTANT MaxTombstones   \* MAX_RETAINED_TOMBSTONES

ASSUME ImportTokensAssumption == MaxTombstones \in Nat \ {0}

Terminal == {"imported", "aborted", "stale-scan", "expired"}
States == {"pending", "confirming"} \cup Terminal
Entry(sender, importable) ==
  [state |-> "pending", sender |-> sender, importable |-> importable]

InState(t, S) == {k \in DOMAIN t : t[k].state \in S}
Pending(t) == InState(t, {"pending"})
Tombstones(t) == InState(t, Terminal)
SetState(t, K, s) == [k \in DOMAIN t |-> IF k \in K THEN [t[k] EXCEPT !.state = s] ELSE t[k]]

ExpireAny(t, K, due) ==   \* mutant: a token being confirmed expires too
  SetState(t, {k \in InState(t, {"pending", "confirming"}) \cap K : k <= due}, "expired")
Expire(t, K, due) == SetState(t, {k \in Pending(t) \cap K : k <= due}, "expired")

(* Only the newest MaxTombstones terminal entries are remembered. *)
PruneNothing(t, due) == Expire(t, DOMAIN t, due)   \* mutant: tombstones are kept
Prune(t, due) ==
  LET e == Expire(t, DOMAIN t, due)
      old == {k \in Tombstones(e) :
                Cardinality({j \in Tombstones(e) : j > k}) >= MaxTombstones}
  IN Restrict(e, DOMAIN e \ old)

AbortNone(t, W, due) == Prune(t, due)   \* mutant: an earlier preview stays confirmable
AbortPending(t, W, due) ==
  LET e == Expire(t, DOMAIN t, due) IN
  Prune(SetState(e, {k \in Pending(e) : e[k].sender \in W}, "aborted"), due)

AbortPendingForSender(t, w, due) == AbortPending(t, {w}, due)
AbortAll(t, due) == AbortPending(t, {t[k].sender : k \in DOMAIN t}, due)

Register(t, k, e) == [j \in DOMAIN t \cup {k} |-> IF j = k THEN e ELSE t[j]]
Issue(t, k, w, importable, due) ==
  Prune(Register(AbortPendingForSender(t, w, due), k, Entry(w, importable)), due)

(* Tokens of another window are as unknown as forgotten ones. *)
EntryForSender(t, k, w) == k \in DOMAIN t /\ t[k].sender = w

TakeForConfirmation(t, k, due) ==
  LET e == Expire(t, {k}, due) IN SetState(e, {k} \cap Pending(e), "confirming")

CancelAny(t, k, due) == SetState(t, {k}, "aborted")   \* mutant: whatever its state
Cancel(t, k, due) ==
  LET e == Expire(t, {k}, due) IN SetState(e, {k} \cap Pending(e), "aborted")

ExpireIfDue(t, k, due) == Prune(Expire(t, {k}, due), due)

(* markImported, markStale, markAborted *)
SetTerminalState(t, k, s) ==
  SetState(t, {k} \cap InState(t, {"pending", "confirming"}), s)
=============================================================================
