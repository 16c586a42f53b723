--------------------------- MODULE VaultCustody ---------------------------
(***************************************************************************)
(* What opening the encrypted vault promises, without files, steps or      *)
(* crashes: a vault is established once, with one key it keeps until its   *)
(* file is lost, and whoever holds it open holds it with that key.         *)
(* KeyLifecycle implements this.                                           *)
(***************************************************************************)
EXTENDS Naturals

CONSTANTS Callers, Keys, NoKey

VARIABLES
  vault,   \* the key the vault's data is bound to, NoKey before there is any
  holds    \* for each caller the key of the vault it was handed, or NoKey

TypeOK ==
  /\ vault \in Keys \cup {NoKey}
  /\ holds \in [Callers -> Keys \cup {NoKey}]

Init ==
  /\ vault = NoKey
  /\ holds = [c \in Callers |-> NoKey]

Establish(k) ==
  /\ vault = NoKey
  /\ vault' = k
  /\ UNCHANGED holds

HandOver(c) ==
  /\ vault # NoKey
  /\ holds[c] = NoKey
  /\ holds' = [holds EXCEPT ![c] = vault]
  /\ UNCHANGED vault

LetGo(C) ==
  /\ holds' = [c \in Callers |-> IF c \in C THEN NoKey ELSE holds[c]]
  /\ UNCHANGED vault

\* The file is gone, which takes nothing from anybody who holds it.
Lose ==
  /\ \A c \in Callers : holds[c] = NoKey
  /\ vault' = NoKey
  /\ UNCHANGED holds

Next ==
  \/ \E k \in Keys : Establish(k)
  \/ \E c \in Callers : HandOver(c)
  \/ \E C \in SUBSET Callers : LetGo(C)
  \/ Lose

Spec == Init /\ [][Next]_<<vault, holds>>
============================================================================
