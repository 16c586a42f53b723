--------------------------- MODULE IssuedContext ---------------------------
(***************************************************************************)
(* What a connection of an AI client promises, without its cache, its      *)
(* transport or its failures: a fetch discloses only what a search of the  *)
(* same connection has issued, and a search only what is granted.          *)
(***************************************************************************)
CONSTANTS
  Granted,  \* the passages, a document and a chunk each, of the granted collection
  Whole     \* stands for a fetch of a document without naming a chunk

VARIABLES
  live,      \* a connection is being served
  issued,    \* the passages its searches have returned
  disclosed  \* what was returned last: a search's passages or a fetched document

vars == <<live, issued, disclosed>>

Nothing == [by |-> "nothing"]

Init == live = FALSE /\ issued = {} /\ disclosed = Nothing

Serve == ~live /\ live' = TRUE /\ issued' = {} /\ disclosed' = Nothing
End == live /\ live' = FALSE /\ issued' = {} /\ disclosed' = Nothing

\* A refusal, a failure or a document that is gone.
Withhold == live /\ disclosed' = Nothing /\ UNCHANGED <<live, issued>>

Search ==
  /\ live
  /\ \E found \in SUBSET Granted :
       /\ disclosed' = [by |-> "search", found |-> found]
       /\ issued' = issued \cup found
  /\ UNCHANGED live

Fetch(d, c) ==
  /\ live
  /\ \E p \in issued : p[1] = d /\ c \in {Whole, p[2]}
  /\ disclosed' = [by |-> "fetch", document |-> d, chunk |-> c]
  /\ UNCHANGED <<live, issued>>

Next ==
  \/ Serve \/ End \/ Withhold \/ Search
  \/ \E p \in Granted, c \in {q[2] : q \in Granted} \cup {Whole} : Fetch(p[1], c)

Spec == Init /\ [][Next]_vars
=============================================================================
