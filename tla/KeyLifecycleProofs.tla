-------------------------- MODULE KeyLifecycleProofs --------------------------
(***************************************************************************)
(* Theorems about the encrypted vault's key: for any number of calls, keys *)
(* and files, wherever the process stops and whatever other programs do to *)
(* the directory.                                                          *)
(***************************************************************************)
EXTENDS KeyLifecycle, TLAPS

-----------------------------------------------------------------------------
(* Types *)

(* An idle call and the ways a call goes on keep the type of calls. *)
LEMMA NoCallType == NoCall \in Calls
BY KeyLifecycleAssumption DEF Calls, NoCall, AtRest, Modes

(* A call that moves to another step. *)
LEMMA CallMoves ==
  ASSUME call \in [Callers -> Calls], NEW c \in Callers, NEW s \in AtRest \cup Steps,
         call' = [call EXCEPT ![c].pc = s]
  PROVE  call' \in [Callers -> Calls]
BY DEF Calls

(* A call that ends. *)
LEMMA CallEnds ==
  ASSUME call \in [Callers -> Calls], NEW c \in Callers, NEW s \in AtRest,
         call' = [call EXCEPT ![c] = [NoCall EXCEPT !.pc = s]]
  PROVE  call' \in [Callers -> Calls]
<1>1. [NoCall EXCEPT !.pc = s] \in Calls
  BY NoCallType DEF Calls
<1>. QED BY <1>1

(* What is there has its fields. *)
LEMMA FieldTypes ==
  ASSUME TypeOK
  PROVE  /\ Exists(envelope) => envelope.keyId \in Keys /\ envelope.vaultId \in Roots
         /\ stateFile.status = "ready" => stateFile.keyId \in Keys /\ stateFile.vaultId \in Roots
         /\ Exists(database) => database \in Databases
BY DEF TypeOK, Envelopes, Envelope, StateFiles, Creating, Ready, Absent, Exists

(* Every step keeps the types: what is written carries the key the call holds, and
   what is changed is there. *)
LEMMA TypeStep == TypeOK /\ CallInvariant /\ [Next]_vars => TypeOK'
<1> SUFFICES ASSUME TypeOK, CallInvariant, [Next]_vars PROVE TypeOK'
  OBVIOUS
<1> USE DEF durable
<1>0. call \in [Callers -> Calls]
  BY DEF TypeOK
<1>k. ASSUME NEW c \in Callers, call[c].pc \in (Steps \ NewVault) \cup {"open"}
      PROVE  call[c].key \in Keys
  BY <1>k DEF CallInvariant, WellFormed
<1>d. ASSUME NEW c \in Callers, call[c].pc \in Filled PROVE database \in Databases
  BY <1>d, FieldTypes DEF CallInvariant, ReliesOn
<1>1. CASE UNCHANGED vars
  BY <1>1 DEF vars, TypeOK
<1>2. ASSUME NEW c \in Callers, OpenCandidate(c) PROVE TypeOK'
  <2>3. ModeOf \in Modes \ {"create"} => Exists(envelope)
    BY DEF ModeOf, Modes
  <2>4. ModeOf = "ready" => stateFile.status = "ready"
    BY DEF ModeOf
  <2>6. call' \in [Callers -> Calls]
    <3>1. CASE call' = [call EXCEPT ![c] = [NoCall EXCEPT !.pc = "failed"]]
      BY <1>0, <3>1, CallEnds DEF AtRest
    <3>2. CASE Finish(c, "refused")
      BY <1>0, <3>2, CallEnds DEF AtRest, Finish
    <3>3. ASSUME NEW mode \in Modes, NEW step \in {"journal", "protect", "unprotect"},
                 mode = ModeOf,
                 call' = [call EXCEPT ![c] =
                  [NoCall EXCEPT !.pc = step, !.mode = mode,
                     !.stated = IF mode = "ready" THEN stateFile.keyId ELSE NoKey,
                     !.key = IF mode = "create" THEN NoKey ELSE envelope.keyId]]
          PROVE call' \in [Callers -> Calls]
      <4> DEFINE st == IF mode = "ready" THEN stateFile.keyId ELSE NoKey
                 k == IF mode = "create" THEN NoKey ELSE envelope.keyId
      <4>1. st \in Keys \cup {NoKey}
        BY <2>4, <3>3, FieldTypes
      <4>2. k \in Keys \cup {NoKey}
        BY <2>3, <3>3, FieldTypes
      <4> HIDE DEF st, k
      <4>3. step \in Steps
        BY DEF Steps
      <4>4. [NoCall EXCEPT !.pc = step, !.mode = mode, !.stated = st, !.key = k] \in Calls
        BY <4>1, <4>2, <4>3, NoCallType DEF Calls
      <4>. QED BY <1>0, <3>3, <4>4 DEF st, k
    <3>. QED BY <1>2, <3>1, <3>2, <3>3 DEF OpenCandidate
  <2>7. active' \in BOOLEAN
    BY <1>2 DEF OpenCandidate, Finish, TypeOK
  <2>. QED BY <1>2, <2>6, <2>7 DEF OpenCandidate, TypeOK
<1>3. ASSUME NEW c \in Callers, NEW s \in AtRest \cup Steps,
             Go(c, s) \/ (s \in AtRest /\ Finish(c, s)) \/ (s = "open" /\ HandOver(c))
      PROVE  call' \in [Callers -> Calls] /\ active' \in BOOLEAN
  BY <1>0, <1>3, CallMoves, CallEnds DEF Go, Finish, HandOver, TypeOK, AtRest
<1>4. ASSUME NEW c \in Callers, WriteInitialState(c) \/ LinkInitialState(c) \/ UnlinkInitialState(c)
      PROVE TypeOK'
  <2>1. call' \in [Callers -> Calls] /\ active' \in BOOLEAN
    BY <1>3, <1>4 DEF WriteInitialState, LinkInitialState, UnlinkInitialState, AtRest, Steps
  <2>. QED
    BY <1>4, <2>1
    DEF WriteInitialState, LinkInitialState, UnlinkInitialState, TypeOK, StateFiles
<1>5. ASSUME NEW c \in Callers, ProtectKey(c) PROVE TypeOK'
  <2>1. keys + 1 \in Keys /\ keys + 1 \in 0 .. MaxKeys
    BY <1>5, KeyLifecycleAssumption DEF ProtectKey, TypeOK, Keys
  <2> DEFINE k == keys + 1
  <2>2. k \in Keys
    BY <2>1
  <2>3. call' = [call EXCEPT ![c].pc = "seal", ![c].key = k]
    BY <1>5 DEF ProtectKey
  <2> HIDE DEF k
  <2>4. call' \in [Callers -> Calls]
    BY <1>0, <2>2, <2>3, ZenonT(60) DEF Calls, Steps
  <2>. QED BY <1>5, <2>1, <2>4 DEF ProtectKey, TypeOK
<1>6. ASSUME NEW c \in Callers, WriteEnvelope(c) \/ UnlinkEnvelope(c) \/ UnprotectKey(c)
      PROVE TypeOK'
  <2>1. call' \in [Callers -> Calls] /\ active' \in BOOLEAN
    BY <1>3, <1>6 DEF WriteEnvelope, UnlinkEnvelope, UnprotectKey, AtRest, Steps
  <2>. QED BY <1>6, <2>1 DEF WriteEnvelope, UnlinkEnvelope, UnprotectKey, TypeOK
<1>7. ASSUME NEW c \in Callers, LinkEnvelope(c) PROVE TypeOK'
  <2>1. call' \in [Callers -> Calls] /\ active' \in BOOLEAN
    BY <1>3, <1>7 DEF LinkEnvelope, AtRest, Steps
  <2>2. envelope' \in Envelopes
    BY <1>7, <1>k DEF LinkEnvelope, Envelopes, TypeOK, At, Steps, NewVault
  <2>. QED BY <1>7, <2>1, <2>2 DEF LinkEnvelope, TypeOK
<1>8. ASSUME NEW c \in Callers, ReserveFile(c) PROVE TypeOK'
  <2> DEFINE n == files + 1
  <2>1. CASE CreatesFile(c) /\ ~Exists(database) /\ files < MaxFiles
             /\ files' = n /\ database' = Database(n)
             /\ call' = [call EXCEPT ![c].pc = "native", ![c].guard = n]
             /\ UNCHANGED active
    <3>1. n \in 1 .. MaxFiles
      BY <2>1, KeyLifecycleAssumption DEF TypeOK
    <3> HIDE DEF n
    <3>2. n \in 0 .. MaxFiles
      BY <3>1, KeyLifecycleAssumption
    <3>3. Database(n) \in Databases
      BY <3>1 DEF Database, Databases, Identities
    <3>4. call' \in [Callers -> Calls]
      BY <1>0, <2>1, <3>2, ZenonT(60) DEF Calls, Steps
    <3>. QED BY <1>8, <2>1, <3>2, <3>3, <3>4 DEF ReserveFile, TypeOK
  <2>2. CASE ~CreatesFile(c) /\ Exists(database)
             /\ call' = [call EXCEPT ![c].pc = "native", ![c].guard = database.id]
             /\ UNCHANGED <<database, files, active>>
    <3>1. database \in Databases
      BY <2>2, FieldTypes
    <3>2. database.id \in 0 .. MaxFiles
      BY <3>1, KeyLifecycleAssumption DEF Databases
    <3>3. call' \in [Callers -> Calls]
      BY <1>0, <2>2, <3>2, ZenonT(60) DEF Calls, Steps
    <3>. QED BY <1>8, <2>2, <3>3 DEF ReserveFile, TypeOK
  <2>3. CASE Finish(c, "refused") /\ UNCHANGED <<database, files>>
    <3>1. call' \in [Callers -> Calls] /\ active' \in BOOLEAN
      BY <1>3, <2>3 DEF AtRest
    <3>. QED BY <1>8, <2>3, <3>1 DEF ReserveFile, TypeOK
  <2>. QED BY <1>8, <2>1, <2>2, <2>3 DEF ReserveFile
<1>9. ASSUME NEW c \in Callers, OpenNative(c) \/ AttestCipher(c) PROVE TypeOK'
  <2>1. call' \in [Callers -> Calls] /\ active' \in BOOLEAN
    BY <1>3, <1>9 DEF OpenNative, AttestCipher, AtRest, Steps
  <2>2. database' \in {Absent, database}
    BY <1>9 DEF OpenNative, AttestCipher, WithoutOwnFile
  <2>. QED BY <1>9, <2>1, <2>2 DEF OpenNative, AttestCipher, TypeOK
<1>10. ASSUME NEW c \in Callers, InitializeSchema(c) PROVE TypeOK'
  <2>1. call' \in [Callers -> Calls] /\ active' \in BOOLEAN
    BY <1>3, <1>10 DEF InitializeSchema, Steps
  <2>2. database \in Databases /\ call[c].key \in Keys
    BY <1>10, <1>d, <1>k DEF InitializeSchema, At, Filled, Steps, NewVault
  <2>3. database' \in Databases
    BY <1>10, <2>2 DEF InitializeSchema, Databases
  <2>. QED BY <1>10, <2>1, <2>3 DEF InitializeSchema, TypeOK
<1>11. ASSUME NEW c \in Callers, EnsureIdentity(c) PROVE TypeOK'
  <2>1. call' \in [Callers -> Calls] /\ active' \in BOOLEAN
    BY <1>3, <1>11 DEF EnsureIdentity, AtRest, Steps
  <2>2. database \in Databases /\ call[c].key \in Keys
    BY <1>11, <1>d, <1>k DEF EnsureIdentity, At, Filled, Steps, NewVault
  <2>3. database.identity \in Identities
    BY <2>2 DEF Databases
  <2>4. IdentityAfter(c) \in Identities
    BY <2>2, <2>3 DEF IdentityAfter, Identities, TypeOK
  <2>5. database' \in Databases
    BY <1>11, <2>2, <2>4 DEF EnsureIdentity, Databases
  <2>. QED BY <1>11, <2>1, <2>5 DEF EnsureIdentity, TypeOK
<1>12. ASSUME NEW c \in Callers, WriteReadyState(c) \/ CloseVault(c) PROVE TypeOK'
  <2>1. call' \in [Callers -> Calls] /\ active' \in BOOLEAN
    BY <1>0, <1>3, <1>12, NoCallType
    DEF WriteReadyState, CloseVault, AtRest, Steps, TypeOK
  <2>. QED BY <1>12, <2>1 DEF WriteReadyState, CloseVault, TypeOK
<1>13. ASSUME NEW c \in Callers, RenameReadyState(c) \/ ReadBackFails(c) PROVE TypeOK'
  <2>1. call' \in [Callers -> Calls] /\ active' \in BOOLEAN
    BY <1>3, <1>13 DEF RenameReadyState, ReadBackFails, AtRest
  <2>2. Ready(root, call[c].key) \in StateFiles
    BY <1>13, <1>k DEF RenameReadyState, ReadBackFails, At, Steps, NewVault, StateFiles, TypeOK
  <2>3. faults' \in 0 .. MaxFaults
    BY <1>13, KeyLifecycleAssumption DEF RenameReadyState, ReadBackFails, Wrong, TypeOK
  <2>4. stray' \subseteq {"state", "envelope"} /\ stateFile' \in StateFiles
    BY <1>13, <2>2 DEF RenameReadyState, ReadBackFails, TypeOK
  <2>. QED
    BY <1>13, <2>1, <2>3, <2>4 DEF RenameReadyState, ReadBackFails, TypeOK
<1>14. ASSUME NEW c \in Callers, StepFails(c) PROVE TypeOK'
  <2>1. call' \in [Callers -> Calls] /\ active' \in BOOLEAN
    BY <1>3, <1>14 DEF StepFails, AtRest
  <2>2. database' \in {Absent, database}
    BY <1>14 DEF StepFails, WithoutOwnFile
  <2>3. faults' \in 0 .. MaxFaults
    BY <1>14, KeyLifecycleAssumption DEF StepFails, Wrong, TypeOK
  <2>. QED BY <1>14, <2>1, <2>2, <2>3 DEF StepFails, TypeOK
<1>15. CASE Crash \/ Relocate
  <2>1. call' \in [Callers -> Calls] /\ active' \in BOOLEAN
    BY <1>0, <1>15, NoCallType DEF Crash, Relocate, TypeOK
  <2>2. faults' \in 0 .. MaxFaults /\ root' \in Roots
    BY <1>15, KeyLifecycleAssumption DEF Crash, Relocate, Wrong, TypeOK, Roots
  <2>. QED BY <1>15, <2>1, <2>2 DEF Crash, Relocate, TypeOK
<1>16. CASE Meddle
  <2>1. faults' \in 0 .. MaxFaults
    BY <1>16, KeyLifecycleAssumption DEF Meddle, Wrong, TypeOK
  <2>2. envelope' \in Envelopes
    <3>1. ASSUME NEW e \in {Absent} \cup {Envelope(r, k) : r \in Roots, k \in 1 .. keys}
          PROVE  e \in Envelopes
      BY KeyLifecycleAssumption DEF Envelopes, TypeOK, Keys
    <3>. QED BY <1>16, <3>1 DEF Meddle, TypeOK
  <2>3. stateFile' \in StateFiles /\ meddled' \subseteq {"state", "envelope", "database"}
    <3>1. stateFile' \in {stateFile, Absent}
      BY <1>16 DEF Meddle
    <3>2. \E file \in {"state", "envelope", "database"} : meddled' = meddled \cup {file}
      BY <1>16 DEF Meddle
    <3>. QED BY <3>1, <3>2 DEF TypeOK, StateFiles
  <2>4. database' \in {Absent} \cup Databases /\ files' \in 0 .. MaxFiles
    <3> DEFINE n == files + 1
    <3>1. files < MaxFiles => n \in 1 .. MaxFiles
      BY KeyLifecycleAssumption DEF TypeOK
    <3>2. \/ UNCHANGED <<database, files>>
          \/ database' = Absent /\ UNCHANGED files
          \/ files < MaxFiles /\ files' = n /\ database' \in {Foreign(n), Database(n)}
      BY <1>16 DEF Meddle
    <3> HIDE DEF n
    <3>3. n \in 1 .. MaxFiles => Database(n) \in Databases /\ Foreign(n) \in Databases
      <4>1. n \in 1 .. MaxFiles => Database(n) \in Databases
        BY DEF Database, Databases, Identities
      <4>2. Database(n) \in Databases => Foreign(n) \in Databases
        BY DEF Foreign, Databases
      <4>. QED BY <4>1, <4>2
    <3>4. n \in 1 .. MaxFiles => n \in 0 .. MaxFiles
      BY KeyLifecycleAssumption
    <3>. QED BY <3>1, <3>2, <3>3, <3>4 DEF TypeOK
  <2>. QED BY <1>16, <2>1, <2>2, <2>3, <2>4 DEF Meddle, TypeOK
<1>. QED
  BY <1>1, <1>2, <1>4, <1>5, <1>6, <1>7, <1>8, <1>9, <1>10, <1>11, <1>12, <1>13, <1>14,
     <1>15, <1>16 DEF Next, CallerStep

-----------------------------------------------------------------------------
(* What a call relies on *)

(* A step of a call moves that call alone, and takes the directory when it starts
   and releases it when it ends. *)
LEMMA CallerMoves ==
  ASSUME TypeOK, NEW c \in Callers, CallerStep(c)
  PROVE  /\ \A d \in Callers \ {c} : call'[d] = call[d]
         /\ \/ call[c].pc \in Steps /\ call'[c].pc \in Steps /\ UNCHANGED active
            \/ call[c].pc \in Steps /\ call'[c].pc \in AtRest /\ ~active'
            \/ call[c].pc \in AtRest /\ call'[c].pc \in AtRest /\ active' = active
            \/ call[c].pc \in AtRest /\ ~active /\ active'
<1>0. call \in [Callers -> Calls] /\ active \in BOOLEAN
  BY DEF TypeOK
<1>1. ASSUME NEW s \in Steps, NEW t \in Steps, At(c, s), Go(c, t)
      PROVE  /\ \A d \in Callers \ {c} : call'[d] = call[d]
             /\ call[c].pc \in Steps /\ call'[c].pc \in Steps /\ UNCHANGED active
  BY <1>0, <1>1 DEF At, Go, Calls
<1>2. ASSUME call[c].pc \in Steps, NEW t \in AtRest, Finish(c, t) \/ (t = "open" /\ HandOver(c))
      PROVE  /\ \A d \in Callers \ {c} : call'[d] = call[d]
             /\ call'[c].pc \in AtRest /\ ~active'
  BY <1>0, <1>2 DEF Finish, HandOver, Calls, NoCall
<1>3. CASE OpenCandidate(c)
  <2>1. call[c].pc \in AtRest
    BY <1>3 DEF OpenCandidate
  <2>2. CASE active /\ call' = [call EXCEPT ![c] = [NoCall EXCEPT !.pc = "failed"]]
             /\ UNCHANGED active
    BY <1>0, <2>1, <2>2 DEF AtRest, NoCall
  <2>3. CASE ~active /\ Finish(c, "refused")
    BY <1>0, <2>1, <2>3 DEF AtRest, NoCall, Finish
  <2>4. CASE ~active /\ active' = TRUE /\ \A d \in Callers \ {c} : call'[d] = call[d]
    BY <2>1, <2>4
  <2>. QED BY <1>0, <1>3, <2>2, <2>3, <2>4 DEF OpenCandidate
<1>4. CASE \/ WriteInitialState(c) \/ LinkInitialState(c) \/ UnlinkInitialState(c)
           \/ WriteEnvelope(c) \/ UnlinkEnvelope(c) \/ UnprotectKey(c)
  BY <1>1, <1>2, <1>4
  DEF WriteInitialState, LinkInitialState, UnlinkInitialState, WriteEnvelope,
      UnlinkEnvelope, UnprotectKey, Steps, AtRest, At
<1>5. CASE \/ OpenNative(c) \/ AttestCipher(c) \/ InitializeSchema(c) \/ WriteReadyState(c)
  BY <1>1, <1>2, <1>5
  DEF OpenNative, AttestCipher, InitializeSchema, WriteReadyState, Steps, AtRest, At
<1>6. CASE EnsureIdentity(c) \/ LinkEnvelope(c)
  BY <1>1, <1>2, <1>6 DEF EnsureIdentity, LinkEnvelope, Steps, AtRest, At
<1>7. CASE RenameReadyState(c) \/ StepFails(c) \/ ReadBackFails(c)
  <2>1. call[c].pc \in Steps
    BY <1>0, <1>7 DEF RenameReadyState, StepFails, ReadBackFails, At, Steps, Calls
  <2>. QED BY <1>2, <1>7, <2>1 DEF RenameReadyState, StepFails, ReadBackFails, AtRest
<1>8. CASE ProtectKey(c) \/ ReserveFile(c)
  <2>1. ASSUME call[c].pc \in {"protect", "reserve"}, UNCHANGED active, NEW k,
               \/ call' = [call EXCEPT ![c].pc = "seal", ![c].key = k]
               \/ call' = [call EXCEPT ![c].pc = "native", ![c].guard = k]
        PROVE  /\ \A d \in Callers \ {c} : call'[d] = call[d]
               /\ call[c].pc \in Steps /\ call'[c].pc \in Steps /\ UNCHANGED active
    BY <1>0, <2>1 DEF Steps, Calls
  <2>2. CASE call[c].pc \in {"protect", "reserve"} /\ Finish(c, "refused")
    BY <1>2, <2>2 DEF Steps, AtRest
  <2>3. CASE ProtectKey(c)
    BY <2>1, <2>3 DEF ProtectKey, At
  <2>4. CASE ReserveFile(c)
    BY <2>1, <2>2, <2>4 DEF ReserveFile, At
  <2>. QED BY <1>8, <2>3, <2>4
<1>9. CASE CloseVault(c)
  BY <1>0, <1>9 DEF CloseVault, At, AtRest, NoCall
<1>. QED BY <1>3, <1>4, <1>5, <1>6, <1>7, <1>8, <1>9 DEF CallerStep

(* At most one call works in the directory. *)
LEMMA ExclusiveStep == TypeOK /\ CallInvariant /\ [Next]_vars => Exclusive'
<1> SUFFICES ASSUME TypeOK, Exclusive, [Next]_vars PROVE Exclusive'
  BY DEF CallInvariant
<1>1. CASE UNCHANGED <<call, active>>
  BY <1>1 DEF Exclusive
<1>2. ASSUME NEW c \in Callers, CallerStep(c) PROVE Exclusive'
  <2>1. AtRest \cap Steps = {}
    BY DEF AtRest, Steps
  <2>. QED BY <1>2, <2>1, CallerMoves DEF Exclusive
<1>3. CASE Crash
  BY <1>3 DEF Crash, Exclusive, NoCall, Steps
<1>. QED BY <1>1, <1>2, <1>3 DEF Next, Meddle, Relocate, vars

(* What a call has read stays with it while it goes on, ... *)
LEMMA Going ==
  ASSUME TypeOK, NEW c \in Callers, NEW s, Go(c, s) \/ (HandOver(c) /\ s = "open")
  PROVE  /\ call'[c].pc = s /\ call'[c].mode = call[c].mode
         /\ call'[c].stated = call[c].stated /\ call'[c].key = call[c].key
         /\ call'[c].guard = call[c].guard
BY DEF TypeOK, Calls, Go, HandOver

(* ... and is forgotten when it ends. *)
LEMMA Ending ==
  ASSUME TypeOK, NEW c \in Callers, NEW s,
         Finish(c, s) \/ call' = [call EXCEPT ![c] = [NoCall EXCEPT !.pc = s]]
  PROVE  call'[c].pc = s /\ call'[c].guard = 0
BY DEF TypeOK, Finish, NoCall

(* What an opening call reads first. *)
LEMMA Opening ==
  ASSUME TypeOK, NEW c \in Callers, OpenCandidate(c), call'[c].pc \in Steps
  PROVE  /\ ~active /\ ~Unfit /\ call[c].pc \in AtRest
         /\ call'[c].pc = CASE ModeOf # "create" -> "unprotect"
                            [] ModeOf = "create" /\ Exists(stateFile) -> "protect"
                            [] ModeOf = "create" /\ ~Exists(stateFile) -> "journal"
         /\ call'[c].mode = ModeOf /\ ModeOf \in Modes /\ call'[c].guard = 0
         /\ call'[c].stated = (IF ModeOf = "ready" THEN stateFile.keyId ELSE NoKey)
         /\ call'[c].key = (IF ModeOf = "create" THEN NoKey ELSE envelope.keyId)
<1>0. call \in [Callers -> Calls]
  BY DEF TypeOK
<1>1. ASSUME NEW s \in AtRest, call' = [call EXCEPT ![c] = [NoCall EXCEPT !.pc = s]]
      PROVE  FALSE
  BY <1>0, <1>1 DEF NoCall, AtRest, Steps
<1>2. /\ ~active /\ ~Unfit /\ call[c].pc \in AtRest
      /\ \E mode \in Modes, step \in {"journal", "protect", "unprotect"} :
             /\ mode = ModeOf
             /\ step = CASE mode # "create" -> "unprotect"
                         [] mode = "create" /\ Exists(stateFile) -> "protect"
                         [] mode = "create" /\ ~Exists(stateFile) -> "journal"
             /\ call' = [call EXCEPT ![c] =
                  [NoCall EXCEPT !.pc = step, !.mode = mode,
                     !.stated = IF mode = "ready" THEN stateFile.keyId ELSE NoKey,
                     !.key = IF mode = "create" THEN NoKey ELSE envelope.keyId]]
  BY <1>1 DEF OpenCandidate, Finish, AtRest
<1> DEFINE st == IF ModeOf = "ready" THEN stateFile.keyId ELSE NoKey
           k == IF ModeOf = "create" THEN NoKey ELSE envelope.keyId
<1>3. PICK step : /\ ModeOf \in Modes
                  /\ step = CASE ModeOf # "create" -> "unprotect"
                         [] ModeOf = "create" /\ Exists(stateFile) -> "protect"
                         [] ModeOf = "create" /\ ~Exists(stateFile) -> "journal"
                  /\ call' = [call EXCEPT ![c] =
                       [NoCall EXCEPT !.pc = step, !.mode = ModeOf, !.stated = st, !.key = k]]
  BY <1>2
<1> HIDE DEF st, k
<1>4. call'[c].pc = step /\ call'[c].mode = ModeOf /\ call'[c].stated = st
      /\ call'[c].key = k /\ call'[c].guard = 0
  BY <1>0, <1>3 DEF NoCall
<1>. QED BY <1>2, <1>3, <1>4 DEF st, k

(* How an opening call goes on. *)
LEMMA Turning ==
  ASSUME TypeOK, NEW c \in Callers, OpenCandidate(c)
  PROVE  /\ call'[c].pc \in {"journal", "protect", "unprotect", "refused", "failed"}
         /\ call'[c].guard = 0
<1>1. CASE \/ call' = [call EXCEPT ![c] = [NoCall EXCEPT !.pc = "failed"]]
           \/ Finish(c, "refused")
  BY <1>1, Ending
<1>2. CASE \E mode \in Modes, step \in {"journal", "protect", "unprotect"} :
             call' = [call EXCEPT ![c] =
               [NoCall EXCEPT !.pc = step, !.mode = mode,
                  !.stated = IF mode = "ready" THEN stateFile.keyId ELSE NoKey,
                  !.key = IF mode = "create" THEN NoKey ELSE envelope.keyId]]
  <2>1. PICK step \in {"journal", "protect", "unprotect"} :
          \E mode, s, k : call' = [call EXCEPT ![c] =
               [NoCall EXCEPT !.pc = step, !.mode = mode, !.stated = s, !.key = k]]
    BY <1>2
  <2>. QED BY <2>1 DEF TypeOK, NoCall
<1>. QED BY <1>1, <1>2 DEF OpenCandidate

(* A database that some call has open is not changed by another call. *)
LEMMA OpenFileStays ==
  ASSUME TypeOK, CallInvariant, NEW c \in Callers, NEW d \in Callers, d # c,
         call[d].pc = "open", CallerStep(c)
  PROVE  database' = database
<1>1. /\ database \in Databases /\ database.key = call[d].key /\ database.key # NoKey
      /\ database.identity = Identity(root, call[d].key) /\ Exists(database)
  BY FieldTypes DEF CallInvariant, ReliesOn, WellFormed, Filled, Keys, NoKey
<1>2. CASE InitializeSchema(c)
  <2>1. database.key = call[c].key
    BY <1>1, <1>2 DEF CallInvariant, ReliesOn, Readable, InitializeSchema, At, Filled
  <2>. QED BY <1>1, <1>2, <2>1 DEF InitializeSchema, Databases
<1>3. CASE EnsureIdentity(c)
  <2>1. IdentityAfter(c) = database.identity
    BY <1>1 DEF IdentityAfter, Exists, Identity
  <2>. QED BY <1>1, <1>3, <2>1 DEF EnsureIdentity, Databases
<1>4. CASE ReserveFile(c)
  BY <1>1, <1>4 DEF ReserveFile
<1>5. CASE OpenNative(c) \/ StepFails(c)
  <2>1. At(c, "native") => WithoutOwnFile(c) = database
    BY <1>1 DEF WithoutOwnFile, CallInvariant, ReliesOn, Database
  <2>. QED BY <1>5, <2>1 DEF OpenNative, StepFails
<1>. QED
  BY <1>2, <1>3, <1>4, <1>5
  DEF CallerStep, OpenCandidate, durable, WriteInitialState, LinkInitialState,
      UnlinkInitialState, ProtectKey, WriteEnvelope, LinkEnvelope, UnlinkEnvelope,
      UnprotectKey, AttestCipher, WriteReadyState, RenameReadyState, CloseVault, ReadBackFails

(* While one call works in the directory, the others change nothing in it. *)
LEMMA OthersWait ==
  ASSUME TypeOK, CallInvariant, NEW c \in Callers, NEW d \in Callers, d # c, CallerStep(c),
         call[d].pc \in Steps
  PROVE  UNCHANGED durable /\ call'[d] = call[d]
<1>1. call[c].pc \in AtRest /\ call'[c].pc \in AtRest
  BY CallerMoves DEF CallInvariant, Exclusive, TypeOK, Calls
<1>2. OpenCandidate(c) \/ CloseVault(c)
  BY <1>1
  DEF CallerStep, At, AtRest, WriteInitialState, LinkInitialState, UnlinkInitialState,
      ProtectKey, WriteEnvelope, LinkEnvelope, UnlinkEnvelope, UnprotectKey, ReserveFile,
      OpenNative, AttestCipher, InitializeSchema, EnsureIdentity, WriteReadyState,
      RenameReadyState, StepFails, ReadBackFails
<1>. QED BY <1>2, CallerMoves DEF OpenCandidate, CloseVault

(* Another call keeps what it relies on: the directory is not its own, or it has the
   file open, which nobody changes. *)
LEMMA OthersRely ==
  ASSUME TypeOK, CallInvariant, NEW c \in Callers, NEW d \in Callers, d # c, CallerStep(c)
  PROVE  (WellFormed(d) /\ ReliesOn(d))'
<1>1. call'[d] = call[d] /\ WellFormed(d) /\ ReliesOn(d)
  BY CallerMoves DEF CallInvariant
<1>2. call[d].pc \in AtRest \cup Steps
  BY DEF TypeOK, Calls
<1>3. WellFormed(d)'
  BY <1>1 DEF WellFormed, FirstTime
<1>4. CASE call[d].pc \in Steps
  <2>1. UNCHANGED durable
    BY <1>4, OthersWait
  <2>. QED
    BY <1>1, <1>3, <2>1
    DEF durable, ReliesOn, FirstTime, At, CreatesFile, GuardStable, Readable
<1>5. CASE call[d].pc = "open"
  <2>1. database' = database
    BY <1>5, OpenFileStays
  <2>2. root' = root
    BY DEF CallerStep, OpenCandidate, durable, WriteInitialState, LinkInitialState,
        UnlinkInitialState, ProtectKey, WriteEnvelope, LinkEnvelope, UnlinkEnvelope,
        UnprotectKey, ReserveFile, OpenNative, AttestCipher, InitializeSchema, EnsureIdentity,
        WriteReadyState, RenameReadyState, CloseVault, StepFails, ReadBackFails
  <2>. QED
    BY <1>1, <1>3, <1>5, <2>1, <2>2
    DEF ReliesOn, FirstTime, At, CreatesFile, GuardStable, Readable, Steps, NewVault
<1>6. CASE call[d].pc \in AtRest \ {"open"}
  BY <1>1, <1>3, <1>6 DEF ReliesOn, At, Steps, NewVault, Filled, AtRest
<1>. QED BY <1>2, <1>4, <1>5, <1>6

(* A call that has ended relies on nothing. *)
LEMMA EndedRelies ==
  ASSUME NEW c \in Callers, call'[c].pc \in {"idle", "refused", "failed"}
  PROVE  (WellFormed(c) /\ ReliesOn(c))'
BY DEF WellFormed, ReliesOn, At, NewVault, Sealing, Steps, Filled

(* The call that takes a step leaves what it relies on next. *)
LEMMA OwnRely ==
  ASSUME TypeOK, CallInvariant, NEW c \in Callers, CallerStep(c)
  PROVE  (WellFormed(c) /\ ReliesOn(c))'
<1>0. WellFormed(c) /\ ReliesOn(c)
  BY DEF CallInvariant
<1> USE DEF At, FirstTime, CreatesFile
<1>1. CASE OpenCandidate(c)
  <2>1. CASE call'[c].pc \in Steps
    <3>1. ReliesOn(c)'
      BY <1>1, <2>1, Opening, ZenonT(40)
      DEF OpenCandidate, durable, ReliesOn, ModeOf, Unfit, NewVault, Filled, Exists
    <3>2. WellFormed(c)'
      <4>1. ModeOf # "create" => Exists(envelope)
        BY <1>1, <2>1, Opening DEF ModeOf, Unfit
      <4>. QED BY <1>1, <2>1, <4>1, Opening, FieldTypes DEF WellFormed, NewVault, Sealing, Steps
    <3>. QED BY <3>1, <3>2
  <2>2. CASE call'[c].pc \notin Steps
    <3>1. call'[c].pc \in {"refused", "failed"}
      BY <1>1, <2>2, Turning DEF Steps
    <3>. QED BY <3>1, EndedRelies
  <2>. QED BY <2>1, <2>2
<1>2. CASE WriteInitialState(c) \/ LinkInitialState(c) \/ UnlinkInitialState(c)
  <2>1. CASE call'[c].pc \in Steps
    <3>1. /\ call[c].pc \in NewVault /\ call'[c].pc \in NewVault
          /\ Go(c, call'[c].pc) /\ UNCHANGED database /\ stateFile'.status # "ready"
      BY <1>0, <1>2, <2>1, Going, Ending
      DEF WriteInitialState, LinkInitialState, UnlinkInitialState, NewVault, ReliesOn, Steps,
          WellFormed, Creating
    <3>. QED
      BY <1>0, <3>1, Going DEF ReliesOn, WellFormed, NewVault, Sealing, Filled, Steps
  <2>2. CASE call'[c].pc \notin Steps
    <3>1. call'[c].pc = "refused"
      BY <1>2, <2>2, Going, Ending
      DEF WriteInitialState, LinkInitialState, UnlinkInitialState, Steps
    <3>. QED BY <3>1, EndedRelies
  <2>. QED BY <2>1, <2>2
<1>3. CASE ProtectKey(c)
  <2> DEFINE k == keys + 1
  <2>1. k \in Keys /\ call' = [call EXCEPT ![c].pc = "seal", ![c].key = k]
    BY <1>3, KeyLifecycleAssumption DEF ProtectKey, TypeOK, Keys
  <2> HIDE DEF k
  <2>2. call'[c].pc = "seal" /\ call'[c].key \in Keys /\ call'[c].mode = call[c].mode
    BY <2>1 DEF TypeOK, Calls
  <2>. QED
    BY <1>0, <1>3, <2>2
    DEF ProtectKey, durable, ReliesOn, WellFormed, NewVault, Sealing, Filled, Steps
<1>4. CASE WriteEnvelope(c) \/ LinkEnvelope(c) \/ UnlinkEnvelope(c) \/ UnprotectKey(c)
  <2>1. CASE call'[c].pc \in Steps
    <3>1. /\ call[c].pc \in Sealing \cup {"unprotect"}
          /\ call'[c].pc \in Sealing \cup {"reserve"}
          /\ call[c].pc = "unprotect" => call'[c].pc = "reserve"
          /\ Go(c, call'[c].pc) /\ UNCHANGED <<database, stateFile>>
      BY <1>4, <2>1, Going, Ending
      DEF WriteEnvelope, LinkEnvelope, UnlinkEnvelope, UnprotectKey, Sealing, Steps, durable
    <3>. QED
      BY <1>0, <3>1, Going DEF ReliesOn, WellFormed, NewVault, Sealing, Filled, Steps
  <2>2. CASE call'[c].pc \notin Steps
    <3>1. call'[c].pc = "refused"
      BY <1>4, <2>2, Going, Ending
      DEF WriteEnvelope, LinkEnvelope, UnlinkEnvelope, UnprotectKey, Steps
    <3>. QED BY <3>1, EndedRelies
  <2>. QED BY <2>1, <2>2
<1>5. CASE ReserveFile(c)
  <2> DEFINE n == files + 1
  <2>1. CASE /\ CreatesFile(c) /\ ~Exists(database) /\ database' = Database(n)
             /\ call' = [call EXCEPT ![c].pc = "native", ![c].guard = n]
    <3> HIDE DEF n
    <3>1. /\ call'[c].pc = "native" /\ call'[c].mode = call[c].mode
          /\ call'[c].key = call[c].key /\ call'[c].guard = n
      BY <2>1 DEF TypeOK, Calls
    <3>. QED
      BY <1>0, <1>5, <2>1, <3>1
      DEF ReserveFile, ReliesOn, WellFormed, NewVault, Sealing, Filled, Steps
  <2>2. CASE /\ ~CreatesFile(c) /\ UNCHANGED database
             /\ call' = [call EXCEPT ![c].pc = "native", ![c].guard = database.id]
    <3>1. /\ call'[c].pc = "native" /\ call'[c].mode = call[c].mode
          /\ call'[c].key = call[c].key
      BY <2>2 DEF TypeOK, Calls
    <3>. QED
      BY <1>0, <1>5, <2>2, <3>1
      DEF ReserveFile, ReliesOn, WellFormed, NewVault, Sealing, Filled, Steps
  <2>3. CASE Finish(c, "refused")
    BY <2>3, Ending, EndedRelies
  <2>. QED BY <1>5, <2>1, <2>2, <2>3 DEF ReserveFile
<1>6. CASE OpenNative(c) \/ AttestCipher(c)
  <2>1. CASE Go(c, "attest") /\ At(c, "native") /\ UNCHANGED <<root, stateFile, database>>
             /\ GuardStable(c)
    BY <1>0, <2>1, Going
    DEF ReliesOn, WellFormed, NewVault, Sealing, Filled, Steps, GuardStable
  <2>2. CASE Go(c, "schema") /\ At(c, "attest") /\ UNCHANGED <<root, stateFile, database>>
             /\ Readable(c)
    BY <1>0, <2>2, Going
    DEF ReliesOn, WellFormed, NewVault, Sealing, Filled, Steps, Readable
  <2>3. CASE Finish(c, "refused")
    BY <2>3, Ending, EndedRelies
  <2>. QED BY <1>6, <2>1, <2>2, <2>3 DEF OpenNative, AttestCipher, durable
<1>7. CASE InitializeSchema(c)
  <2>1. /\ call'[c].pc = "identity" /\ call'[c].mode = call[c].mode
        /\ call'[c].key = call[c].key
    BY <1>7, Going DEF InitializeSchema
  <2>2. database \in Databases /\ ~database.foreign
    BY <1>0, <1>7, FieldTypes DEF InitializeSchema, ReliesOn, Filled, Readable
  <2>3. Exists(database') /\ ~database'.foreign /\ database'.key = call[c].key
    BY <1>7, <2>2 DEF InitializeSchema, Databases, Exists
  <2>. QED
    BY <1>0, <1>7, <2>1, <2>3
    DEF InitializeSchema, ReliesOn, WellFormed, NewVault, Sealing, Filled, Steps, Readable,
        Exists
<1>8. CASE EnsureIdentity(c)
  <2>1. database \in Databases /\ ~database.foreign /\ database.key = call[c].key
    BY <1>0, <1>8, FieldTypes DEF EnsureIdentity, ReliesOn, Filled, Readable
  <2>2. /\ Exists(database') /\ ~database'.foreign /\ database'.key = call[c].key
        /\ database'.identity = IdentityAfter(c)
    BY <1>8, <2>1 DEF EnsureIdentity, Databases, Exists
  <2>3. CASE Finish(c, "refused")
    BY <2>3, Ending, EndedRelies
  <2>4. CASE /\ IdentityAfter(c) = Identity(root, call[c].key)
             /\ (Go(c, "final") /\ FirstTime(c)) \/ (HandOver(c) /\ ~FirstTime(c))
    <3>1. /\ call'[c].pc \in {"final", "open"} /\ call'[c].mode = call[c].mode
          /\ call'[c].key = call[c].key /\ (call'[c].pc = "final" => FirstTime(c))
      BY <2>4, Going
    <3>2. Readable(c)'
      BY <2>2, <3>1 DEF Readable
    <3>. QED
      BY <1>0, <1>8, <2>2, <2>4, <3>1, <3>2
      DEF EnsureIdentity, ReliesOn, WellFormed, NewVault, Sealing, Filled, Steps, Exists
  <2>. QED BY <1>8, <2>3, <2>4 DEF EnsureIdentity
<1>9. CASE WriteReadyState(c) \/ RenameReadyState(c)
  <2>1. CASE Finish(c, "refused")
    BY <2>1, Ending, EndedRelies
  <2>2. CASE /\ Go(c, "rename") /\ At(c, "final") /\ UNCHANGED <<root, stateFile, database>>
    BY <1>0, <2>2, Going
    DEF ReliesOn, WellFormed, NewVault, Sealing, Filled, Steps, Readable
  <2>3. CASE /\ HandOver(c) /\ At(c, "rename") /\ UNCHANGED <<root, database>>
    BY <1>0, <2>3, Going
    DEF ReliesOn, WellFormed, NewVault, Sealing, Filled, Steps, Readable
  <2>. QED BY <1>9, <2>1, <2>2, <2>3 DEF WriteReadyState, RenameReadyState
<1>10. CASE CloseVault(c) \/ StepFails(c) \/ ReadBackFails(c)
  <2>1. call'[c].pc \in {"idle", "failed"}
    BY <1>10, Ending DEF CloseVault, StepFails, ReadBackFails, NoCall, TypeOK
  <2>. QED BY <2>1, EndedRelies
<1>. QED
  BY <1>1, <1>2, <1>3, <1>4, <1>5, <1>6, <1>7, <1>8, <1>9, <1>10 DEF CallerStep

(* Neither a crash nor another program takes from a call what it relies on: a file in
   use is denied them, and one that replaces another is empty or cannot be read. *)
LEMMA MeddlingRely ==
  ASSUME TypeOK, CallInvariant, Meddle, NEW c \in Callers
  PROVE  (WellFormed(c) /\ ReliesOn(c))'
<1>0. WellFormed(c) /\ ReliesOn(c) /\ UNCHANGED <<root, call>>
  BY DEF Meddle, CallInvariant
<1>1. stateFile' \in {stateFile, Absent}
  BY DEF Meddle
<1>2. WellFormed(c)'
  BY <1>0 DEF WellFormed, FirstTime
<1>3. stateFile'.status = "ready" => stateFile.status = "ready"
  BY <1>1 DEF Absent
<1>4. CASE UNCHANGED database
  BY <1>0, <1>2, <1>3, <1>4
  DEF ReliesOn, At, FirstTime, CreatesFile, GuardStable, Readable, Exists
<1>5. CASE database' # database
  <2>1. call[c].pc \notin Filled
    BY <1>5 DEF Meddle, Holding, Filled
  <2> DEFINE n == files + 1
  <2>2. database' \in {Absent, Foreign(n), Database(n)}
    BY <1>5 DEF Meddle
  <2>3. call[c].guard # n
    BY DEF CallInvariant, FileIds, TypeOK
  <2> HIDE DEF n
  <2>4. Exists(database') => database'.key = NoKey /\ database'.id = n
    BY <2>2 DEF Exists, Absent, Foreign, Database
  <2>. QED
    BY <1>0, <1>2, <1>3, <2>1, <2>3, <2>4
    DEF ReliesOn, At, FirstTime, CreatesFile, GuardStable, Exists, Filled
<1>. QED BY <1>4, <1>5

(* No file is given a name that has been used. *)
LEMMA FileIdsStep == TypeOK /\ CallInvariant /\ [Next]_vars => FileIds'
<1> SUFFICES ASSUME TypeOK, CallInvariant, [Next]_vars PROVE FileIds'
  OBVIOUS
<1>0. FileIds /\ files \in Nat
  BY KeyLifecycleAssumption DEF CallInvariant, TypeOK
<1>1. CASE UNCHANGED <<database, call, files>>
  BY <1>0, <1>1 DEF FileIds
<1>2. ASSUME NEW c \in Callers, CallerStep(c) PROVE FileIds'
  <2>1. \A d \in Callers \ {c} : call'[d] = call[d]
    BY <1>2, CallerMoves
  <2>2. /\ files' \in Nat /\ files' >= files
        /\ call'[c].guard \in 0 .. files'
        /\ Exists(database') => database'.id \in 1 .. files'
    <3>1. call[c].guard \in 0 .. files
      BY <1>0 DEF FileIds
    <3>2. CASE UNCHANGED <<database, files>> /\ call'[c].guard \in {0, call[c].guard}
      BY <1>0, <3>1, <3>2 DEF FileIds
    <3>3. CASE OpenCandidate(c)
      <4>1. call'[c].guard = 0
        BY <3>3, Turning
      <4>. QED BY <3>2, <3>3, <4>1 DEF OpenCandidate, durable
    <3>4. CASE ReserveFile(c)
      <4> DEFINE n == files + 1
      <4>0. n \in Nat /\ n >= files /\ n \in 1 .. n /\ n \in 0 .. n
        BY <1>0
      <4>1. CASE /\ database' = Database(n) /\ files' = n
                 /\ call' = [call EXCEPT ![c].pc = "native", ![c].guard = n]
        <5> HIDE DEF n
        <5>1. call'[c].guard = n /\ database'.id = n
          BY <4>1 DEF TypeOK, Calls, Database
        <5>. QED BY <4>0, <4>1, <5>1
      <4>2. CASE /\ Exists(database) /\ UNCHANGED <<database, files>>
                 /\ call' = [call EXCEPT ![c].pc = "native", ![c].guard = database.id]
        <5>1. call'[c].guard = database.id
          BY <4>2 DEF TypeOK, Calls
        <5>2. database.id \in 1 .. files
          BY <1>0, <4>2 DEF FileIds
        <5>. QED BY <1>0, <4>2, <5>1, <5>2
      <4>3. CASE Finish(c, "refused") /\ UNCHANGED <<database, files>>
        BY <3>2, <4>3, Ending
      <4>. QED BY <3>4, <4>1, <4>2, <4>3 DEF ReserveFile
    <3>5. CASE /\ UNCHANGED files /\ call'[c].guard \in {0, call[c].guard}
               /\ Exists(database') => Exists(database) /\ database'.id = database.id
      BY <1>0, <3>1, <3>5 DEF FileIds
    <3>6. CASE OpenNative(c) \/ StepFails(c)
      <4>1. call'[c].guard \in {0, call[c].guard}
        BY <3>6, Going, Ending DEF OpenNative, StepFails
      <4>. QED BY <3>5, <3>6, <4>1 DEF OpenNative, StepFails, WithoutOwnFile, Exists, Absent
    <3>7. CASE InitializeSchema(c) \/ EnsureIdentity(c)
      <4>1. database \in Databases
        BY <3>7, FieldTypes
        DEF InitializeSchema, EnsureIdentity, At, CallInvariant, ReliesOn, Filled
      <4>2. call'[c].guard \in {0, call[c].guard}
        BY <3>7, Going, Ending DEF InitializeSchema, EnsureIdentity
      <4>3. UNCHANGED files /\ database'.id = database.id /\ Exists(database)
        BY <3>7, <4>1 DEF InitializeSchema, EnsureIdentity, Databases, Exists
      <4>. QED BY <3>5, <4>2, <4>3
    <3>8. CASE ProtectKey(c)
      <4>1. call'[c].guard = call[c].guard
        BY <3>8 DEF ProtectKey, TypeOK, Calls
      <4>. QED BY <3>2, <3>8, <4>1 DEF ProtectKey, durable
    <3>9. CASE CloseVault(c)
      <4>1. call'[c].guard = 0
        BY <3>9 DEF CloseVault, TypeOK, NoCall
      <4>. QED BY <3>2, <3>9, <4>1 DEF CloseVault, durable
    <3>10. CASE \/ WriteInitialState(c) \/ LinkInitialState(c) \/ UnlinkInitialState(c)
                \/ WriteEnvelope(c) \/ LinkEnvelope(c) \/ UnlinkEnvelope(c)
                \/ UnprotectKey(c) \/ AttestCipher(c) \/ WriteReadyState(c)
                \/ RenameReadyState(c) \/ ReadBackFails(c)
      <4>1. call'[c].guard \in {0, call[c].guard}
        BY <3>10, Going, Ending
        DEF WriteInitialState, LinkInitialState, UnlinkInitialState, WriteEnvelope,
            LinkEnvelope, UnlinkEnvelope, UnprotectKey, AttestCipher, WriteReadyState,
            RenameReadyState, ReadBackFails
      <4>2. UNCHANGED <<database, files>>
        BY <3>10
        DEF WriteInitialState, LinkInitialState, UnlinkInitialState, WriteEnvelope,
            LinkEnvelope, UnlinkEnvelope, UnprotectKey, AttestCipher, WriteReadyState,
            RenameReadyState, ReadBackFails, durable
      <4>. QED BY <3>2, <4>1, <4>2
    <3>. QED
      BY <1>2, <3>3, <3>4, <3>6, <3>7, <3>8, <3>9, <3>10 DEF CallerStep
  <2>. QED BY <1>0, <2>1, <2>2 DEF FileIds
<1>3. CASE Crash
  BY <1>0, <1>3 DEF Crash, durable, FileIds, NoCall
<1>4. CASE Meddle
  <2> DEFINE n == files + 1
  <2>0. n \in Nat /\ n >= files /\ n \in 1 .. n
    BY <1>0
  <2>1. \/ UNCHANGED <<database, files>>
        \/ database' = Absent /\ UNCHANGED files
        \/ files' = n /\ database' \in {Foreign(n), Database(n)}
    BY <1>4 DEF Meddle
  <2> HIDE DEF n
  <2>2. UNCHANGED call /\ Foreign(n).id = n /\ Database(n).id = n
    BY <1>4 DEF Meddle, Foreign, Database
  <2>. QED BY <1>0, <2>0, <2>1, <2>2 DEF FileIds, Exists, Absent
<1>. QED BY <1>1, <1>2, <1>3, <1>4 DEF Next, Relocate, vars

(* What calls rely on is kept by every step. *)
LEMMA CallStep == TypeOK /\ CallInvariant /\ [Next]_vars => CallInvariant'
<1> SUFFICES ASSUME TypeOK, CallInvariant, [Next]_vars PROVE CallInvariant'
  OBVIOUS
<1>1. Exclusive' /\ FileIds'
  BY ExclusiveStep, FileIdsStep
<1>2. ASSUME NEW d \in Callers PROVE (WellFormed(d) /\ ReliesOn(d))'
  <2>0. WellFormed(d) /\ ReliesOn(d)
    BY DEF CallInvariant
  <2>1. CASE UNCHANGED vars
    BY <2>0, <2>1
    DEF vars, WellFormed, ReliesOn, At, FirstTime, CreatesFile, GuardStable, Readable
  <2>2. ASSUME NEW c \in Callers, CallerStep(c) PROVE (WellFormed(d) /\ ReliesOn(d))'
    BY <2>2, OwnRely, OthersRely
  <2>3. CASE Crash
    BY <2>3, EndedRelies DEF Crash, NoCall
  <2>4. CASE Meddle
    BY <2>4, MeddlingRely
  <2>5. CASE Relocate
    BY <2>5, EndedRelies DEF Relocate, AtRest
  <2>. QED BY <2>1, <2>2, <2>3, <2>4, <2>5 DEF Next
<1>. QED BY <1>1, <1>2 DEF CallInvariant

(* Types and what calls rely on, in every reachable state: each is needed for the
   other, since what is written on disk carries the key a call holds. *)
THEOREM CallInvariantHolds == Spec => [](TypeOK /\ CallInvariant)
<1>1. Init => TypeOK /\ CallInvariant
  <2> SUFFICES ASSUME Init PROVE TypeOK /\ CallInvariant
    OBVIOUS
  <2>1. TypeOK
    <3>1. call \in [Callers -> Calls]
      BY NoCallType DEF Init
    <3>2. 0 \in 0 .. MaxKeys /\ 0 \in 0 .. MaxFiles /\ 0 \in 0 .. MaxFaults
      BY KeyLifecycleAssumption
    <3>3. 1 \in Roots /\ Absent \in StateFiles /\ Absent \in Envelopes
      BY DEF Roots, StateFiles, Envelopes
    <3>4. /\ legacy \in BOOLEAN /\ active \in BOOLEAN
          /\ stray \subseteq {"state", "envelope"}
          /\ meddled \subseteq {"state", "envelope", "database"}
      BY DEF Init
    <3>. QED BY <3>1, <3>2, <3>3, <3>4 DEF Init, TypeOK
  <2>2. CallInvariant
    BY DEF Init, CallInvariant, Exclusive, WellFormed, ReliesOn, FileIds, NoCall, At, Steps,
      NewVault, Sealing, Filled, Exists, Absent
  <2>. QED BY <2>1, <2>2
<1>2. (TypeOK /\ CallInvariant) /\ [Next]_vars => (TypeOK /\ CallInvariant)'
  BY TypeStep, CallStep
<1>. QED BY <1>1, <1>2, PTL DEF Spec
-----------------------------------------------------------------------------
(* The files *)

(* Nothing that the code does counts as meddling. *)
LEMMA OnlyMeddleMeddles ==
  ASSUME [Next]_vars, meddled' = {}
  PROVE  meddled = {} /\ ~Meddle
<1>1. ~Meddle
  BY DEF Meddle
<1>2. ASSUME NEW c \in Callers, CallerStep(c) PROVE UNCHANGED meddled
  BY <1>2
  DEF CallerStep, OpenCandidate, WriteInitialState, LinkInitialState, UnlinkInitialState,
      ProtectKey, WriteEnvelope, LinkEnvelope, UnlinkEnvelope, UnprotectKey, ReserveFile,
      OpenNative, AttestCipher, InitializeSchema, EnsureIdentity, WriteReadyState,
      RenameReadyState, CloseVault, StepFails, ReadBackFails
<1>. QED BY <1>1, <1>2 DEF Next, Crash, Relocate, vars

(* A step of a call that only moves the call, or drops a temporary file, leaves the
   other files as they were. *)
LEMMA SameFiles ==
  ASSUME OwnFiles, UNCHANGED <<stateFile, envelope, database>>
  PROVE  OwnFiles'
BY DEF OwnFiles, Exists

(* A call that has ended expects nothing of the files. *)
LEMMA EndedCall ==
  ASSUME TypeOK, NEW c \in Callers, NEW s \in AtRest, Finish(c, s)
  PROVE  call'[c].pc \notin Steps
BY Ending DEF AtRest, Steps

(* The steps of a call leave files that fit one another and the call. *)
LEMMA OwnStep ==
  ASSUME TypeOK, CallInvariant, NEW c \in Callers, CallerStep(c), OwnFiles,
         call[c].pc \in Steps => OwnCall(c)
  PROVE  OwnFiles' /\ (call'[c].pc \in Steps => OwnCall(c)')
<1>0. WellFormed(c) /\ ReliesOn(c)
  BY DEF CallInvariant
<1> USE DEF At, FirstTime, CreatesFile
<1>1. CASE OpenCandidate(c)
  <2>1. OwnFiles'
    BY <1>1, SameFiles DEF OpenCandidate, durable
  <2>2. CASE call'[c].pc \in Steps
    <3>1. stateFile.status = "creating" => stateFile = Creating(stateFile.vaultId)
      BY DEF TypeOK, StateFiles, Creating, Ready, Absent
    <3>2. /\ ModeOf \in Modes \ {"conflict"} /\ ~Moved(stateFile) /\ UNCHANGED durable
          /\ call'[c].mode = ModeOf
          /\ call'[c].stated = (IF ModeOf = "ready" THEN stateFile.keyId ELSE NoKey)
          /\ call'[c].key = (IF ModeOf = "create" THEN NoKey ELSE envelope.keyId)
      BY <1>1, <2>2, Opening DEF OpenCandidate, Unfit
    <3>3. CASE ModeOf = "create"
      <4>1. ~Exists(envelope) /\ ~Exists(database)
            /\ (Exists(stateFile) => stateFile = Creating(root))
        BY <3>1, <3>2, <3>3 DEF ModeOf, Moved, Exists
      <4>2. call'[c].pc = (IF Exists(stateFile) THEN "protect" ELSE "journal")
        BY <1>1, <2>2, <3>3, Opening
      <4>. QED BY <2>1, <3>2, <4>1, <4>2 DEF durable, OwnCall, Steps, NewVault
    <3>4. CASE ModeOf # "create"
      <4>1. /\ Exists(envelope) /\ Exists(stateFile) /\ stateFile.vaultId = root
            /\ IF ModeOf = "ready" THEN stateFile.status = "ready" ELSE stateFile = Creating(root)
            /\ ModeOf = "resume-new" <=> ~Exists(database)
        BY <3>1, <3>2, <3>4 DEF ModeOf, Modes, Moved, Exists
      <4>2. call'[c].pc = "unprotect"
        BY <1>1, <2>2, <3>4, Opening
      <4>. QED BY <2>1, <3>2, <3>4, <4>1, <4>2 DEF durable, OwnCall, Steps, NewVault
    <3>. QED BY <3>3, <3>4
  <2>. QED BY <2>1, <2>2
<1>2. CASE WriteInitialState(c) \/ UnlinkInitialState(c)
  <2>1. OwnFiles'
    BY <1>2, SameFiles DEF WriteInitialState, UnlinkInitialState
  <2>2. CASE Finish(c, "refused")
    BY <2>1, <2>2, EndedCall DEF AtRest
  <2>3. CASE /\ call[c].pc = "journal" /\ Go(c, "link-state")
             /\ UNCHANGED <<root, stateFile, envelope, database>>
    BY <2>1, <2>3, Going DEF OwnCall, NewVault, Steps, Exists
  <2>4. CASE /\ call[c].pc = "unlink-state" /\ Go(c, "protect")
             /\ UNCHANGED <<root, stateFile, envelope, database>>
    BY <2>1, <2>4, Going DEF OwnCall, NewVault, Steps, Exists
  <2>. QED BY <1>2, <2>2, <2>3, <2>4 DEF WriteInitialState, UnlinkInitialState
<1>3. CASE LinkInitialState(c)
  <2>1. OwnFiles'
    BY <1>3 DEF LinkInitialState, OwnFiles, Exists, Creating
  <2>2. OwnCall(c)'
    BY <1>3, Going DEF LinkInitialState, OwnFiles, OwnCall, NewVault, Steps, Exists, Creating
  <2>. QED BY <2>1, <2>2
<1>4. CASE ProtectKey(c)
  <2>1. OwnFiles'
    BY <1>4, SameFiles DEF ProtectKey, durable
  <2>2. call'[c].pc = "seal"
    BY <1>4 DEF ProtectKey, TypeOK, Calls
  <2>3. stateFile = Creating(root) /\ ~Exists(envelope)
    BY <1>4 DEF ProtectKey, OwnCall, Steps
  <2>. QED BY <1>4, <2>1, <2>2, <2>3 DEF ProtectKey, durable, OwnCall, NewVault, Steps
<1>5. CASE WriteEnvelope(c)
  <2>1. OwnFiles'
    BY <1>5, SameFiles DEF WriteEnvelope
  <2>. QED BY <1>5, <2>1, Going DEF WriteEnvelope, OwnCall, NewVault, Steps, Exists
<1>6. CASE LinkEnvelope(c)
  <2>1. ~Exists(envelope) /\ stateFile = Creating(root) /\ call[c].mode = "create"
    BY <1>0, <1>6 DEF LinkEnvelope, OwnCall, WellFormed, Sealing, Steps
  <2>2. OwnFiles'
    BY <1>6, <2>1 DEF LinkEnvelope, OwnFiles, Exists, Creating, Envelope
  <2>3. OwnCall(c)'
    BY <1>6, <2>1, Going
    DEF LinkEnvelope, OwnFiles, OwnCall, NewVault, Steps, Exists, Creating, Envelope
  <2>. QED BY <2>2, <2>3
<1>7. CASE UnlinkEnvelope(c) \/ UnprotectKey(c)
  <2>1. OwnFiles'
    BY <1>7, SameFiles DEF UnlinkEnvelope, UnprotectKey, durable
  <2>2. CASE Finish(c, "refused")
    BY <2>1, <2>2, EndedCall DEF AtRest
  <2>3. CASE /\ call[c].pc \in {"unlink-envelope", "unprotect"} /\ Go(c, "reserve")
             /\ UNCHANGED <<root, stateFile, envelope, database>>
    BY <2>1, <2>3, Going DEF OwnCall, NewVault, Steps, Exists
  <2>. QED BY <1>7, <2>2, <2>3 DEF UnlinkEnvelope, UnprotectKey, durable
<1>8. ASSUME NEW s \in {"attest", "schema", "identity", "final", "rename"}, Go(c, s),
             call[c].pc \in {"native", "attest", "schema", "identity", "final"},
             UNCHANGED <<root, stateFile, envelope>>
      PROVE  OwnCall(c)'
  BY <1>8, Going DEF OwnCall, NewVault, Steps, Exists
<1>9. CASE ReserveFile(c)
  <2>1. /\ Exists(envelope) /\ envelope.keyId = call[c].key /\ stateFile.vaultId = root
        /\ IF FirstTime(c) THEN stateFile = Creating(root)
           ELSE stateFile.status = "ready" /\ call[c].stated = stateFile.keyId
        /\ CreatesFile(c) <=> ~Exists(database)
    BY <1>9 DEF ReserveFile, OwnCall, Steps, NewVault
  <2> DEFINE n == files + 1
  <2>2. CASE /\ CreatesFile(c) /\ ~Exists(database) /\ database' = Database(n)
             /\ call' = [call EXCEPT ![c].pc = "native", ![c].guard = n]
    <3> HIDE DEF n
    <3>1. /\ call'[c].pc = "native" /\ call'[c].mode = call[c].mode
          /\ call'[c].key = call[c].key /\ call'[c].guard = n
      BY <2>2 DEF TypeOK, Calls
    <3>2. /\ Exists(database') /\ ~database'.foreign /\ database'.key = NoKey
          /\ ~Exists(database'.identity) /\ database'.id = n
      BY <2>2 DEF Database, Exists, Absent
    <3>3. stateFile.status # "ready"
      BY <2>1, <2>2 DEF Creating
    <3>4. UNCHANGED <<root, stateFile, envelope>>
      BY <1>9 DEF ReserveFile
    <3>5. OwnFiles'
      BY <2>1, <3>2, <3>3, <3>4 DEF OwnFiles, Exists
    <3>6. OwnCall(c)'
      BY <2>1, <2>2, <3>1, <3>2, <3>4 DEF OwnCall, NewVault, Steps, GuardStable, Exists
    <3>. QED BY <3>5, <3>6
  <2>3. CASE /\ ~CreatesFile(c) /\ Exists(database) /\ UNCHANGED database
             /\ call' = [call EXCEPT ![c].pc = "native", ![c].guard = database.id]
    <3>1. /\ call'[c].pc = "native" /\ call'[c].mode = call[c].mode
          /\ call'[c].key = call[c].key /\ call'[c].guard = database.id
          /\ call'[c].stated = call[c].stated
      BY <2>3 DEF TypeOK, Calls
    <3>2. OwnFiles'
      BY <1>9, <2>3, SameFiles DEF ReserveFile
    <3>3. OwnCall(c)'
      BY <1>9, <2>1, <2>3, <3>1
      DEF ReserveFile, OwnCall, NewVault, Steps, GuardStable, Exists
    <3>. QED BY <3>2, <3>3
  <2>. QED BY <1>9, <2>1, <2>2, <2>3 DEF ReserveFile
<1>10. CASE OpenNative(c) \/ AttestCipher(c)
  <2>1. CASE /\ Go(c, "attest") \/ Go(c, "schema")
             /\ call[c].pc \in {"native", "attest"}
             /\ UNCHANGED <<root, stateFile, envelope, database>>
    BY <1>8, <2>1, SameFiles
  <2>2. CASE AttestCipher(c) /\ Finish(c, "refused")
    BY <2>2, EndedCall, SameFiles DEF AttestCipher, durable, AtRest
  <2>3. OpenNative(c) => GuardStable(c)
    BY DEF OpenNative, OwnCall, Steps
  <2>. QED BY <1>10, <2>1, <2>2, <2>3 DEF OpenNative, AttestCipher, durable
<1>11. CASE InitializeSchema(c)
  <2>1. /\ Exists(envelope) /\ envelope.keyId = call[c].key
        /\ FirstTime(c) => stateFile.status # "ready"
    BY <1>11 DEF InitializeSchema, OwnCall, Steps, NewVault, Creating
  <2>2. database \in Databases
    BY <1>0, <1>11, FieldTypes DEF InitializeSchema, ReliesOn, Filled
  <2>3. /\ Exists(database') /\ database'.foreign = database.foreign
        /\ database'.key = call[c].key /\ database'.identity = database.identity
    BY <1>11, <2>2 DEF InitializeSchema, Databases, Exists
  <2>4. OwnFiles'
    BY <1>11, <2>1, <2>2, <2>3 DEF InitializeSchema, OwnFiles, Exists, Databases
  <2>. QED BY <1>8, <1>11, <2>4 DEF InitializeSchema
<1>12. CASE EnsureIdentity(c)
  <2>1. /\ Exists(envelope) /\ envelope.keyId = call[c].key /\ stateFile.vaultId = root
        /\ FirstTime(c) => stateFile.status # "ready"
    BY <1>12 DEF EnsureIdentity, OwnCall, Steps, NewVault, Creating
  <2>2. database \in Databases
    BY <1>0, <1>12, FieldTypes DEF EnsureIdentity, ReliesOn, Filled
  <2>3. /\ Exists(database') /\ database'.foreign = database.foreign
        /\ database'.key = database.key /\ database'.identity = IdentityAfter(c)
    BY <1>12, <2>2 DEF EnsureIdentity, Databases, Exists
  <2>4. Exists(database)
    BY <2>2 DEF Databases, Exists
  <2>5. OwnFiles'
    BY <1>12, <2>1, <2>3, <2>4 DEF EnsureIdentity, OwnFiles, Exists, IdentityAfter, Identity
  <2>6. CASE Finish(c, "refused")
    BY <2>5, <2>6, EndedCall DEF AtRest
  <2>7. CASE Go(c, "final")
    BY <1>8, <1>12, <2>5, <2>7 DEF EnsureIdentity
  <2>8. CASE HandOver(c)
    BY <2>5, <2>8, Going DEF Steps
  <2>. QED BY <1>12, <2>6, <2>7, <2>8 DEF EnsureIdentity
<1>13. CASE WriteReadyState(c)
  <2>1. OwnFiles'
    BY <1>13, SameFiles DEF WriteReadyState
  <2>2. CASE Finish(c, "refused")
    BY <2>1, <2>2, EndedCall DEF AtRest
  <2>3. CASE Go(c, "rename")
    BY <1>8, <1>13, <2>1, <2>3 DEF WriteReadyState
  <2>. QED BY <1>13, <2>2, <2>3 DEF WriteReadyState
<1>14. CASE RenameReadyState(c) \/ ReadBackFails(c)
  <2>1. /\ call[c].pc = "rename" /\ stateFile' = Ready(root, call[c].key)
        /\ UNCHANGED <<envelope, database>>
    BY <1>14 DEF RenameReadyState, ReadBackFails
  <2>2. /\ Exists(envelope) /\ envelope.keyId = call[c].key /\ envelope.vaultId = root
    BY <2>1 DEF OwnCall, OwnFiles, Steps, NewVault
  <2>3. /\ Exists(database) /\ ~database.foreign /\ database.key = call[c].key
        /\ database.identity = Identity(root, call[c].key)
    BY <1>0, <2>1 DEF ReliesOn, Filled, Readable
  <2>4. OwnFiles'
    BY <2>1, <2>2, <2>3 DEF OwnFiles, Exists, Ready
  <2>5. call'[c].pc \notin Steps
    BY <1>14, Going, Ending DEF RenameReadyState, ReadBackFails, Steps
  <2>. QED BY <2>4, <2>5
<1>15. CASE CloseVault(c)
  <2>1. call'[c].pc \notin Steps
    BY <1>15 DEF CloseVault, TypeOK, NoCall, Steps
  <2>. QED BY <1>15, <2>1, SameFiles DEF CloseVault, durable
<1>16. CASE StepFails(c)
  <2>1. call'[c].pc \notin Steps
    BY <1>16, EndedCall DEF StepFails, AtRest
  <2>2. CASE UNCHANGED database
    BY <1>16, <2>1, <2>2, SameFiles DEF StepFails
  <2>3. CASE database' # database
    <3>1. CreatesFile(c) /\ call[c].pc = "native" /\ database' = Absent
      BY <1>16, <2>3 DEF StepFails, WithoutOwnFile
    <3>2. stateFile.status # "ready"
      BY <3>1 DEF OwnCall, Steps, NewVault, Creating
    <3>3. OwnFiles'
      BY <1>16, <3>1, <3>2 DEF StepFails, OwnFiles, Exists, Absent
    <3>. QED BY <2>1, <3>3
  <2>. QED BY <2>2, <2>3
<1>. QED
  BY <1>1, <1>2, <1>3, <1>4, <1>5, <1>6, <1>7, <1>9, <1>10, <1>11, <1>12, <1>13, <1>14,
     <1>15, <1>16 DEF CallerStep

(* Files that no other program touched fit one another and the call under way. *)
LEMMA FilesStep ==
  TypeOK /\ CallInvariant /\ FilesInvariant /\ [Next]_vars => FilesInvariant'
<1> SUFFICES ASSUME TypeOK, CallInvariant, FilesInvariant, [Next]_vars, meddled' = {}
             PROVE  (OwnFiles /\ \A c \in Callers : call[c].pc \in Steps => OwnCall(c))'
  BY DEF FilesInvariant
<1>1. OwnFiles /\ (\A c \in Callers : call[c].pc \in Steps => OwnCall(c)) /\ ~Meddle
  BY OnlyMeddleMeddles DEF FilesInvariant
<1>2. CASE UNCHANGED vars
  BY <1>1, <1>2
  DEF vars, OwnFiles, OwnCall, Exists, FirstTime, CreatesFile, At, GuardStable
<1>3. ASSUME NEW c \in Callers, CallerStep(c)
      PROVE  (OwnFiles /\ \A d \in Callers : call[d].pc \in Steps => OwnCall(d))'
  <2>1. OwnFiles' /\ (call'[c].pc \in Steps => OwnCall(c)')
    BY <1>1, <1>3, OwnStep
  <2>2. ASSUME NEW d \in Callers \ {c}, call'[d].pc \in Steps PROVE OwnCall(d)'
    <3>1. call[d].pc \in Steps
      BY <1>3, <2>2, CallerMoves
    <3>2. UNCHANGED durable /\ call'[d] = call[d]
      BY <1>3, <3>1, OthersWait
    <3>. QED
      BY <1>1, <3>1, <3>2
      DEF durable, OwnCall, Exists, FirstTime, CreatesFile, At, GuardStable
  <2>. QED BY <2>1, <2>2
<1>4. CASE Crash
  BY <1>1, <1>4, SameFiles DEF Crash, durable, NoCall, Steps
<1>5. CASE Relocate
  BY <1>1, <1>5, SameFiles DEF Relocate, AtRest, Steps
<1>. QED BY <1>1, <1>2, <1>3, <1>4, <1>5 DEF Next

(* All three hold in every reachable state. *)
THEOREM FilesInvariantHolds == Spec => [](TypeOK /\ CallInvariant /\ FilesInvariant)
<1>1. Init => FilesInvariant
  BY DEF Init, FilesInvariant, OwnFiles, Exists, Absent, NoCall, Steps
<1>2. (TypeOK /\ CallInvariant) /\ FilesInvariant /\ [Next]_vars => FilesInvariant'
  BY FilesStep
<1>. QED BY <1>1, <1>2, CallInvariantHolds, PTL DEF Spec

(* Key custody on disk, of which every crash and every failed step is part. *)
THEOREM KeyCustodyHolds == Spec => []KeyCustody
<1>1. TypeOK /\ CallInvariant /\ FilesInvariant => KeyCustody
  <2> SUFFICES ASSUME CallInvariant, FilesInvariant PROVE KeyCustody
    OBVIOUS
  <2>1. DataHasItsKey /\ ReadyIsWhole
    BY DEF FilesInvariant, OwnFiles, DataHasItsKey, ReadyIsWhole
  <2>2. OpenedIsIdentified
    BY DEF CallInvariant, ReliesOn, OpenedIsIdentified, At, Filled, Readable
  <2>. QED BY <2>1, <2>2 DEF KeyCustody
<1>. QED BY <1>1, FilesInvariantHolds, PTL
-----------------------------------------------------------------------------
(* What no step does *)

(* A call among files that nobody touched, with no temporary file left and no legacy
   vault, is not refused. *)
LEMMA RefusalStep ==
  ASSUME TypeOK, CallInvariant, OwnFiles, NEW c \in Callers, CallerStep(c),
         call[c].pc \in Steps => OwnCall(c), ~legacy, stray = {}, ~Moved(stateFile)
  PROVE  call'[c].pc # "refused" \/ call[c].pc = "refused"
<1>0. WellFormed(c) /\ ReliesOn(c)
  BY DEF CallInvariant
<1> USE DEF At, FirstTime, CreatesFile
<1>1. CASE OpenCandidate(c)
  <2>1. stateFile.status \in {"absent", "creating", "ready"}
    BY DEF TypeOK, StateFiles, Absent, Creating, Ready
  <2>2. Exists(database) => Exists(envelope)
    BY DEF OwnFiles
  <2>3. Exists(envelope) => Exists(stateFile) /\ ~Moved(envelope)
    BY DEF OwnFiles, Moved
  <2>4. stateFile.status = "ready" => Exists(envelope) /\ Exists(database)
    BY DEF OwnFiles
  <2>5. ModeOf # "conflict" /\ (ModeOf # "create" => Exists(envelope))
    BY <2>1, <2>2, <2>3, <2>4 DEF ModeOf, Exists
  <2>6. ~Unfit
    BY <2>3, <2>5 DEF Unfit, InventoryConflict
  <2>7. CASE call' = [call EXCEPT ![c] = [NoCall EXCEPT !.pc = "failed"]]
    BY <2>7, Ending
  <2>8. CASE \E mode \in Modes, step \in {"journal", "protect", "unprotect"} :
               call' = [call EXCEPT ![c] =
                 [NoCall EXCEPT !.pc = step, !.mode = mode,
                    !.stated = IF mode = "ready" THEN stateFile.keyId ELSE NoKey,
                    !.key = IF mode = "create" THEN NoKey ELSE envelope.keyId]]
    <3>1. PICK step \in {"journal", "protect", "unprotect"} :
            \E mode, s, k : call' = [call EXCEPT ![c] =
                 [NoCall EXCEPT !.pc = step, !.mode = mode, !.stated = s, !.key = k]]
      BY <2>8
    <3>. QED BY <3>1 DEF TypeOK, NoCall
  <2>. QED BY <1>1, <2>6, <2>7, <2>8 DEF OpenCandidate
<1>2. CASE UnlinkInitialState(c)
  <2>1. stray' = {} /\ Exists(stateFile) /\ ~Exists(envelope) /\ ~Exists(database)
    BY <1>2 DEF UnlinkInitialState, OwnCall, OwnFiles, Steps, Exists, Creating
  <2>2. call'[c].pc = "protect"
    BY <1>2, <2>1, Going DEF UnlinkInitialState
  <2>. QED BY <2>2
<1>3. CASE LinkEnvelope(c)
  BY <1>3, Going DEF LinkEnvelope, OwnCall, Steps
<1>4. CASE UnprotectKey(c)
  <2>1. ~(call[c].mode = "ready" /\ call[c].key # call[c].stated)
    BY <1>4 DEF UnprotectKey, OwnCall, OwnFiles, Steps, NewVault
  <2>2. call'[c].pc = "reserve"
    BY <1>4, <2>1, Going DEF UnprotectKey
  <2>. QED BY <2>2
<1>5. CASE ReserveFile(c)
  <2>1. CreatesFile(c) <=> ~Exists(database)
    BY <1>5 DEF ReserveFile, OwnCall, Steps
  <2>2. \E k : call' = [call EXCEPT ![c].pc = "native", ![c].guard = k]
    BY <1>5, <2>1 DEF ReserveFile, Exists
  <2>. QED BY <2>2 DEF TypeOK, Calls
<1>6. CASE OpenNative(c)
  BY <1>6, Going DEF OpenNative, OwnCall, Steps
<1>7. CASE AttestCipher(c)
  BY <1>0, <1>7, Going
  DEF AttestCipher, OwnCall, OwnFiles, Steps, NewVault, ReliesOn, Filled, Readable
<1>8. CASE EnsureIdentity(c)
  <2>1. /\ Exists(envelope) /\ envelope.keyId = call[c].key /\ stateFile.vaultId = root
        /\ ~FirstTime(c) => stateFile.status = "ready"
    BY <1>8 DEF EnsureIdentity, OwnCall, Steps, NewVault
  <2>2. Exists(database)
    BY <1>0, <1>8 DEF EnsureIdentity, ReliesOn, Filled
  <2>3. IdentityAfter(c) = Identity(root, call[c].key)
    BY <2>1, <2>2 DEF OwnFiles, IdentityAfter, Exists, Identity
  <2>4. Go(c, "final") \/ HandOver(c)
    BY <1>8, <2>3 DEF EnsureIdentity
  <2>5. call'[c].pc \in {"final", "open"}
    BY <2>4, Going
  <2>. QED BY <2>5
<1>9. CASE WriteReadyState(c)
  <2>1. Complete
    BY <1>0, <1>9
    DEF WriteReadyState, Complete, InventoryConflict, OwnCall, Steps, NewVault, WellFormed,
        ReliesOn, Filled
  <2>. QED BY <1>9, <2>1, Going DEF WriteReadyState
<1>10. CASE \/ WriteInitialState(c) \/ LinkInitialState(c) \/ WriteEnvelope(c)
            \/ UnlinkEnvelope(c) \/ InitializeSchema(c)
  BY <1>10, Going
  DEF WriteInitialState, LinkInitialState, WriteEnvelope, UnlinkEnvelope, InitializeSchema
<1>11. CASE RenameReadyState(c) \/ StepFails(c) \/ ReadBackFails(c)
  BY <1>11, Going, Ending DEF RenameReadyState, StepFails, ReadBackFails
<1>12. CASE ProtectKey(c)
  <2>1. \E k : call' = [call EXCEPT ![c].pc = "seal", ![c].key = k]
    BY <1>12 DEF ProtectKey
  <2>. QED BY <2>1 DEF TypeOK, Calls
<1>13. CASE CloseVault(c)
  BY <1>13 DEF CloseVault, TypeOK, NoCall
<1>. QED
  BY <1>1, <1>2, <1>3, <1>4, <1>5, <1>6, <1>7, <1>8, <1>9, <1>10, <1>11, <1>12, <1>13
  DEF CallerStep

(* Recovery is complete, for every sequence of crashes and failing steps. *)
THEOREM RefusalsAreExplained == Spec => RefusalIsExplained
<1>1. (TypeOK /\ CallInvariant /\ FilesInvariant) /\ [Next]_vars =>
        [\A c \in Callers :
           call'[c].pc = "refused" /\ call[c].pc # "refused" =>
             legacy \/ stray # {} \/ meddled # {} \/ Moved(stateFile)]_vars
  <2> SUFFICES ASSUME TypeOK, CallInvariant, FilesInvariant, Next, NEW d \in Callers,
                      call'[d].pc = "refused", call[d].pc # "refused",
                      ~legacy, stray = {}, meddled = {}, ~Moved(stateFile)
               PROVE  FALSE
    OBVIOUS
  <2>1. ASSUME NEW c \in Callers, CallerStep(c) PROVE FALSE
    <3>1. c = d
      BY <2>1, CallerMoves
    <3>. QED BY <2>1, <3>1, RefusalStep DEF FilesInvariant
  <2>. QED BY <2>1 DEF Next, Crash, NoCall, Meddle, Relocate
<1>. QED BY <1>1, FilesInvariantHolds, PTL DEF Spec, RefusalIsExplained

(* What one step does to the file: it may create it, remove the empty one a call made,
   or write its pages or its identity. *)
LEMMA FileStep ==
  ASSUME TypeOK, CallInvariant, NEW c \in Callers, CallerStep(c), Exists(database)
  PROVE  \/ UNCHANGED database
         \/ /\ CreatesFile(c) /\ database = Database(call[c].guard) /\ database' = Absent
            /\ (OpenNative(c) \/ StepFails(c))
         \/ /\ InitializeSchema(c)
            /\ Exists(database') /\ database'.id = database.id
            /\ database'.identity = database.identity
         \/ /\ EnsureIdentity(c)
            /\ Exists(database') /\ database'.id = database.id
            /\ database'.identity = IdentityAfter(c)
<1>1. database \in Databases /\ ReliesOn(c)
  BY FieldTypes DEF CallInvariant
<1>2. CASE OpenNative(c) \/ StepFails(c)
  <2>1. CASE database' = database
    BY <2>1
  <2>2. CASE At(c, "native") /\ database' = WithoutOwnFile(c)
    BY <1>1, <1>2, <2>2 DEF WithoutOwnFile, ReliesOn
  <2>. QED BY <1>2, <2>1, <2>2 DEF OpenNative, StepFails
<1>3. CASE InitializeSchema(c)
  BY <1>1, <1>3 DEF InitializeSchema, Databases, Exists
<1>4. CASE EnsureIdentity(c)
  BY <1>1, <1>4 DEF EnsureIdentity, Databases, Exists
<1>5. CASE ReserveFile(c)
  BY <1>5 DEF ReserveFile
<1>. QED
  BY <1>2, <1>3, <1>4, <1>5
  DEF CallerStep, OpenCandidate, durable, WriteInitialState, LinkInitialState,
      UnlinkInitialState, ProtectKey, WriteEnvelope, LinkEnvelope, UnlinkEnvelope,
      UnprotectKey, AttestCipher, WriteReadyState, RenameReadyState, CloseVault, ReadBackFails

(* A fresh key is made only by a call that creates the vault. *)
LEMMA KeyStep ==
  ASSUME Next, keys' # keys
  PROVE  \E c \in Callers : ProtectKey(c)
<1>1. ASSUME NEW c \in Callers, CallerStep(c) PROVE ProtectKey(c)
  <2>1. ~(OpenCandidate(c) \/ UnprotectKey(c) \/ AttestCipher(c) \/ CloseVault(c))
    BY DEF OpenCandidate, UnprotectKey, AttestCipher, CloseVault
  <2>2. ~(\/ WriteInitialState(c) \/ LinkInitialState(c) \/ UnlinkInitialState(c)
          \/ WriteEnvelope(c) \/ LinkEnvelope(c) \/ UnlinkEnvelope(c))
    BY DEF WriteInitialState, LinkInitialState, UnlinkInitialState, WriteEnvelope,
           LinkEnvelope, UnlinkEnvelope
  <2>3. ~(ReserveFile(c) \/ OpenNative(c) \/ InitializeSchema(c) \/ EnsureIdentity(c))
    BY DEF ReserveFile, OpenNative, InitializeSchema, EnsureIdentity
  <2>4. ~(WriteReadyState(c) \/ RenameReadyState(c) \/ StepFails(c) \/ ReadBackFails(c))
    BY DEF WriteReadyState, RenameReadyState, StepFails, ReadBackFails
  <2>. QED BY <1>1, <2>1, <2>2, <2>3, <2>4 DEF CallerStep
<1>2. ~(Crash \/ Meddle \/ Relocate)
  BY DEF Crash, Meddle, Relocate
<1>. QED BY <1>1, <1>2 DEF Next

(* What another program puts under the name has never been there. *)
LEMMA MeddledFile ==
  ASSUME TypeOK, CallInvariant, Meddle
  PROVE  \/ UNCHANGED database
         \/ /\ \A c \in Callers : ~Holding(c)
            /\ Exists(database') =>
                 /\ database'.identity = Absent
                 /\ Exists(database) => database'.id # database.id
<1> DEFINE n == files + 1
<1>1. CASE database' # database
  <2>1. (\A c \in Callers : ~Holding(c)) /\ database' \in {Absent, Foreign(n), Database(n)}
    BY <1>1 DEF Meddle
  <2>2. Exists(database) => database.id # n
    BY DEF CallInvariant, FileIds, TypeOK
  <2> HIDE DEF n
  <2>3. Exists(database') => database'.identity = Absent /\ database'.id = n
    BY <2>1 DEF Exists, Absent, Foreign, Database
  <2>. QED BY <2>1, <2>2, <2>3
<1>. QED BY <1>1

(* Data are refused rather than replaced. *)
THEOREM DataNeverReplaced == Spec => NeverReplaced
<1>1. (TypeOK /\ CallInvariant) /\ [Next]_vars =>
        [/\ keys' # keys /\ Exists(database) => database.key = NoKey
         /\ stateFile.status = "ready" /\ Exists(database) /\ Exists(database') =>
              database'.identity =
                (IF database'.id = database.id THEN database.identity ELSE Absent)]_vars
  <2> SUFFICES ASSUME TypeOK, CallInvariant, Next
               PROVE  /\ keys' # keys /\ Exists(database) => database.key = NoKey
                      /\ stateFile.status = "ready" /\ Exists(database) /\ Exists(database') =>
                           database'.identity =
                             (IF database'.id = database.id THEN database.identity ELSE Absent)
    OBVIOUS
  <2>1. ASSUME keys' # keys, Exists(database) PROVE database.key = NoKey
    <3>1. PICK c \in Callers : ProtectKey(c)
      BY <2>1, KeyStep
    <3>. QED BY <2>1, <3>1 DEF ProtectKey, At, CallInvariant, ReliesOn, NewVault
  <2>2. ASSUME stateFile.status = "ready", Exists(database), Exists(database')
        PROVE  database'.identity =
                 (IF database'.id = database.id THEN database.identity ELSE Absent)
    <3>1. ASSUME NEW c \in Callers, CallerStep(c)
          PROVE  database'.id = database.id /\ database'.identity = database.identity
      <4>1. EnsureIdentity(c) => IdentityAfter(c) = database.identity
        BY <2>2 DEF EnsureIdentity, At, IdentityAfter, CallInvariant, ReliesOn, Steps
      <4>2. database' # Absent
        BY <2>2 DEF Exists, Absent
      <4>. QED BY <2>2, <3>1, <4>1, <4>2, FileStep
    <3>2. CASE Meddle
      BY <2>2, <3>2, MeddledFile
    <3>. QED BY <3>1, <3>2 DEF Next, Crash, Relocate, durable
  <2>. QED BY <2>1, <2>2
<1>. QED BY <1>1, CallInvariantHolds, PTL DEF Spec, NeverReplaced

(* The cleanup of a failed open removes only the empty file that open created. *)
THEOREM CleanupSparesData == Spec => OnlyOwnEmptyFileRemoved
<1>1. (TypeOK /\ CallInvariant) /\ [Next]_vars =>
        [Exists(database) /\ ~Exists(database') /\ call' # call =>
           /\ ~database.foreign /\ database.key = NoKey
           /\ \E c \in Callers : CreatesFile(c) /\ call[c].guard = database.id]_vars
  <2> SUFFICES ASSUME TypeOK, CallInvariant, Next,
                      Exists(database), ~Exists(database'), call' # call
               PROVE  /\ ~database.foreign /\ database.key = NoKey
                      /\ \E c \in Callers : CreatesFile(c) /\ call[c].guard = database.id
    OBVIOUS
  <2>1. PICK c \in Callers : CallerStep(c)
    BY DEF Next, Crash, Meddle, Relocate, durable
  <2>2. CreatesFile(c) /\ database = Database(call[c].guard)
    BY <2>1, FileStep
  <2>. QED BY <2>2 DEF Database
<1>. QED BY <1>1, CallInvariantHolds, PTL DEF Spec, OnlyOwnEmptyFileRemoved

-----------------------------------------------------------------------------
(* The promise of VaultCustody *)

(* The key the vault's data is bound to, and the key each caller holds: the state of
   VaultCustody that ImplementsCustody reads off the files and the calls. *)
VaultKey ==
  IF Exists(database) THEN
    IF Exists(database.identity) THEN database.identity.keyId ELSE NoKey
  ELSE NoKey
Held == [c \in Callers |-> IF At(c, "open") THEN call[c].key ELSE NoKey]

(* Nobody gets or loses the vault by a step that neither ends nor starts in "open". *)
LEMMA HeldSame ==
  ASSUME TypeOK, NEW c \in Callers, \A d \in Callers \ {c} : call'[d] = call[d],
         call[c].pc # "open", call'[c].pc # "open"
  PROVE  Held' = Held
<1>1. \A d \in Callers : (IF At(d, "open") THEN call[d].key ELSE NoKey)'
                         = IF At(d, "open") THEN call[d].key ELSE NoKey
  BY DEF At
<1>. QED BY <1>1 DEF Held

(* An identity makes the data bound to its key. *)
LEMMA VaultKeyOf ==
  ASSUME Exists(database), NEW k, database.identity = Identity(root, k)
  PROVE  VaultKey = k
BY DEF VaultKey, Identity, Exists

(* A call that is handed a vault with its identity holds it with that key. *)
LEMMA HandsOver ==
  ASSUME TypeOK, CallInvariant, NEW c \in Callers, HandOver(c), call[c].pc \in Filled \ {"open"},
         Exists(database), database.identity = Identity(root, call[c].key),
         VaultKey' = VaultKey
  PROVE  Custody!HandOver(c)
<1>1. VaultKey = call[c].key /\ VaultKey # NoKey
  BY VaultKeyOf DEF CallInvariant, WellFormed, Filled, Steps, NewVault, Keys, NoKey
<1>2. Held[c] = NoKey
  BY DEF Held, At, Filled
<1>3. Held' = [Held EXCEPT ![c] = VaultKey]
  BY <1>1 DEF Held, At, HandOver, TypeOK, Calls
<1>. QED BY <1>1, <1>2, <1>3 DEF Custody!HandOver, VaultKey, Held

(* Every step of opening is a step of VaultCustody, or one it does not see. *)
LEMMA CustodyStep ==
  ASSUME TypeOK, CallInvariant, [Next]_vars
  PROVE  [Custody!Next]_<<VaultKey, Held>>
<1>s. ASSUME VaultKey' = VaultKey, Held' = Held PROVE [Custody!Next]_<<VaultKey, Held>>
  BY <1>s
<1>1. CASE UNCHANGED <<database, call>>
  BY <1>s, <1>1 DEF VaultKey, Held, At
<1>2. ASSUME NEW c \in Callers, CallerStep(c) PROVE [Custody!Next]_<<VaultKey, Held>>
  <2>0. /\ \A d \in Callers \ {c} : call'[d] = call[d]
        /\ WellFormed(c) /\ ReliesOn(c)
    BY <1>2, CallerMoves DEF CallInvariant
  <2>1. CASE CloseVault(c)
    <3>1. Held' = [d \in Callers |-> IF d \in {c} THEN NoKey ELSE Held[d]]
      BY <2>1 DEF CloseVault, Held, At, NoCall, TypeOK
    <3>2. VaultKey' = VaultKey
      BY <2>1 DEF CloseVault, durable, VaultKey
    <3>3. Custody!LetGo({c})
      BY <3>1, <3>2 DEF Custody!LetGo, VaultKey, Held
    <3>4. {c} \in SUBSET Callers
      OBVIOUS
    <3>. QED BY <3>3, <3>4 DEF Custody!Next
  <2>2. CASE RenameReadyState(c)
    <3>1. VaultKey' = VaultKey
      BY <2>2 DEF RenameReadyState, VaultKey
    <3>2. Custody!HandOver(c)
      BY <2>0, <2>2, <3>1, HandsOver DEF RenameReadyState, ReliesOn, At, Filled
    <3>. QED BY <3>2 DEF Custody!Next
  <2>3. CASE EnsureIdentity(c)
    <3>1. /\ Exists(database) /\ Exists(database') /\ database'.identity = IdentityAfter(c)
          /\ call[c].pc = "identity" /\ call[c].key \in Keys
      BY <2>0, <2>3, FileStep, FieldTypes
      DEF ReliesOn, WellFormed, EnsureIdentity, At, Filled, Steps, NewVault, Databases, Exists
    <3>2. CASE Exists(database.identity)
      <4>1. IdentityAfter(c) = database.identity
        BY <3>2 DEF IdentityAfter
      <4>2. VaultKey' = VaultKey
        BY <3>1, <4>1 DEF VaultKey
      <4>3. CASE IdentityAfter(c) = Identity(root, call[c].key) /\ HandOver(c)
        <5>1. Custody!HandOver(c)
          BY <3>1, <4>1, <4>2, <4>3, HandsOver DEF Filled
        <5>. QED BY <5>1 DEF Custody!Next
      <4>4. CASE Finish(c, "refused") \/ Go(c, "final")
        <5>1. call'[c].pc \in {"refused", "final"}
          BY <4>4, Going, Ending
        <5>. QED BY <1>s, <2>0, <3>1, <4>2, <5>1, HeldSame
      <4>. QED BY <2>3, <4>3, <4>4 DEF EnsureIdentity
    <3>3. CASE ~Exists(database.identity)
      <4>1. VaultKey = NoKey
        BY <3>3 DEF VaultKey
      <4>2. CASE FirstTime(c)
        <5>1. IdentityAfter(c) = Identity(root, call[c].key)
          BY <3>3, <4>2 DEF IdentityAfter
        <5>2. Go(c, "final")
          BY <2>3, <4>2, <5>1 DEF EnsureIdentity
        <5>3. call'[c].pc = "final"
          BY <5>2, Going
        <5>4. Held' = Held
          BY <2>0, <3>1, <5>3, HeldSame
        <5>5. VaultKey' = call[c].key
          BY <3>1, <5>1 DEF VaultKey, Identity, Exists
        <5>6. Custody!Establish(call[c].key)
          BY <4>1, <5>4, <5>5 DEF Custody!Establish, VaultKey, Held
        <5>. QED BY <3>1, <5>6 DEF Custody!Next
      <4>3. CASE ~FirstTime(c)
        <5>1. IdentityAfter(c) = database.identity
          BY <4>3 DEF IdentityAfter
        <5>2. IdentityAfter(c) # Identity(root, call[c].key)
          BY <3>3, <5>1 DEF Exists, Identity
        <5>3. Finish(c, "refused")
          BY <2>3, <5>2 DEF EnsureIdentity
        <5>4. call'[c].pc = "refused"
          BY <5>3, Ending
        <5>5. Held' = Held
          BY <2>0, <3>1, <5>4, HeldSame
        <5>6. VaultKey' = VaultKey
          BY <3>1, <3>3, <5>1 DEF VaultKey
        <5>. QED BY <1>s, <5>5, <5>6
      <4>. QED BY <4>2, <4>3
    <3>. QED BY <3>2, <3>3
  <2>4. CASE ~(CloseVault(c) \/ RenameReadyState(c) \/ EnsureIdentity(c))
    <3>1. VaultKey' = VaultKey
      <4>1. CASE Exists(database)
        <5>1. Database(call[c].guard).identity = Absent
          BY DEF Database
        <5>. QED
          BY <1>2, <2>4, <4>1, <5>1, FileStep DEF VaultKey, Exists, Absent
      <4>2. CASE ~Exists(database)
        <5>1. \/ UNCHANGED database
              \/ \E n : database' = Database(n)
              \/ database' = Absent
          BY <1>2, <2>0, <2>4, <4>2
          DEF CallerStep, OpenCandidate, durable, WriteInitialState, LinkInitialState,
              UnlinkInitialState, ProtectKey, WriteEnvelope, LinkEnvelope, UnlinkEnvelope,
              UnprotectKey, ReserveFile, OpenNative, WithoutOwnFile, AttestCipher,
              InitializeSchema, ReliesOn, Filled, At, WriteReadyState, StepFails, ReadBackFails
        <5>2. \A n : Database(n).identity = Absent
          BY DEF Database
        <5>. QED BY <4>2, <5>1, <5>2 DEF VaultKey, Exists, Absent
      <4>. QED BY <4>1, <4>2
    <3>2. call[c].pc # "open" /\ call'[c].pc # "open"
      <4>1. CASE OpenCandidate(c)
        BY <4>1, Turning DEF OpenCandidate
      <4>2. CASE ProtectKey(c)
        <5>1. \E k : call' = [call EXCEPT ![c].pc = "seal", ![c].key = k]
          BY <4>2 DEF ProtectKey
        <5>. QED BY <4>2, <5>1 DEF ProtectKey, At, TypeOK, Calls
      <4>3. CASE ReserveFile(c)
        <5>1. CASE \E k : call' = [call EXCEPT ![c].pc = "native", ![c].guard = k]
          BY <4>3, <5>1 DEF ReserveFile, At, TypeOK, Calls
        <5>2. CASE Finish(c, "refused")
          BY <4>3, <5>2, Ending DEF ReserveFile, At
        <5>. QED BY <4>3, <5>1, <5>2 DEF ReserveFile
      <4>4. CASE \/ WriteInitialState(c) \/ LinkInitialState(c) \/ UnlinkInitialState(c)
                 \/ WriteEnvelope(c) \/ LinkEnvelope(c) \/ UnlinkEnvelope(c)
                 \/ UnprotectKey(c)
        BY <4>4, Going, Ending
        DEF WriteInitialState, LinkInitialState, UnlinkInitialState, WriteEnvelope,
            LinkEnvelope, UnlinkEnvelope, UnprotectKey, At
      <4>5. CASE \/ OpenNative(c) \/ AttestCipher(c) \/ InitializeSchema(c)
                 \/ WriteReadyState(c) \/ StepFails(c) \/ ReadBackFails(c)
        BY <4>5, Going, Ending
        DEF OpenNative, AttestCipher, InitializeSchema, WriteReadyState, StepFails,
            ReadBackFails, At, AtRest
      <4>. QED BY <1>2, <2>4, <4>1, <4>2, <4>3, <4>4, <4>5 DEF CallerStep
    <3>. QED BY <1>s, <2>0, <3>1, <3>2, HeldSame
  <2>. QED BY <2>1, <2>2, <2>3, <2>4
<1>3. CASE Crash
  <2>1. Held' = [d \in Callers |-> IF d \in Callers THEN NoKey ELSE Held[d]]
    BY <1>3 DEF Crash, Held, At, NoCall
  <2>2. VaultKey' = VaultKey
    BY <1>3 DEF Crash, durable, VaultKey
  <2>3. Custody!LetGo(Callers)
    BY <2>1, <2>2 DEF Custody!LetGo, VaultKey, Held
  <2>. QED BY <2>3 DEF Custody!Next
<1>4. CASE Meddle
  <2>1. UNCHANGED call
    BY <1>4 DEF Meddle
  <2>2. CASE database' # database
    <3>1. (\A c \in Callers : ~Holding(c)) /\ VaultKey' = NoKey
      BY <1>4, <2>2, MeddledFile DEF VaultKey, Exists, Absent
    <3>2. \A c \in Callers : Held[c] = NoKey
      BY <3>1 DEF Held, At, Holding
    <3>3. Held' = Held
      BY <2>1 DEF Held, At
    <3>4. Custody!Lose
      BY <3>1, <3>2, <3>3 DEF Custody!Lose, VaultKey, Held
    <3>. QED BY <3>4 DEF Custody!Next
  <2>. QED BY <1>1, <2>1, <2>2
<1>. QED BY <1>1, <1>2, <1>3, <1>4 DEF Next, Relocate, vars

(* Opening, with its files, steps, failures and crashes, implements the promise of
   VaultCustody. *)
THEOREM OpeningImplementsCustody == Spec => ImplementsCustody
<1>1. Init => Custody!Init
  BY DEF Init, Custody!Init, Exists, Absent, At, NoCall
<1>2. (TypeOK /\ CallInvariant) /\ [Next]_vars => [Custody!Next]_<<VaultKey, Held>>
  BY CustodyStep
<1>. QED
  BY <1>1, <1>2, CallInvariantHolds, PTL
  DEF Spec, ImplementsCustody, Custody!Spec, VaultKey, Held
=============================================================================
