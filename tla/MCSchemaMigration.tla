-------------------------- MODULE MCSchemaMigration --------------------------
(* Small instances of SchemaMigration for TLC. *)
EXTENDS SchemaMigration, TLC

ProcSymmetry == Permutations(Procs)
=============================================================================
