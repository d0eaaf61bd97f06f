--------------------------- MODULE MCBackupRestore ---------------------------
(* Two module versions and two restores: a backup may fall between two artifacts, *)
(* and a restore may meet another's directory in any state.                       *)
EXTENDS BackupRestore, TLC

Interchangeable == Permutations(Modules) \cup Permutations(Restorers)
=============================================================================
