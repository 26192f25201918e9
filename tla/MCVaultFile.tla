---------------------------- MODULE MCVaultFile ----------------------------
(* Instances of VaultFile small enough for TLC. *)
EXTENDS VaultFile

NoFaults == {}

\* Every system call of the commands that update the vault in place.
InPlaceFaults ==
  {"create", "import", "rm", "rename"} \X
  {"imp_write", "rm_wipe", "rm_trunc", "save_write", "save_trunc", "save_sync",
   "save_ptr", "save_done"}

\* The calls of a vacuum from its first copy to its rename.
VacuumFaults ==
  {"vacuum"} \X {"vac_copy", "save_write", "save_trunc", "save_sync", "save_ptr",
                 "save_done", "vac_rename"}

\* The shell's open of the vault after a vacuum.
ReopenFault == {<<"vacuum", "vac_reopen">>}
=============================================================================
