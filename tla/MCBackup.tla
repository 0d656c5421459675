------------------------------ MODULE MCBackup ------------------------------
(* Three transactions: one before the backup, one after it, and one after  *)
(* a restore.  Two ids: a file and the one the log beside it may be for.   *)
EXTENDS Backup
=============================================================================
