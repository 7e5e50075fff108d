---------------------------- MODULE MCDiskQueue ----------------------------
(* Three processes on one directory, with names that get wider at 4.       *)
EXTENDS DiskQueue
=============================================================================
