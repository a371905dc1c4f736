-------------------------- MODULE MCDownloadTasks --------------------------
(* DownloadTasks on small instances; the .cfg files give the constants. *)
EXTENDS DownloadTasks
=============================================================================
