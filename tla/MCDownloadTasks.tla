---------------------------- MODULE MCDownloadTasks ----------------------------
(* Instances of DownloadTasks for TLC. *)
EXTENDS DownloadTasks, TLC

\* Coroutine identities are interchangeable (safety runs only).
RunSymmetry == Permutations(Run)
================================================================================
