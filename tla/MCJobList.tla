----------------------------- MODULE MCJobList -----------------------------
(***************************************************************************)
(* Bounds for model-checking JobList: job IDs can grow without limit, since *)
(* deletejob may put nextjid above MAXJOBS (line 565).                      *)
(***************************************************************************)
EXTENDS JobList, TLC

MaxJid == MaxJobs + 3
BoundedJids == nextjid <= MaxJid
Symmetry == Permutations(Pids)
=============================================================================
