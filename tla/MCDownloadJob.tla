---------------------------- MODULE MCDownloadJob ----------------------------
(* Instances of DownloadJob for TLC.                                        *)
EXTENDS DownloadJob, TLC

MCSymmetry == Permutations(Shards) \cup Permutations(Starters) \cup Permutations(Cancellers)
=============================================================================
