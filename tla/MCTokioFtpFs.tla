---------------------------- MODULE MCTokioFtpFs ----------------------------
(* TokioFtpFs for TLC: tasks and handles are interchangeable model values.  *)
EXTENDS TokioFtpFsManaged, TLC

Symmetric == Permutations(Tasks) \cup Permutations(Handles)
=============================================================================
