------------------------------ MODULE MCFtpFs ------------------------------
(* FtpFs for TLC: threads and handles are interchangeable model values.     *)
EXTENDS FtpFsManaged, TLC

Symmetric == Permutations(Threads) \cup Permutations(Handles)
=============================================================================
