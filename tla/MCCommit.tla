------------------------------ MODULE MCCommit ------------------------------
(* Instances of the back end for TLC.                                      *)
EXTENDS Commit
=============================================================================
