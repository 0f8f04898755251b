------------------------------ MODULE MCReload ------------------------------
(* Reload for TLC with one broker, one edit of it and one query that fails.   *)
EXTENDS Reload
=============================================================================
