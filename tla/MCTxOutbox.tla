----------------------------- MODULE MCTxOutbox -----------------------------
(* Instances of TxOutbox for TLC: one worker, two rows.                       *)
EXTENDS TxOutbox, TLC

CONSTANTS p1, p2

MCRow == 1..2
MCPid == {p1, p2}
PidSymmetry == Permutations(MCPid)
=============================================================================
