----------------------------- MODULE MCTxWorkers -----------------------------
(* Two scenes: "two" has one row and two workers, "live" has two rows, one    *)
(* worker and the fairness under which every row settles.                     *)
EXTENDS TxOutbox

CONSTANTS p1, p2, w1, w2

MCRow == 1..2
MCPid == {p1, p2}

VARIABLE scene
all == <<scene, vars>>

Live == INSTANCE TxOutbox WITH Targeted <- {}, Cap <- 1, Env <- {"crash"}

MCInit == scene \in {"two", "live"} /\ Init

TwoStep  == scene = "two" /\ Next /\ st'[2] = "none" /\ UNCHANGED scene
LiveStep(A) == scene = "live" /\ A /\ pc'[w2] = "down" /\ UNCHANGED scene

MCNext == TwoStep \/ LiveStep(Live!Next)

MCSpec == MCInit /\ [][MCNext]_all

\* The fairness of TxOutbox for the worker that runs.
MCFairSpec ==
    /\ MCSpec
    /\ WF_all(LiveStep(Live!failInterruptedSends(w1)))
    /\ WF_all(LiveStep(Live!runTxOutbox(w1)))
    /\ \A r \in Row : WF_all(LiveStep(Live!BackoffElapses(r)))
    /\ WF_all(LiveStep(Live!WindowElapses))

------------------------------------------------------------------------------
\* While the queue stays armed and the channel quiet, a queued row reaches a
\* verdict even when the row ahead of it fails, backs off or takes the only send
\* of the window, and even when the worker is restarted under it (listPendingTx
\* LIMIT 50).
EveryRowSettles ==
    \A r \in Row :
        (scene = "live" /\ st[r] \in Pending \cup {"sending"})
            ~> st[r] \in Counted \cup {"failed", "cancelled"}
==============================================================================
