----------------------------- MODULE TxPromise -----------------------------
(***************************************************************************)
(* What the outbox promises about one queued message, whatever the number  *)
(* of attempts, crashes and confirmations it takes: the mesh sees it under *)
(* at most one packet id, it is reported delivered only when a copy really *)
(* left, and a verdict is final except that a delivery claim may still be  *)
(* refuted.  A withdrawn message may be reopened: see Reopen.              *)
(***************************************************************************)
CONSTANTS Row, Pid

VARIABLES outcome,   \* the verdict on each message
          message    \* the packet ids under which the mesh has seen it

Outcome == {"none", "open", "withdrawn", "rehearsed", "sent", "delivered",
            "failed"}

Init ==
    /\ outcome = [r \in Row |-> "none"]
    /\ message = [r \in Row |-> {}]

Becomes(r, o) ==
    /\ outcome' = [outcome EXCEPT ![r] = o]
    /\ UNCHANGED message

Accept(r)   == outcome[r] = "none" /\ Becomes(r, "open")
Withdraw(r) == outcome[r] = "open" /\ Becomes(r, "withdrawn")

\* A guard of a tick that began before the withdrawal writes over it.
Reopen(r)   == outcome[r] = "withdrawn" /\ Becomes(r, "open")

\* Only an open message airs, and a resend carries the id of the first copy.
Emit(r) ==
    /\ outcome[r] = "open"
    /\ \E p \in Pid : /\ message[r] \subseteq {p}
                      /\ message' = [message EXCEPT ![r] = {p}]
    /\ UNCHANGED outcome

Rehearse(r) == outcome[r] = "open" /\ Becomes(r, "rehearsed")
Send(r)     == outcome[r] = "open" /\ message[r] # {} /\ Becomes(r, "sent")
Deliver(r)  == outcome[r] = "sent" /\ Becomes(r, "delivered")

\* Given up, refused, refuted by a NAK, or interrupted by a restart. A restart
\* gives up every interrupted message at once.
GiveUp ==
    \E R \in SUBSET {r \in Row : outcome[r] \notin {"none", "rehearsed", "failed"}} :
        /\ R # {}
        /\ outcome' = [r \in Row |-> IF r \in R THEN "failed" ELSE outcome[r]]
        /\ UNCHANGED message

Next ==
    \/ GiveUp
    \/ \E r \in Row : \/ Accept(r) \/ Withdraw(r) \/ Reopen(r) \/ Emit(r)
                      \/ Rehearse(r) \/ Send(r) \/ Deliver(r)

Spec == Init /\ [][Next]_<<outcome, message>>

=============================================================================
