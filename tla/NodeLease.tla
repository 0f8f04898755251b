------------------------------ MODULE NodeLease ------------------------------
(***************************************************************************)
(* The cross-process lease on the station node's only TCP session: the one *)
(* row of node_lease and the processes that run an operation under         *)
(* withNodeLease (a TX publish, a config read or write, a NodeDB prune).   *)
(*                                                                         *)
(* Time is discrete. `left` counts down what expires_at - UTC_TIMESTAMP()  *)
(* measures; an operation may hold the lease for HoldMax ticks at most.    *)
(***************************************************************************)
EXTENDS Integers, FiniteSets

CONSTANTS
    Proc,        \* callers of withNodeLease
    Token,       \* lease tokens (random, never the same twice)
    NoToken,     \* token = ''
    TTL,         \* TTL_SECONDS
    RenewEvery,  \* RENEW_EVERY_MS
    Timeout,     \* ACQUIRE_TIMEOUT_MS
    Grace,       \* HANDOFF_GRACE_MS
    HoldMax,     \* the longest an operation stays between acquire and release
    MaxFaults    \* bound on database errors and crashes

ASSUME TokenAssumption == NoToken \notin Token
ASSUME TimeAssumption ==
    /\ TTL \in Nat \ {0} /\ RenewEvery \in Nat \ {0} /\ Timeout \in Nat
    /\ Grace \in Nat /\ HoldMax \in Nat \ {0} /\ MaxFaults \in Nat

VARIABLES
    row,     \* node_lease.token
    left,    \* ticks until expires_at; 0 when free or expired
    pc,      \* where each caller is in withNodeLease
    mine,    \* the token a caller works under
    wait,    \* ticks a caller has been trying to acquire
    age,     \* ticks since a caller acquired
    ren,     \* ticks since a caller's renew interval last fired
    flight,  \* tokens with a renewal on its way to the database
    faults

vars == <<row, left, pc, mine, wait, age, ren, flight, faults>>

Holding(p) == pc[p] \in {"grace", "run", "release"}

\* The lease row, the callers' local state and the timers are well formed; the
\* expiry never lies further ahead than TTL.
TypeOK ==
    /\ row \in Token \cup {NoToken} /\ left \in 0..TTL
    /\ pc \in [Proc -> {"idle", "acquire", "grace", "run", "release", "bare"}]
    /\ mine \in [Proc -> Token \cup {NoToken}]
    /\ wait \in [Proc -> Nat] /\ age \in [Proc -> Nat] /\ ren \in [Proc -> Nat]
    /\ flight \subseteq Token
    /\ faults \in Nat

Init ==
    /\ row = NoToken /\ left = 0
    /\ pc = [p \in Proc |-> "idle"]
    /\ mine = [p \in Proc |-> NoToken]
    /\ wait = [p \in Proc |-> 0]
    /\ age = [p \in Proc |-> 0]
    /\ ren = [p \in Proc |-> 0]
    /\ flight = {} /\ faults = 0

-----------------------------------------------------------------------------
Fresh(t) == t # row /\ t \notin flight /\ \A p \in Proc : mine[p] # t

Fault == faults < MaxFaults /\ faults' = faults + 1

\* A caller leaves withNodeLease and forgets its token.
Leave(p) ==
    /\ pc' = [pc EXCEPT ![p] = "idle"]
    /\ mine' = [mine EXCEPT ![p] = NoToken]
    /\ wait' = [wait EXCEPT ![p] = 0]
    /\ age' = [age EXCEPT ![p] = 0]
    /\ ren' = [ren EXCEPT ![p] = 0]

Call(p) ==
    /\ pc[p] = "idle"
    /\ pc' = [pc EXCEPT ![p] = "acquire"]
    /\ UNCHANGED <<row, left, mine, wait, age, ren, flight, faults>>

\* SELECT-then-UPDATE: the caller decided on an older look at the row.
acquireNodeLease_Unconditional(p) ==
    /\ pc[p] = "acquire"
    /\ \E t \in Token :
          /\ Fresh(t)
          /\ row' = t /\ left' = TTL
          /\ mine' = [mine EXCEPT ![p] = t]
    /\ pc' = [pc EXCEPT ![p] = "grace"]
    /\ UNCHANGED <<wait, age, ren, flight, faults>>

\* The conditional UPDATE: free or expired, and now ours.
acquireNodeLease(p) ==
    /\ pc[p] = "acquire" /\ left = 0
    /\ \E t \in Token :
          /\ Fresh(t)
          /\ row' = t /\ left' = TTL
          /\ mine' = [mine EXCEPT ![p] = t]
    /\ pc' = [pc EXCEPT ![p] = "grace"]
    /\ wait' = [wait EXCEPT ![p] = 0]
    /\ UNCHANGED <<age, ren, flight, faults>>

\* The deadline computed inside the loop.
GiveUp_MovesDeadline(p) ==
    /\ pc[p] = "acquire" /\ left > 0 /\ wait[p] >= Timeout
    /\ wait' = [wait EXCEPT ![p] = 0]
    /\ UNCHANGED <<row, left, pc, mine, age, ren, flight, faults>>

\* "station node is busy": checked only after a failed attempt.
GiveUp(p) ==
    /\ pc[p] = "acquire" /\ left > 0 /\ wait[p] >= Timeout
    /\ Leave(p)
    /\ UNCHANGED <<row, left, flight, faults>>

\* The UPDATE throws, having taken the lease or not: fn() runs unserialized.
AcquireThrows(p) ==
    /\ pc[p] = "acquire"
    /\ Fault
    /\ \/ UNCHANGED <<row, left>>
       \/ left = 0 /\ left' = TTL /\ \E t \in Token : Fresh(t) /\ row' = t
    /\ pc' = [pc EXCEPT ![p] = "bare"]
    /\ wait' = [wait EXCEPT ![p] = 0]
    /\ UNCHANGED <<mine, age, ren, flight>>

BareDone(p) ==
    /\ pc[p] = "bare"
    /\ Leave(p)
    /\ UNCHANGED <<row, left, flight, faults>>

\* The handoff grace is over: fn() starts, and so does the renew interval.
Begin(p) ==
    /\ pc[p] = "grace" /\ age[p] >= Grace
    /\ pc' = [pc EXCEPT ![p] = "run"]
    /\ UNCHANGED <<row, left, mine, wait, age, ren, flight, faults>>

RenewDue(p) ==
    /\ pc[p] = "run" /\ ren[p] = RenewEvery
    /\ flight' = flight \cup {mine[p]}
    /\ ren' = [ren EXCEPT ![p] = 0]
    /\ UNCHANGED <<row, left, pc, mine, wait, age, faults>>

\* Extends by the renew period, or from the old expires_at.
renewNodeLease_Short(t) ==
    /\ t \in flight
    /\ flight' = flight \ {t}
    /\ left' = IF row = t THEN RenewEvery ELSE left
    /\ UNCHANGED <<row, pc, mine, wait, age, ren, faults>>

renewNodeLease_Adds(t) ==
    /\ t \in flight
    /\ flight' = flight \ {t}
    /\ left' = IF row = t THEN left + TTL ELSE left
    /\ UNCHANGED <<row, pc, mine, wait, age, ren, faults>>

\* The answer (false: no longer ours) is ignored by the interval.
renewNodeLease(t) ==
    /\ t \in flight
    /\ flight' = flight \ {t}
    /\ left' = IF row = t THEN TTL ELSE left
    /\ UNCHANGED <<row, pc, mine, wait, age, ren, faults>>

RenewThrows(t) ==
    /\ t \in flight
    /\ Fault
    /\ flight' = flight \ {t}
    /\ UNCHANGED <<row, left, pc, mine, wait, age, ren>>

\* fn() returns or throws; the finally block is next.
Done(p) ==
    /\ pc[p] = "run"
    /\ pc' = [pc EXCEPT ![p] = "release"]
    /\ UNCHANGED <<row, left, mine, wait, age, ren, flight, faults>>

releaseNodeLease(p) ==
    /\ pc[p] = "release"
    /\ IF row = mine[p] THEN row' = NoToken /\ left' = 0
                        ELSE UNCHANGED <<row, left>>
    /\ Leave(p)
    /\ UNCHANGED <<flight, faults>>

ReleaseThrows(p) ==
    /\ pc[p] = "release"
    /\ Fault
    /\ Leave(p)
    /\ UNCHANGED <<row, left, flight>>

\* The process dies at any point of the call.
Crash(p) ==
    /\ pc[p] # "idle"
    /\ Fault
    /\ Leave(p)
    /\ UNCHANGED <<row, left, flight>>

-----------------------------------------------------------------------------
\* Timers fire and statements are answered within a tick, and no operation
\* outlives HoldMax.
Punctual ==
    /\ \A p \in Proc : Holding(p) => age[p] < HoldMax
    /\ \A p \in Proc : pc[p] = "grace" => age[p] < Grace
    /\ \A p \in Proc : pc[p] = "run" => ren[p] < RenewEvery
    /\ \A p \in Proc : pc[p] # "release"
    /\ flight = {}

\* Time passes; the waiters' counter saturates at Timeout.
Tick ==
    /\ Punctual
    /\ left' = IF left = 0 THEN 0 ELSE left - 1
    /\ wait' = [p \in Proc |-> IF pc[p] = "acquire" /\ wait[p] < Timeout
                                 THEN wait[p] + 1 ELSE wait[p]]
    /\ age' = [p \in Proc |-> IF Holding(p) THEN age[p] + 1 ELSE age[p]]
    /\ ren' = [p \in Proc |-> IF pc[p] = "run" THEN ren[p] + 1 ELSE ren[p]]
    /\ UNCHANGED <<row, pc, mine, flight, faults>>

withNodeLease(p) ==
    \/ acquireNodeLease(p) \/ GiveUp(p) \/ Begin(p) \/ RenewDue(p)
    \/ Done(p) \/ releaseNodeLease(p) \/ BareDone(p)

Breaks(p) == AcquireThrows(p) \/ ReleaseThrows(p) \/ Crash(p)

Next ==
    \/ Tick
    \/ \E p \in Proc : Call(p) \/ withNodeLease(p) \/ Breaks(p)
    \/ \E t \in Token : renewNodeLease(t) \/ RenewThrows(t)

Spec == Init /\ [][Next]_vars

\* Time passes, a live process goes on with its call, its operation ends (each
\* has a timeout of its own) and the database answers. Nobody owes a call.
FairSpec ==
    /\ Spec /\ WF_vars(Tick)
    /\ \A p \in Proc : WF_vars(withNodeLease(p))
    /\ \A t \in Token : WF_vars(renewNodeLease(t))

-----------------------------------------------------------------------------
(* Properties. *)

\* Two operations under the lease never overlap, from the handoff grace to the
\* last byte: whatever fails when an operation ends within the TTL, and although
\* a renewal, a release or an answer is lost when it lasts longer (withNodeLease).
SoleHolder ==
    \A p, q \in Proc :
        p # q => ~(pc[p] \in {"grace", "run"} /\ pc[q] \in {"grace", "run"})

\* "so a holder never loses it mid-flight" (the comment at TTL_SECONDS): while
\* an operation runs, the row carries its token and has not expired.
NeverLosesLease ==
    \A p \in Proc : pc[p] \in {"grace", "run"} => row = mine[p] /\ left > 0

\* A process that lost the lease can neither free nor replace its successor's:
\* a live lease leaves its holder's hands only when that holder releases it.
FencedStep ==
    \A p \in Proc :
        mine[p] # NoToken /\ mine[p] = row /\ left > 0 /\ pc[p] # "release"
            => row' = row
Fenced == [][FencedStep]_vars

\* No caller waits for ever: it gets the lease, is told the node is busy, or
\* runs unserialized.
EveryCallEnds == \A p \in Proc : pc[p] = "acquire" ~> pc[p] # "acquire"

=============================================================================
