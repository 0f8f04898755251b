---------------------------- MODULE NodeConnector ----------------------------
(***************************************************************************)
(* The ingest process's persistent connection to the station node          *)
(* (NodeRxConnector), the guarded operation of another process that makes  *)
(* it stand down, and the node, whose API server keeps one client and      *)
(* force-closes the previous one.                                          *)
(*                                                                         *)
(* The connector is one thread of callbacks: timers, socket events and the *)
(* continuations of its two queries. A step is one callback, up to its     *)
(* next await. A destroyed socket's 'close' event is delivered before any  *)
(* later callback. The backoff's length is left to time: a scheduled       *)
(* reconnect fires some time later.                                        *)
(***************************************************************************)
EXTENDS Integers, FiniteSets

CONSTANTS
    Sock,       \* sockets the connector may have at once
    NoSock,     \* this.socket === null
    Poll,       \* checkLease calls that may be in progress at once
    Nobody,     \* the node has no client
    Op,         \* the node's client is the guarded operation
    Env,        \* environment events this instance lets happen
    MaxFaults   \* bound on node outages, failed reads and clicks

EnvEvents == {"lease", "kick", "down", "vanish", "dberr", "stop"}

VARIABLES
    \* the connector's fields
    sock,       \* what each TCP socket of the connector is doing
    this,       \* this.socket
    connected, yielded, stopped,
    retry,      \* reconnectTimer is set
    dog,        \* watchdogTimer is set
    beat,       \* the socket the recorded heartbeatTimer writes to
    beats,      \* sockets some heartbeat interval still writes to
    poll,       \* where each checkLease call is
    \* the database
    lease,      \* node_lease is held by the operation
    kick,       \* a "connect now" newer than lastKickMs
    \* the operation and the node
    op, noticed, client, up,
    faults

connVars == <<sock, this, connected, yielded, stopped, retry, dog, beat, beats>>
nodeVars == <<op, noticed, client, up>>
vars     == <<connVars, poll, lease, kick, nodeVars, faults>>

SockState == {"free", "connecting", "open", "destroyed", "gone"}

\* Sockets, timers, polls and the node's client are well formed, and this.socket
\* never names a socket that is finished.
TypeOK ==
    /\ sock \in [Sock -> SockState]
    /\ this \in Sock \cup {NoSock} /\ beat \in Sock \cup {NoSock}
    /\ this # NoSock => sock[this] # "free"
    /\ beats \subseteq Sock
    /\ {connected, yielded, stopped, retry, dog, lease, kick, noticed, up} \subseteq BOOLEAN
    /\ poll \in [Poll -> {"idle", "kick", "read", "held", "free", "blind"}]
    /\ op \in {"none", "grace", "ready", "session"}
    /\ client \in Sock \cup {Nobody, Op}
    /\ faults \in Nat

\* start(): the poll timer runs and the first connection is under way.
Init ==
    /\ \E s \in Sock : /\ sock = [t \in Sock |-> IF t = s THEN "connecting" ELSE "free"]
                       /\ this = s
    /\ connected = FALSE /\ yielded = FALSE /\ stopped = FALSE
    /\ retry = FALSE /\ dog = FALSE /\ beat = NoSock /\ beats = {}
    /\ poll = [p \in Poll |-> "idle"]
    /\ lease = FALSE /\ kick = FALSE
    /\ op = "none" /\ noticed = FALSE /\ client = Nobody /\ up = TRUE
    /\ faults = 0

-----------------------------------------------------------------------------
Fault == faults < MaxFaults /\ faults' = faults + 1

\* No destroyed socket's 'close' event is waiting: the event loop is free.
Settled == \A s \in Sock : sock[s] # "destroyed"

\* connect(): one more socket, whatever becomes of the others.
Dial(s, from) ==
    /\ from[s] = "free"
    /\ sock' = [from EXCEPT ![s] = "connecting"]
    /\ this' = s

clearSocketTimers == dog' = FALSE /\ beat' = NoSock /\ beats' = beats \ {beat}

scheduleReconnect(y) == retry' = (retry \/ ~(stopped \/ y))

\* The reconnect timer: connect() does nothing once stopped or yielded.
RetryFires ==
    /\ Settled /\ retry
    /\ retry' = FALSE
    /\ IF stopped \/ yielded THEN UNCHANGED <<sock, this>>
                             ELSE \E s \in Sock : Dial(s, sock)
    /\ UNCHANGED <<connected, yielded, stopped, dog, beat, beats, poll, lease,
                   kick, nodeVars, faults>>

\* The node takes a new client and force-closes the one it had. A socket of
\* ours then runs its 'connect' handler.
Evict(from) ==
    IF client \in Sock /\ from[client] = "open"
      THEN [from EXCEPT ![client] = "gone"] ELSE from

NodeAccepts(s) ==
    /\ Settled /\ up /\ sock[s] = "connecting"
    /\ sock' = [Evict(sock) EXCEPT ![s] = "open"]
    /\ client' = s
    /\ op' = IF client = Op THEN "ready" ELSE op
    /\ connected' = TRUE /\ dog' = TRUE /\ beat' = s /\ beats' = beats \cup {s}
    /\ UNCHANGED <<this, yielded, stopped, retry, poll, lease, kick, noticed, up,
                   faults>>

\* The connect fails: 'error', then 'close'.
ConnectFails(s) ==
    /\ Settled /\ ~up /\ sock[s] = "connecting"
    /\ sock' = [sock EXCEPT ![s] = "gone"]
    /\ connected' = FALSE
    /\ UNCHANGED <<this, yielded, stopped, retry, dog, beat, beats, poll, lease,
                   kick, nodeVars, faults>>

Close_KeepsBeat(s) ==
    /\ sock[s] = "destroyed" \/ (Settled /\ sock[s] = "gone")
    /\ sock' = [sock EXCEPT ![s] = "free"]
    /\ this' = IF this = s THEN NoSock ELSE this
    /\ client' = IF client = s THEN Nobody ELSE client
    /\ connected' = FALSE
    /\ scheduleReconnect(yielded)
    /\ UNCHANGED <<dog, beat, beats, yielded, stopped, poll, lease, kick, op,
                   noticed, up, faults>>

\* The 'close' handler. The timers it clears and the flag it resets are the
\* connector's, whichever socket they belong to.
Close(s) ==
    /\ sock[s] = "destroyed" \/ (Settled /\ sock[s] = "gone")
    /\ sock' = [sock EXCEPT ![s] = "free"]
    /\ this' = IF this = s THEN NoSock ELSE this
    /\ client' = IF client = s THEN Nobody ELSE client
    /\ connected' = FALSE
    /\ clearSocketTimers
    /\ scheduleReconnect(yielded)
    /\ UNCHANGED <<yielded, stopped, poll, lease, kick, op, noticed, up, faults>>

\* Any frame on an open socket re-arms the watchdog.
onData(s) ==
    /\ Settled /\ sock[s] = "open" /\ client = s /\ ~dog
    /\ dog' = TRUE
    /\ UNCHANGED <<sock, this, connected, yielded, stopped, retry, beat, beats,
                   poll, lease, kick, nodeVars, faults>>

\* What takes minutes (the watchdog, the node's idle timeout) happens only when
\* nothing that takes seconds is outstanding.
Slow == Settled /\ ~retry /\ \A s \in Sock : sock[s] \in {"free", "open"}

\* No frame for WATCHDOG_MS. A node that receives our heartbeats answers them.
WatchdogFires ==
    /\ Slow /\ dog /\ client \notin beats
    /\ dog' = FALSE
    /\ sock' = IF this # NoSock THEN [sock EXCEPT ![this] = "destroyed"] ELSE sock
    /\ UNCHANGED <<this, connected, yielded, stopped, retry, beat, beats, poll,
                   lease, kick, nodeVars, faults>>

\* destroy() of this.socket, with its timers, from outside a socket event.
Destroy == IF this = NoSock THEN sock ELSE [sock EXCEPT ![this] = "destroyed"]

DropTimers ==
    IF this = NoSock THEN UNCHANGED <<dog, beat, beats>> ELSE clearSocketTimers

stop ==
    /\ "stop" \in Env
    /\ Settled /\ ~stopped
    /\ stopped' = TRUE /\ retry' = FALSE /\ connected' = FALSE
    /\ clearSocketTimers
    /\ sock' = Destroy /\ this' = NoSock
    /\ UNCHANGED <<yielded, poll, lease, kick, nodeVars, faults>>

-----------------------------------------------------------------------------
(* checkLease(), on its one-second interval. A call does not wait for the   *)
(* previous one to finish.                                                  *)

PollTick(p) ==
    /\ Settled /\ ~stopped /\ poll[p] = "idle"
    /\ poll' = [poll EXCEPT ![p] = "kick"]
    /\ UNCHANGED <<connVars, lease, kick, nodeVars, faults>>

reconnectNow ==
    IF stopped \/ yielded THEN UNCHANGED connVars
    ELSE /\ retry' = FALSE
         /\ connected' = FALSE
         /\ DropTimers
         /\ \E s \in Sock : Dial(s, Destroy)
         /\ UNCHANGED <<yielded, stopped>>

\* The answer about service_control; an error only postpones the click.
KickAnswered(p) ==
    /\ Settled /\ poll[p] = "kick"
    /\ poll' = [poll EXCEPT ![p] = "read"]
    /\ \/ /\ kick /\ kick' = FALSE
          /\ reconnectNow
          /\ UNCHANGED faults
       \/ /\ ~kick
          /\ UNCHANGED <<connVars, kick, faults>>
       \/ /\ "dberr" \in Env /\ Fault /\ kick
          /\ UNCHANGED <<connVars, kick>>
    /\ UNCHANGED <<lease, nodeVars>>

\* nodeLeaseHolder() looks at the row; an error reads as free ("blind" when it
\* hid a holder).
nodeLeaseHolder(p) ==
    /\ poll[p] = "read"
    /\ \/ poll' = [poll EXCEPT ![p] = IF lease THEN "held" ELSE "free"] /\ UNCHANGED faults
       \/ "dberr" \in Env /\ Fault
          /\ poll' = [poll EXCEPT ![p] = IF lease THEN "blind" ELSE "free"]
    /\ UNCHANGED <<connVars, lease, kick, nodeVars>>

Answered(p) ==
    /\ poll' = [poll EXCEPT ![p] = "idle"]
    /\ noticed' = (noticed \/ poll[p] \in {"held", "blind"})
    /\ UNCHANGED <<lease, kick, op, client, up, faults>>

\* Closes an established connection only.
StandDown_OnlyConnected(p) ==
    /\ Settled /\ poll[p] = "held"
    /\ yielded' = TRUE /\ retry' = FALSE /\ connected' = FALSE
    /\ DropTimers
    /\ sock' = (IF connected THEN Destroy ELSE sock) /\ this' = NoSock
    /\ UNCHANGED stopped
    /\ Answered(p)

\* Held: close the socket and do not come back while it is.
StandDown(p) ==
    /\ Settled /\ poll[p] = "held"
    /\ yielded' = TRUE /\ retry' = FALSE /\ connected' = FALSE
    /\ DropTimers
    /\ sock' = Destroy /\ this' = NoSock
    /\ UNCHANGED stopped
    /\ Answered(p)

\* Free: a yielded connector comes back.
Resume(p) ==
    /\ Settled /\ poll[p] \in {"free", "blind"}
    /\ yielded' = FALSE
    /\ IF yielded /\ this = NoSock THEN scheduleReconnect(FALSE) ELSE UNCHANGED retry
    /\ UNCHANGED <<sock, this, connected, stopped, dog, beat, beats>>
    /\ Answered(p)

checkLease(p) ==
    PollTick(p) \/ KickAnswered(p) \/ nodeLeaseHolder(p) \/ StandDown(p) \/ Resume(p)

-----------------------------------------------------------------------------
(* The guarded operation of another process (withNodeLease). Its grace      *)
(* period exceeds the poll interval: a whole poll that read the row after   *)
(* the acquire has been answered by the time it ends.                       *)

OpAcquires ==
    /\ "lease" \in Env
    /\ op = "none"
    /\ op' = "grace" /\ lease' = TRUE /\ noticed' = FALSE
    /\ poll' = [p \in Poll |-> IF poll[p] = "blind" THEN "free" ELSE poll[p]]
    /\ UNCHANGED <<connVars, kick, client, up, faults>>

GraceOver_Early ==
    /\ op = "grace"
    /\ op' = "ready"
    /\ UNCHANGED <<connVars, poll, lease, kick, noticed, client, up, faults>>

GraceOver ==
    /\ op = "grace" /\ (noticed \/ stopped)
    /\ op' = "ready"
    /\ UNCHANGED <<connVars, poll, lease, kick, noticed, client, up, faults>>

\* The operation connects, and connects again after it was evicted.
OpConnects ==
    /\ op = "ready" /\ up
    /\ op' = "session" /\ client' = Op
    /\ sock' = Evict(sock)
    /\ UNCHANGED <<this, connected, yielded, stopped, retry, dog, beat, beats,
                   poll, lease, kick, noticed, up, faults>>

\* It closes, having finished or given up, and releases the lease.
OpEnds ==
    /\ op \in {"ready", "session"}
    /\ op' = "none" /\ lease' = FALSE
    /\ client' = IF client = Op THEN Nobody ELSE client
    /\ UNCHANGED <<connVars, poll, kick, noticed, up, faults>>

-----------------------------------------------------------------------------
(* The rest of the environment. *)

requestNodeReconnect ==
    /\ "kick" \in Env
    /\ ~kick /\ faults < MaxFaults
    /\ kick' = TRUE /\ faults' = faults + 1
    /\ UNCHANGED <<connVars, poll, lease, nodeVars>>

\* The node reboots or drops off; its client is told (down) or not (vanish).
NodeDown ==
    /\ \/ "down" \in Env /\ sock' = Evict(sock)
       \/ "vanish" \in Env /\ UNCHANGED sock
    /\ up /\ Fault
    /\ up' = FALSE /\ client' = Nobody
    /\ op' = IF client = Op THEN "ready" ELSE op
    /\ UNCHANGED <<this, connected, yielded, stopped, retry, dog, beat, beats,
                   poll, lease, kick, noticed>>

NodeUp ==
    /\ ~up
    /\ up' = TRUE
    /\ UNCHANGED <<connVars, poll, lease, kick, op, noticed, client, faults>>

\* TCP_IDLE_TIMEOUT_MS: a client that never speaks is dropped.
NodeDropsIdle(s) ==
    /\ Slow /\ client = s /\ s \notin beats
    /\ sock' = [sock EXCEPT ![s] = "gone"]
    /\ client' = Nobody
    /\ UNCHANGED <<this, connected, yielded, stopped, retry, dog, beat, beats,
                   poll, lease, kick, op, noticed, up, faults>>

-----------------------------------------------------------------------------
Connector ==
    \/ RetryFires \/ WatchdogFires \/ stop
    \/ \E s \in Sock : NodeAccepts(s) \/ ConnectFails(s) \/ Close(s) \/ onData(s)
    \/ \E p \in Poll : checkLease(p)

Outside ==
    \/ OpAcquires \/ GraceOver \/ OpConnects \/ OpEnds
    \/ requestNodeReconnect \/ NodeDown \/ NodeUp
    \/ \E s \in Sock : NodeDropsIdle(s)

Next == Connector \/ Outside

Spec == Init /\ [][Next]_vars

\* Timers fire, events are delivered, queries are answered, an operation ends
\* and a node that is down comes back. Nobody owes a lease, a click or a fault.
FairSpec ==
    /\ Spec
    /\ WF_vars(RetryFires) /\ WF_vars(WatchdogFires)
    /\ WF_vars(GraceOver) /\ WF_vars(OpEnds) /\ WF_vars(NodeUp)
    /\ \A s \in Sock : /\ WF_vars(NodeAccepts(s)) /\ WF_vars(ConnectFails(s))
                       /\ WF_vars(Close(s)) /\ WF_vars(NodeDropsIdle(s))
    /\ \A p \in Poll : WF_vars(checkLease(p))

-----------------------------------------------------------------------------
(* Properties. *)

\* While it has yielded, the connector keeps no socket and plans no return.
StandsDown ==
    Settled /\ yielded =>
        ~retry /\ \A s \in Sock : sock[s] \notin {"connecting", "open"}

\* The fight the lease exists to prevent: nobody takes the node's only session
\* from an operation that holds the lease, except an outage of the node.
Undisturbed == op = "session" /\ op' = "ready" => ~up'
HolderUndisturbed == [][Undisturbed]_vars

\* A link shown connected is watched: a dead one is found and a live one beats.
LinkWatched == Settled /\ connected => dog /\ beat # NoSock

\* No heartbeat interval outlives its socket's turn as the recorded one.
NoLeakedBeat == beats \subseteq {beat}

\* After stop() nothing of the connector stays or comes back, whatever query
\* was in flight.
StopIsFinal ==
    Settled /\ stopped =>
        ~retry /\ \A s \in Sock : sock[s] \notin {"connecting", "open"}

\* Through outages, silent deaths, yields and clicks, a connector that is not
\* stopped has the node's session again and again, and does not merely think so.
Linked == connected /\ client \in Sock
KeepsComingBack == <>[](~stopped /\ ~lease) => []<>Linked

\* Once nobody wants the node and it stays reachable, the stream stays up.
StaysConnected ==
    <>[](~stopped /\ ~lease /\ up) => <>[]Linked

=============================================================================
