----------------------------- MODULE NodeProofs ------------------------------
(***************************************************************************)
(* The receiver and the holder of the lease, for every set of sockets and  *)
(* polls and every number of faults, as long as nobody clicks "connect     *)
(* now": the click is what breaks the receiver's bookkeeping.  Then the    *)
(* session on the node, for every configuration, number of attempts and    *)
(* number of faults.                                                       *)
(***************************************************************************)
EXTENDS MCNode, SequenceTheorems, FiniteSetTheorems, TLAPS

\* The tags of the model are told apart.
Tags == NoSock \notin Sock /\ Nobody \notin Sock /\ Op \notin Sock /\ Nobody # Op

\* Nobody clicks "connect now".
Clickless == "kick" \notin YieldEnv

\* The holder of the lease has been seen: no read of it fails, and a poll is
\* answered before the next one begins.
Seen == "dberr" \notin YieldEnv /\ \A p, q \in Poll : p = q

-----------------------------------------------------------------------------
(* The inductive invariant.                                                *)

\* The connector has at most one socket; one that it no longer names has been
\* destroyed and waits for its 'close' event.
OneSocket ==
    /\ \A s \in Sock : sock[s] # "free" =>
          s = this \/ (this = NoSock /\ sock[s] = "destroyed")
    /\ \A s, t \in Sock : sock[s] # "free" /\ sock[t] # "free" => s = t
    /\ this # NoSock => sock[this] # "free"

\* A return is planned only when the last socket is gone, and never once the
\* connector was stopped or has yielded.
Planned ==
    /\ retry => \A s \in Sock : sock[s] = "free"
    /\ yielded \/ stopped => this = NoSock /\ ~retry

\* The timers and the flag belong to this.socket, which has been open.
Timers ==
    /\ beats \subseteq {beat}
    /\ this = NoSock \/ sock[this] = "connecting" => ~connected /\ ~dog /\ beats = {}
    /\ connected => beat # NoSock /\ (dog \/ sock[this] = "destroyed")

\* The node's client is the socket that is open, or was a moment ago.
ClientLives == client \in Sock => sock[client] \in {"open", "destroyed"}

ConnInv == Yield!TypeOK /\ ~kick /\ OneSocket /\ Planned /\ Timers /\ ClientLives

\* The operation goes ahead only after the receiver was told, and a receiver that
\* was told stays away until the lease is released.
Told ==
    /\ \A p \in Poll : poll[p] # "blind"
    /\ lease = (op # "none")
    /\ client = Op => op = "session"
    /\ op \in {"ready", "session"} => noticed \/ stopped
    /\ noticed /\ op # "none" => yielded /\ \A p \in Poll : poll[p] # "free"

LEMMA ConnInit ==
    ASSUME Tags, Yield!Init PROVE ConnInv /\ Told
<1> PICK s \in Sock : /\ sock = [t \in Sock |-> IF t = s THEN "connecting" ELSE "free"]
                      /\ this = s
  BY DEF Yield!Init
<1>1. Yield!TypeOK
  BY DEF Yield!Init, Yield!TypeOK, Yield!SockState
<1>2. OneSocket /\ Planned /\ Timers /\ ClientLives /\ ~kick
  BY DEF Yield!Init, Tags, OneSocket, Planned, Timers, ClientLives
<1>3. Told
  BY DEF Yield!Init, Tags, Told
<1> QED
  BY <1>1, <1>2, <1>3 DEF ConnInv

\* The connector's own callbacks.
LEMMA ConnectorKeeps ==
    ASSUME Tags, Clickless, ConnInv, Yield!Connector PROVE ConnInv'
<1> USE DEF ConnInv, Yield!TypeOK, Yield!SockState, OneSocket, Planned, Timers, ClientLives
<1>1. CASE Yield!RetryFires
  <2>1. Yield!TypeOK'
    <3>1. /\ sock' \in [Sock -> Yield!SockState] /\ this' \in Sock \cup {NoSock}
          /\ this' # NoSock => sock'[this'] # "free"
      BY <1>1 DEF Yield!RetryFires, Yield!Dial, Tags
    <3> QED
      BY <1>1, <3>1 DEF Yield!RetryFires, Yield!nodeVars
  <2>2. OneSocket'
    BY <1>1 DEF Yield!RetryFires, Yield!Dial, Yield!nodeVars, Tags
  <2>3. Planned'
    BY <1>1 DEF Yield!RetryFires, Yield!Dial, Yield!nodeVars, Tags
  <2>4. Timers'
    BY <1>1 DEF Yield!RetryFires, Yield!Dial, Yield!nodeVars, Tags
  <2>5. ClientLives' /\ ~kick'
    BY <1>1 DEF Yield!RetryFires, Yield!Dial, Yield!nodeVars, Tags
  <2> QED
    BY <2>1, <2>2, <2>3, <2>4, <2>5
<1>2. CASE Yield!WatchdogFires
  <2>1. Yield!TypeOK'
    BY <1>2 DEF Yield!WatchdogFires, Yield!Slow, Yield!Settled, Yield!nodeVars, Tags
  <2>2. OneSocket'
    BY <1>2 DEF Yield!WatchdogFires, Yield!Slow, Yield!Settled, Yield!nodeVars, Tags
  <2>3. Planned'
    BY <1>2 DEF Yield!WatchdogFires, Yield!Slow, Yield!Settled, Yield!nodeVars, Tags
  <2>4. Timers'
    BY <1>2 DEF Yield!WatchdogFires, Yield!Slow, Yield!Settled, Yield!nodeVars, Tags
  <2>5. ClientLives' /\ ~kick'
    BY <1>2 DEF Yield!WatchdogFires, Yield!Slow, Yield!Settled, Yield!nodeVars, Tags
  <2> QED
    BY <2>1, <2>2, <2>3, <2>4, <2>5
<1>3. CASE Yield!stop
  BY <1>3 DEF Yield!stop, Yield!Destroy, Yield!clearSocketTimers, Yield!Settled, Yield!nodeVars, Tags
<1>4. ASSUME NEW s \in Sock, Yield!NodeAccepts(s) PROVE ConnInv'
  BY <1>4 DEF Yield!NodeAccepts, Yield!Evict, Yield!Settled, Yield!nodeVars, Tags
<1>5. ASSUME NEW s \in Sock, Yield!ConnectFails(s) PROVE ConnInv'
  BY <1>5 DEF Yield!ConnectFails, Yield!Settled, Yield!nodeVars, Tags
<1>6. ASSUME NEW s \in Sock, Yield!Close(s) PROVE ConnInv'
  <2>1. Yield!TypeOK'
    BY <1>6 DEF Yield!Close, Yield!clearSocketTimers, Yield!scheduleReconnect, Tags
  <2>2. OneSocket'
    BY <1>6 DEF Yield!Close, Yield!clearSocketTimers, Yield!scheduleReconnect, Tags
  <2>3. Planned'
    BY <1>6 DEF Yield!Close, Yield!clearSocketTimers, Yield!scheduleReconnect, Tags
  <2>4. Timers'
    BY <1>6 DEF Yield!Close, Yield!clearSocketTimers, Yield!scheduleReconnect, Tags
  <2>5. ClientLives' /\ ~kick'
    BY <1>6 DEF Yield!Close, Yield!clearSocketTimers, Yield!scheduleReconnect, Tags
  <2> QED
    BY <2>1, <2>2, <2>3, <2>4, <2>5
<1>7. ASSUME NEW s \in Sock, Yield!onData(s) PROVE ConnInv'
  BY <1>7 DEF Yield!onData, Yield!nodeVars, Tags
<1>8. ASSUME NEW p \in Poll, Yield!checkLease(p) PROVE ConnInv'
  <2>1. CASE Yield!PollTick(p)
    BY <2>1 DEF Yield!PollTick, Yield!connVars, Yield!nodeVars
  <2>2. CASE Yield!KickAnswered(p)
    BY <2>2 DEF Yield!KickAnswered, Yield!Fault, Yield!connVars, Yield!nodeVars
  <2>3. CASE Yield!nodeLeaseHolder(p)
    BY <2>3 DEF Yield!nodeLeaseHolder, Yield!Fault, Yield!connVars, Yield!nodeVars
  <2>4. CASE Yield!StandDown(p)
    BY <2>4 DEF Yield!StandDown, Yield!DropTimers, Yield!Destroy, Yield!clearSocketTimers, Yield!Answered, Yield!Settled, Tags
  <2>5. CASE Yield!Resume(p)
    <3>1. Yield!TypeOK'
      BY <2>5 DEF Yield!Resume, Yield!scheduleReconnect, Yield!Answered, Yield!Settled
    <3>2. OneSocket'
      BY <2>5 DEF Yield!Resume, Yield!scheduleReconnect, Yield!Answered, Yield!Settled
    <3>3. Planned'
      <4>1. UNCHANGED <<sock, this, stopped>> /\ yielded' = FALSE
        BY <2>5 DEF Yield!Resume
      <4>2. CASE yielded /\ this = NoSock
        <5>1. \A s \in Sock : sock[s] = "free"
          BY <2>5, <4>2 DEF Yield!Resume, Yield!Settled, Tags
        <5>2. stopped => ~retry'
          BY <2>5, <4>2 DEF Yield!Resume, Yield!scheduleReconnect
        <5> QED
          BY <4>1, <5>1, <5>2
      <4>3. CASE ~(yielded /\ this = NoSock)
        <5>1. retry' = retry
          BY <2>5, <4>3 DEF Yield!Resume
        <5> QED
          BY <4>1, <5>1
      <4> QED
        BY <4>2, <4>3
    <3>4. Timers'
      BY <2>5 DEF Yield!Resume, Yield!scheduleReconnect, Yield!Answered, Yield!Settled
    <3>5. ClientLives' /\ ~kick'
      BY <2>5 DEF Yield!Resume, Yield!scheduleReconnect, Yield!Answered, Yield!Settled
    <3> QED
      BY <3>1, <3>2, <3>3, <3>4, <3>5
  <2> QED
    BY <1>8, <2>1, <2>2, <2>3, <2>4, <2>5 DEF Yield!checkLease
<1> QED
  BY <1>1, <1>2, <1>3, <1>4, <1>5, <1>6, <1>7, <1>8 DEF Yield!Connector

\* The operation, the node and the faults.
LEMMA OutsideKeeps ==
    ASSUME Tags, Clickless, ConnInv, Yield!Outside PROVE ConnInv'
<1> USE DEF ConnInv, Yield!TypeOK, Yield!SockState, OneSocket, Planned, Timers, ClientLives
<1>1. CASE Yield!OpAcquires \/ Yield!GraceOver \/ Yield!NodeUp
  <2>1. Yield!TypeOK'
    BY <1>1 DEF Yield!OpAcquires, Yield!GraceOver, Yield!NodeUp, Yield!connVars
  <2>2. OneSocket'
    BY <1>1 DEF Yield!OpAcquires, Yield!GraceOver, Yield!NodeUp, Yield!connVars
  <2>3. Planned'
    BY <1>1 DEF Yield!OpAcquires, Yield!GraceOver, Yield!NodeUp, Yield!connVars
  <2>4. Timers'
    BY <1>1 DEF Yield!OpAcquires, Yield!GraceOver, Yield!NodeUp, Yield!connVars
  <2>5. ClientLives' /\ ~kick'
    BY <1>1 DEF Yield!OpAcquires, Yield!GraceOver, Yield!NodeUp, Yield!connVars
  <2> QED
    BY <2>1, <2>2, <2>3, <2>4, <2>5
<1>2. CASE Yield!OpConnects
  BY <1>2 DEF Yield!OpConnects, Yield!Evict, Tags
<1>3. CASE Yield!OpEnds
  BY <1>3 DEF Yield!OpEnds, Yield!connVars, Tags
<1>4. CASE Yield!requestNodeReconnect
  BY <1>4 DEF Yield!requestNodeReconnect, Clickless
<1>5. CASE Yield!NodeDown
  <2>1. Yield!TypeOK'
    <3>1. /\ sock' \in [Sock -> Yield!SockState]
          /\ this # NoSock => sock'[this] # "free"
      BY <1>5 DEF Yield!NodeDown, Yield!Evict, Tags
    <3>2. /\ UNCHANGED <<this, connected, yielded, stopped, retry, dog, beat, beats,
                        poll, lease, kick, noticed>>
          /\ up' = FALSE /\ client' = Nobody /\ op' \in {"ready", op}
          /\ mishaps' = mishaps + 1
      BY <1>5 DEF Yield!NodeDown, Yield!Fault
    <3>3. {connected, yielded, stopped, retry, dog, lease, kick, noticed, up}' \subseteq BOOLEAN
      BY <3>2
    <3>4. /\ this' \in Sock \cup {NoSock} /\ beat' \in Sock \cup {NoSock}
          /\ this' # NoSock => sock'[this'] # "free"
          /\ beats' \subseteq Sock
          /\ poll' \in [Poll -> {"idle", "kick", "read", "held", "free", "blind"}]
      BY <3>1, <3>2
    <3>5. op' \in {"none", "grace", "ready", "session"} /\ mishaps' \in Nat
      BY <3>2
    <3> QED
      BY <3>1, <3>2, <3>3, <3>4, <3>5
  <2>2. OneSocket'
    BY <1>5 DEF Yield!NodeDown, Yield!Evict, Yield!Fault, Tags
  <2>3. Planned'
    BY <1>5 DEF Yield!NodeDown, Yield!Evict, Yield!Fault, Tags
  <2>4. Timers'
    BY <1>5 DEF Yield!NodeDown, Yield!Evict, Yield!Fault, Tags
  <2>5. ClientLives' /\ ~kick'
    BY <1>5 DEF Yield!NodeDown, Yield!Evict, Yield!Fault, Tags
  <2> QED
    BY <2>1, <2>2, <2>3, <2>4, <2>5
<1>6. ASSUME NEW s \in Sock, Yield!NodeDropsIdle(s) PROVE ConnInv'
  BY <1>6 DEF Yield!NodeDropsIdle, Yield!Slow, Yield!Settled, Tags
<1> QED
  BY <1>1, <1>2, <1>3, <1>4, <1>5, <1>6 DEF Yield!Outside

LEMMA ConnInvariant == Tags /\ Clickless => (Yield!Spec => []ConnInv)
<1> SUFFICES ASSUME Tags, Clickless PROVE Yield!Spec => []ConnInv
  OBVIOUS
<1>1. ConnInv /\ [Yield!Next]_Yield!vars => ConnInv'
  <2>1. CASE UNCHANGED Yield!vars
    BY <2>1 DEF Yield!vars, Yield!connVars, Yield!nodeVars, ConnInv, Yield!TypeOK, OneSocket, Planned, Timers,
                ClientLives
  <2> QED
    BY <2>1, ConnectorKeeps, OutsideKeeps DEF Yield!Next
<1> QED
  BY <1>1, ConnInit, PTL DEF Yield!Spec

-----------------------------------------------------------------------------
(* The receiver stands down.                                               *)

\* With no click, a receiver that has yielded holds no socket and plans no return,
\* and nothing comes back of one that was stopped, whatever its queries were
\* doing, whatever the node did (NodeRxConnector.checkLease, stop).
THEOREM ReceiverStandsDown ==
    Tags /\ Clickless => (Yield!Spec => [](Yield!StandsDown /\ Yield!StopIsFinal))
<1> SUFFICES ASSUME Tags, Clickless PROVE Yield!Spec => [](Yield!StandsDown /\ Yield!StopIsFinal)
  OBVIOUS
<1>1. ConnInv => Yield!StandsDown /\ Yield!StopIsFinal
  BY DEF ConnInv, Yield!TypeOK, Yield!SockState, OneSocket, Planned, Yield!StandsDown, Yield!StopIsFinal,
         Yield!Settled, Tags
<1> QED
  BY <1>1, ConnInvariant, PTL

\* With no click, a link that is shown connected has its watchdog armed and its
\* heartbeat running, and one heartbeat only: the timers that the 'close' handler
\* clears are always those of the socket that closed.
THEOREM ReceiverLinkWatched ==
    Tags /\ Clickless => (Yield!Spec => [](Yield!TypeOK /\ Yield!LinkWatched /\ Yield!NoLeakedBeat))
<1> SUFFICES ASSUME Tags, Clickless PROVE Yield!Spec => [](Yield!TypeOK /\ Yield!LinkWatched /\ Yield!NoLeakedBeat)
  OBVIOUS
<1>1. ConnInv => Yield!TypeOK /\ Yield!LinkWatched /\ Yield!NoLeakedBeat
  BY DEF ConnInv, Yield!TypeOK, Timers, Yield!LinkWatched, Yield!NoLeakedBeat, Yield!Settled
<1> QED
  BY <1>1, ConnInvariant, PTL

-----------------------------------------------------------------------------
(* The holder of the lease.                                                *)

LEMMA ToldStep ==
    ASSUME Tags, Clickless, Seen, ConnInv, Told, [Yield!Next]_Yield!vars PROVE Told'
<1> USE DEF ConnInv, Yield!TypeOK
<1>1. CASE Yield!RetryFires \/ Yield!WatchdogFires \/ Yield!stop
  BY <1>1 DEF Yield!RetryFires, Yield!WatchdogFires, Yield!stop, Yield!nodeVars, Told, Planned
<1>2. ASSUME NEW s \in Sock, Yield!NodeAccepts(s) PROVE Told'
  <2>1. this = s /\ ~yielded /\ ~stopped
    BY <1>2 DEF Yield!NodeAccepts, OneSocket, Planned, Tags
  <2>2. client # Op
    BY <2>1 DEF Told
  <2> QED
    BY <1>2, <2>1, <2>2 DEF Yield!NodeAccepts, Told, Tags
<1>3. ASSUME NEW s \in Sock, Yield!ConnectFails(s) \/ Yield!Close(s) \/ Yield!onData(s) PROVE Told'
  BY <1>3 DEF Yield!ConnectFails, Yield!Close, Yield!onData, Yield!nodeVars, Told, Tags
<1>4. ASSUME NEW p \in Poll, Yield!checkLease(p) PROVE Told'
  <2>a. \A q \in Poll : q = p
    BY DEF Seen
  <2>1. CASE Yield!PollTick(p)
    BY <2>a, <2>1 DEF Yield!PollTick, Yield!connVars, Yield!nodeVars, Told
  <2>2. CASE Yield!KickAnswered(p)
    BY <2>a, <2>2 DEF Yield!KickAnswered, Yield!connVars, Yield!nodeVars, Told
  <2>3. CASE Yield!nodeLeaseHolder(p)
    BY <2>a, <2>3 DEF Yield!nodeLeaseHolder, Seen, Yield!connVars, Yield!nodeVars, Told
  <2>4. CASE Yield!StandDown(p)
    BY <2>a, <2>4 DEF Yield!StandDown, Yield!Answered, Told
  <2>5. CASE Yield!Resume(p)
    <3>1. poll[p] = "free" /\ ~(noticed /\ op # "none")
      BY <2>5 DEF Yield!Resume, Told
    <3> QED
      BY <2>a, <2>5, <3>1 DEF Yield!Resume, Yield!Answered, Told
  <2> QED
    BY <1>4, <2>1, <2>2, <2>3, <2>4, <2>5 DEF Yield!checkLease
<1>5. CASE Yield!OpAcquires
  BY <1>5 DEF Yield!OpAcquires, Yield!connVars, Told
<1>6. CASE Yield!GraceOver \/ Yield!OpConnects \/ Yield!OpEnds
  <2>1. CASE Yield!GraceOver
    BY <2>1 DEF Yield!GraceOver, Yield!connVars, Told
  <2>2. CASE Yield!OpConnects
    BY <2>2 DEF Yield!OpConnects, Told
  <2>3. CASE Yield!OpEnds
    BY <2>3 DEF Yield!OpEnds, Yield!connVars, Told, Tags
  <2> QED
    BY <1>6, <2>1, <2>2, <2>3
<1>7. CASE Yield!requestNodeReconnect \/ Yield!NodeDown \/ Yield!NodeUp
  BY <1>7 DEF Yield!requestNodeReconnect, Clickless, Yield!NodeDown, Yield!NodeUp, Yield!connVars, Told, Tags
<1>8. ASSUME NEW s \in Sock, Yield!NodeDropsIdle(s) PROVE Told'
  BY <1>8 DEF Yield!NodeDropsIdle, Told, Tags
<1>9. CASE UNCHANGED Yield!vars
  BY <1>9 DEF Yield!vars, Yield!connVars, Yield!nodeVars, Told
<1> QED
  BY <1>1, <1>2, <1>3, <1>4, <1>5, <1>6, <1>7, <1>8, <1>9 DEF Yield!Next, Yield!Connector, Yield!Outside

LEMMA NobodyTakesIt ==
    ASSUME Tags, ConnInv, Told, [Yield!Next]_Yield!vars PROVE Yield!Undisturbed
<1> SUFFICES ASSUME op = "session", op' = "ready" PROVE ~up'
  BY DEF Yield!Undisturbed
<1>1. ASSUME NEW s \in Sock PROVE ~Yield!NodeAccepts(s)
  BY DEF Yield!NodeAccepts, ConnInv, OneSocket, Planned, Told, Tags
<1>2. ~Yield!Connector
  BY <1>1 DEF Yield!Connector, Yield!RetryFires, Yield!WatchdogFires, Yield!stop, Yield!ConnectFails, Yield!Close, Yield!onData,
         Yield!checkLease, Yield!PollTick, Yield!KickAnswered, Yield!nodeLeaseHolder, Yield!StandDown, Yield!Resume, Yield!Answered,
         Yield!nodeVars
<1>3. Yield!Outside => ~up'
  BY DEF Yield!Outside, Yield!OpAcquires, Yield!GraceOver, Yield!OpConnects, Yield!OpEnds, Yield!requestNodeReconnect,
         Yield!NodeDown, Yield!NodeUp, Yield!NodeDropsIdle, Yield!nodeVars
<1>4. op' # op
  OBVIOUS
<1> QED
  BY <1>2, <1>3, <1>4 DEF Yield!Next, Yield!vars, Yield!nodeVars

\* Nobody takes the node's only session from an operation that holds the lease,
\* except an outage of the node: its grace period covers a whole poll, and a
\* receiver that has seen the lease stays away until it is released. Reads of the
\* lease that fail, polls that overlap and "connect now" clicks are what this
\* rests on (withNodeLease, NodeRxConnector.checkLease).
THEOREM SessionUndisturbed ==
    Tags /\ Clickless /\ Seen => (Yield!Spec => Yield!HolderUndisturbed)
<1> SUFFICES ASSUME Tags, Clickless, Seen PROVE Yield!Spec => Yield!HolderUndisturbed
  OBVIOUS
<1>1. Yield!Init => Told
  BY ConnInit
<1>2. ConnInv /\ Told /\ [Yield!Next]_Yield!vars => Told'
  BY ToldStep
<1>3. ConnInv /\ Told /\ [Yield!Next]_Yield!vars => [Yield!Undisturbed]_Yield!vars
  BY NobodyTakesIt
<1> QED
  BY <1>1, <1>2, <1>3, ConnInvariant, PTL DEF Yield!Spec, Yield!HolderUndisturbed

-----------------------------------------------------------------------------
(* The sequences of the session: the dump, the frames of a batch.          *)

\* Enough of a configuration for the session to be about: finitely many sections,
\* none of them named like another answer of the node.
Configuration ==
    /\ IsFiniteSet(Section) /\ Section \intersect {"myInfo", "complete", "response"} = {}
    /\ Tries \in Nat \ {0} /\ Mishaps \in Nat

\* The frames on their way to the node, and what the node says.
Order == [cmd : {"want", "get", "begin", "commit", "reboot", "remove", "packet"},
          section : {"none"}, key : BOOLEAN]
         \union [cmd : {"set"}, section : Section, key : BOOLEAN]
Answer == Section \union {"myInfo", "complete", "response"}

ClientShape ==
    [phase : {"connect", "config", "passkey", "acting", "over"}, raws : SUBSET Section,
     sawId : BOOLEAN, flushed : BOOLEAN, handed : BOOLEAN,
     timers : SUBSET Session!Timer, socket : {"opening", "open", "gone"}]
NodeShape ==
    [keys : BOOLEAN, echoes : BOOLEAN, left : Seq(Answer), done : BOOLEAN,
     mute : BOOLEAN, edit : SUBSET Section, saved : SUBSET Section,
     acted : BOOLEAN, early : BOOLEAN]

SessionTypes ==
    /\ errand \in [kind : Session!Kind, ops : SUBSET (Section \union Unreported)]
    /\ client \in ClientShape
    /\ attempt \in 1..Tries
    /\ outcome \in [end : {"none", "ok", "error"},
                    why : {"none", "refused", "timeout", "closed", "socket"}]
    /\ outcome.end = "none" => outcome.why = "none"
    /\ node \in NodeShape
    /\ toNode \in Seq(Order) /\ fromNode \in Seq(Answer)
    /\ mishaps \in 0..Mishaps

\* The dump ends with "complete", and only then a packet is on its way; a request
\* for the dump is the first frame of a connection, before anything else happens.
Dumping ==
    /\ node.done => node.left = <<>>
    /\ \A i \in 1..Len(node.left) : node.left[i] = "complete" => i = Len(node.left)
    /\ \A i \in 1..Len(fromNode) : fromNode[i] = "complete" => node.done
    /\ \A i \in 1..Len(toNode) : toNode[i].cmd = "packet" => node.done
    /\ (\E i \in 1..Len(toNode) : toNode[i].cmd = "want") =>
         /\ Len(toNode) = 1 /\ node.left = <<>> /\ ~node.done /\ fromNode = <<>>
         /\ client.timers \subseteq {"long"} /\ client.phase \notin {"passkey", "acting"}
    /\ ~node.early

\* An attempt that waits for its connection has done nothing yet.
Opening == client.socket = "opening" => client = Session!Fresh

\* What was handed over, and when an errand may say so.
Handing ==
    /\ "linger" \in client.timers \/ client.flushed => client.handed
    /\ errand.kind \in {"write", "prune"} /\ client.phase = "acting" => client.handed
    /\ outcome.end = "ok" /\ errand.kind # "read" => client.handed

\* A write hands all of its frames over at once, or nothing.
Writing ==
    errand.kind = "write" =>
      /\ client.handed => client.phase \in {"acting", "over"}
      /\ ~client.handed => Session!Untouched
      /\ outcome.why \in {"refused", "timeout", "closed"} => ~client.handed

SessionInv == SessionTypes /\ Dumping /\ Opening /\ Handing /\ Writing

LEMMA SameSize == \A S : Session!Cardinality(S) = Cardinality(S)
  BY DEF Session!Cardinality, Cardinality

LEMMA OneElement ==
    ASSUME NEW S, NEW x \in S
    PROVE  <<x>> \in Seq(S) /\ Len(<<x>>) = 1 /\ <<x>>[1] = x
  OBVIOUS

\* A dump reports sections of the node and ends with "complete", if at all.
LEMMA DumpEnds ==
    ASSUME Configuration, NEW order \in Session!SetToSeqs(Section), SessionTypes
    PROVE  /\ Session!Dump(order) \in Seq(Answer)
           /\ \A i \in 1..Len(Session!Dump(order)) :
                Session!Dump(order)[i] = "complete" => i = Len(Session!Dump(order))
<1> DEFINE n == Cardinality(Section)
           first == <<"myInfo">>
           last == IF node.echoes THEN <<"complete">> ELSE <<>>
<1>1. n \in Nat /\ order \in [1..n -> Section]
  BY SameSize, FS_CardinalityType DEF Configuration, Session!SetToSeqs
<1>2. order \in Seq(Answer) /\ Len(order) = n /\ \A i \in 1..n : order[i] # "complete"
  BY <1>1 DEF Answer, Configuration
<1>3. first \in Seq(Answer) /\ Len(first) = 1 /\ first[1] # "complete"
  BY OneElement DEF Answer
<1>4. last \in Seq(Answer) /\ Len(last) <= 1 /\ Len(last) \in Nat
  <2>1. /\ <<"complete">> \in Seq(Answer) /\ Len(<<"complete">>) = 1
        /\ <<>> \in Seq(Answer) /\ Len(<<>>) = 0
    BY OneElement, EmptySeq DEF Answer
  <2> QED
    BY <2>1
<1> HIDE DEF n, first, last
<1>5. first \o order \in Seq(Answer) /\ Len(first \o order) = n + 1
      /\ \A i \in 1..(n + 1) : (first \o order)[i] # "complete"
  <2>1. \A i \in 1..(n + 1) :
          (first \o order)[i] = IF i <= 1 THEN first[i] ELSE order[i - 1]
    <3>1. \A i \in 1..(Len(first) + Len(order)) :
            (first \o order)[i] = IF i <= Len(first) THEN first[i] ELSE order[i - Len(first)]
      BY <1>2, <1>3, ConcatProperties
    <3>2. Len(first) + Len(order) = n + 1
      BY <1>1, <1>2, <1>3
    <3> QED
      BY <1>2, <1>3, <3>1, <3>2
  <2>2. ASSUME NEW i \in 1..(n + 1) PROVE (first \o order)[i] # "complete"
    <3>1. CASE i = 1
      BY <1>1, <1>3, <2>1, <3>1
    <3>2. CASE i # 1
      <4>1. i - 1 \in 1..n /\ ~(i <= 1)
        BY <1>1, <3>2
      <4>2. (first \o order)[i] = order[i - 1]
        BY <2>1, <4>1
      <4> QED
        BY <1>2, <4>1, <4>2
    <3> QED
      BY <3>1, <3>2
  <2> QED
    BY <1>1, <1>2, <1>3, <2>2, ConcatProperties
<1>6. /\ (first \o order) \o last \in Seq(Answer)
      /\ Len((first \o order) \o last) = n + 1 + Len(last)
      /\ \A i \in 1..(n + 1 + Len(last)) :
           ((first \o order) \o last)[i] =
             IF i <= n + 1 THEN (first \o order)[i] ELSE last[i - (n + 1)]
  BY <1>4, <1>5, ConcatProperties
<1>7. Session!Dump(order) = (first \o order) \o last
  BY DEF Session!Dump, first, last
<1> QED
  BY <1>1, <1>4, <1>5, <1>6, <1>7

\* Frames that are neither a request for the dump nor a packet.
Commands(s) ==
    s \in Seq(Order) /\ \A i \in 1..Len(s) : s[i].cmd \notin {"want", "packet"}

\* The frames of a write are commands, one for each of its sections.
LEMMA BatchCommands ==
    ASSUME Configuration, NEW ops \in SUBSET Section, NEW key \in BOOLEAN
    PROVE  Commands(Session!Batch(ops, key))
<1> DEFINE n == Cardinality(ops)
           begin == <<Session!Frame("begin", "none", key)>>
           commit == <<Session!Frame("commit", "none", key)>>
           sets == [i \in 1..n |-> Session!Frame("set", Session!SetToSeq(ops)[i], key)]
<1>1. Commands(begin) /\ Commands(commit)
      /\ Commands(<<Session!Frame("reboot", "none", key)>>)
  <2>1. ASSUME NEW c \in {"begin", "commit", "reboot"}
        PROVE  Commands(<<Session!Frame(c, "none", key)>>)
    <3> DEFINE f == Session!Frame(c, "none", key)
    <3>1. f \in Order /\ f.cmd \notin {"want", "packet"}
      BY DEF Session!Frame, Order
    <3> HIDE DEF f
    <3>2. Commands(<<f>>)
      BY <3>1, OneElement DEF Commands
    <3> QED
      BY <3>2 DEF f
  <2> QED
    BY <2>1
<1>2. Commands(sets)
  <2>1. n \in Nat /\ ExistsBijection(1..n, ops)
    BY FS_CardinalityType, FS_Subset DEF Configuration
  <2>2. \E f \in [1..n -> ops] : Session!IsInjective(f)
    BY <2>1 DEF ExistsBijection, Bijection, Injection, IsInjective, Session!IsInjective
  <2>3. Session!SetToSeq(ops) \in [1..n -> ops]
    BY <2>2, SameSize DEF Session!SetToSeq
  <2>4. \A i \in 1..n : Session!Frame("set", Session!SetToSeq(ops)[i], key) \in Order
    BY <2>3 DEF Session!Frame, Order
  <2>5. sets \in Seq(Order) /\ Len(sets) = n
    BY <2>1, <2>4
  <2>6. \A i \in 1..n : sets[i].cmd = "set"
    BY DEF Session!Frame
  <2> QED
    BY <2>5, <2>6 DEF Commands
<1>3. ASSUME NEW s, NEW t, Commands(s), Commands(t) PROVE Commands(s \o t)
  <2>1. /\ s \o t \in Seq(Order) /\ Len(s \o t) = Len(s) + Len(t)
        /\ Len(s) \in Nat /\ Len(t) \in Nat
        /\ \A i \in 1..(Len(s) + Len(t)) :
             (s \o t)[i] = IF i <= Len(s) THEN s[i] ELSE t[i - Len(s)]
    BY <1>3, ConcatProperties, LenProperties DEF Commands
  <2>2. ASSUME NEW i \in 1..(Len(s) + Len(t)) PROVE (s \o t)[i].cmd \notin {"want", "packet"}
    <3>1. CASE i <= Len(s)
      BY <1>3, <2>1, <3>1 DEF Commands
    <3>2. CASE i > Len(s)
      BY <1>3, <2>1, <3>2 DEF Commands
    <3> QED
      BY <2>1, <3>1, <3>2
  <2> QED
    BY <2>1, <2>2 DEF Commands
<1>4. Session!Cardinality(ops) = n
  BY SameSize
<1>5. Session!Batch(ops, key) = IF ops = {} THEN <<Session!Frame("reboot", "none", key)>>
                                ELSE begin \o sets \o commit
  BY <1>4 DEF Session!Batch
<1> HIDE DEF begin, sets, commit
<1> QED
  BY <1>1, <1>2, <1>3, <1>5

\* Frames that are added behind others, or taken from their front.
LEMMA FramesAdded ==
    ASSUME NEW S, NEW s \in Seq(S), NEW t \in Seq(S)
    PROVE  /\ s \o t \in Seq(S)
           /\ \A i \in 1..Len(s \o t) :
                \/ \E j \in 1..Len(s) : (s \o t)[i] = s[j]
                \/ \E j \in 1..Len(t) : (s \o t)[i] = t[j]
<1>1. /\ s \o t \in Seq(S) /\ Len(s \o t) = Len(s) + Len(t)
      /\ Len(s) \in Nat /\ Len(t) \in Nat
      /\ \A i \in 1..(Len(s) + Len(t)) :
           (s \o t)[i] = IF i <= Len(s) THEN s[i] ELSE t[i - Len(s)]
  BY ConcatProperties, LenProperties
<1>2. ASSUME NEW i \in 1..(Len(s) + Len(t))
      PROVE  \/ \E j \in 1..Len(s) : (s \o t)[i] = s[j]
             \/ \E j \in 1..Len(t) : (s \o t)[i] = t[j]
  <2>1. CASE i <= Len(s)
    BY <1>1, <2>1
  <2>2. CASE i > Len(s)
    <3>1. i - Len(s) \in 1..Len(t) /\ (s \o t)[i] = t[i - Len(s)]
      BY <1>1, <2>2
    <3> QED
      BY <3>1
  <2>3. i <= Len(s) \/ i > Len(s)
    BY <1>1
  <2> QED
    BY <2>1, <2>2, <2>3
<1> QED
  BY <1>1, <1>2

LEMMA FramesTaken ==
    ASSUME NEW S, NEW s \in Seq(S), s # <<>>
    PROVE  /\ Head(s) \in S /\ Head(s) = s[1] /\ Len(s) \in Nat \ {0}
           /\ Tail(s) \in Seq(S) /\ Len(Tail(s)) = Len(s) - 1
           /\ \A i \in 1..Len(Tail(s)) : Tail(s)[i] = s[i + 1] /\ i + 1 \in 1..Len(s)
           /\ Len(s) = 1 => Tail(s) = <<>>
<1>1. Len(s) \in Nat \ {0} /\ Head(s) = s[1]
  BY EmptySeq
<1>2. /\ Head(s) \in S /\ Tail(s) \in Seq(S) /\ Len(Tail(s)) = Len(s) - 1
      /\ \A i \in 1..Len(Tail(s)) : Tail(s)[i] = s[i + 1]
  BY HeadTailProperties
<1>3. Len(s) = 1 => Tail(s) = <<>>
  <2>1. Tail(s) # <<>> => Len(Tail(s)) \in Nat \ {0}
    BY <1>2, EmptySeq
  <2> QED
    BY <1>2, <2>1
<1> QED
  BY <1>1, <1>2, <1>3

-----------------------------------------------------------------------------
(* The session: every step keeps the invariant.                            *)

LEMMA SessionStart == ASSUME Configuration, Session!Init PROVE SessionInv
<1>1. SessionTypes
  BY EmptySeq DEF Configuration, Session!Init, Session!Fresh, SessionTypes, Session!Kind, ClientShape, NodeShape,
     Session!Timer
<1>2. Len(toNode) = 0 /\ Len(fromNode) = 0 /\ Len(node.left) = 0
  BY EmptySeq DEF Session!Init
<1>3. Dumping /\ Opening /\ Handing
  BY <1>2 DEF Session!Init, Session!Fresh, Dumping, Opening, Handing
<1>4. Writing
  BY <1>2, EmptySeq DEF Session!Init, Session!Fresh, Writing, Session!Untouched
<1> QED
  BY <1>1, <1>3, <1>4 DEF SessionInv

\* The wires are as they were, or cut.
Cut == \/ toNode' = toNode /\ node' = node
       \/ toNode' = <<>> /\ node' = [node EXCEPT !.left = <<>>]

\* done(): the attempt ends, and the errand with it unless it is tried again.
LEMMA DoneKeeps ==
    ASSUME Configuration, SessionInv, Session!Running, Cut,
           NEW end \in {"ok", "error"},
           NEW why \in {"none", "refused", "timeout", "closed", "socket"},
           Session!Done(end, why), UNCHANGED errand, mishaps' \in 0..Mishaps,
           end = "ok" => errand.kind = "read" \/ client.handed,
           why \in {"refused", "timeout", "closed"} => errand.kind # "write" \/ ~client.handed
    PROVE  SessionInv'
<1>t. SessionTypes /\ Dumping /\ Opening /\ Handing /\ Writing
  BY DEF SessionInv
<1>r. outcome.end = "none" /\ outcome.why = "none" /\ fromNode' = <<>>
  BY <1>t DEF Session!Running, Session!Done, SessionTypes
<1>1. /\ node' \in NodeShape
      /\ node'.done = node.done /\ node'.early = node.early
      /\ node'.left = node.left \/ node'.left = <<>>
      /\ node'.acted = node.acted /\ node'.edit = node.edit /\ node'.saved = node.saved
      /\ toNode' = toNode \/ toNode' = <<>>
      /\ toNode' \in Seq(Order) /\ fromNode' \in Seq(Answer)
  <2>1. <<>> \in Seq(Order) /\ <<>> \in Seq(Answer)
    BY EmptySeq
  <2>2. CASE toNode' = toNode /\ node' = node
    BY <1>t, <1>r, <2>1, <2>2 DEF SessionTypes
  <2>3. CASE toNode' = <<>> /\ node' = [node EXCEPT !.left = <<>>]
    BY <1>t, <1>r, <2>1, <2>3 DEF SessionTypes, ClientShape, NodeShape
  <2> QED
    BY <2>2, <2>3 DEF Cut
<1>2. /\ client'.timers \subseteq {"long"} /\ client'.phase \in {"connect", "over"}
      /\ client'.handed => client.handed /\ client'.phase = "over"
      /\ client'.flushed => client'.handed
      /\ outcome'.end = "ok" => end = "ok" /\ client'.handed = client.handed
      /\ outcome'.why # "none" => outcome'.why = why
      /\ errand.kind = "write" => client'.handed = client.handed
      /\ SessionTypes' /\ Opening'
  <2>1. CASE end = "error" /\ Session!Retries
    <3>1. client' = Session!Fresh /\ attempt' = attempt + 1 /\ outcome' = outcome
      BY <2>1 DEF Session!Done
    <3>2. attempt' \in 1..Tries /\ errand.kind # "write"
      BY <2>1, <3>1, <1>t DEF SessionTypes, Session!Retries, Configuration
    <3>3. client' \in ClientShape
      BY <3>1 DEF Session!Fresh, Session!Timer, ClientShape
    <3>4. SessionTypes'
      BY <3>1, <3>2, <3>3, <1>1, <1>t DEF SessionTypes
    <3>5. /\ client'.timers = {"long"} /\ client'.phase = "connect"
          /\ ~client'.handed /\ ~client'.flushed
      BY <3>1 DEF Session!Fresh
    <3> QED
      BY <3>1, <3>2, <3>4, <3>5, <1>r DEF Opening, Session!Fresh
  <2>2. CASE ~(end = "error" /\ Session!Retries)
    <3>1. /\ client' = [client EXCEPT !.phase = "over", !.timers = {}, !.socket = "gone"]
          /\ outcome' = [end |-> end, why |-> why] /\ attempt' = attempt
      BY <2>2 DEF Session!Done
    <3> QED
      BY <3>1, <1>1, <1>t, <1>r DEF SessionTypes, Handing, Opening, ClientShape, NodeShape
  <2> QED
    BY <2>1, <2>2
<1>3. Dumping'
  BY <1>t, <1>r, <1>1, <1>2, EmptySeq DEF Dumping
<1>4. Handing'
  BY <1>t, <1>1, <1>2 DEF Handing
<1>5. Writing'
  <2>1. Session!Untouched => Session!Untouched'
    BY <1>1, EmptySeq DEF Session!Untouched
  <2> QED
    BY <1>t, <1>2, <2>1 DEF Writing
<1> QED
  BY <1>2, <1>3, <1>4, <1>5 DEF SessionInv

\* The client goes on: what it has been told is off the wire, what it has to say
\* is behind what it has said.
LEMMA ClientGoesOn ==
    ASSUME Configuration, SessionInv, Session!Running, NEW frames \in Seq(Order),
           UNCHANGED <<errand, attempt, outcome, node, mishaps>>,
           toNode' = toNode \o frames, fromNode' \in Seq(Answer),
           \/ fromNode' = fromNode
           \/ \A i \in 1..Len(fromNode') : \E j \in 1..Len(fromNode) : fromNode'[i] = fromNode[j],
           SessionTypes',
           \A i \in 1..Len(frames) : frames[i].cmd # "want",
           \A i \in 1..Len(frames) : frames[i].cmd = "packet" => node.done,
           \A i \in 1..Len(toNode) : toNode[i].cmd # "want", client'.socket # "opening",
           "linger" \in client'.timers \/ client'.flushed => client'.handed,
           errand.kind \in {"write", "prune"} /\ client'.phase = "acting" => client'.handed,
           errand.kind = "write" =>
             \/ client'.handed /\ client'.phase = "acting"
             \/ /\ ~client'.handed /\ ~client.handed
                /\ \A i \in 1..Len(frames) : frames[i].cmd = "get"
    PROVE  SessionInv'
<1>t. SessionTypes /\ Dumping /\ Opening /\ Handing /\ Writing
  BY DEF SessionInv
<1>r. outcome.end = "none" /\ outcome.why = "none"
  BY <1>t DEF Session!Running, SessionTypes
<1>1. \A i \in 1..Len(toNode') : \/ \E j \in 1..Len(toNode) : toNode'[i] = toNode[j]
                                 \/ \E j \in 1..Len(frames) : toNode'[i] = frames[j]
  BY <1>t, FramesAdded DEF SessionTypes
<1>2. Dumping'
  <2>1. \A i \in 1..Len(toNode') : toNode'[i].cmd # "want"
                                   /\ (toNode'[i].cmd = "packet" => node.done)
    BY <1>1, <1>t DEF Dumping
  <2>2. \A i \in 1..Len(fromNode') : fromNode'[i] = "complete" => node.done
    <3>1. \A i \in 1..Len(fromNode) : fromNode[i] = "complete" => node.done
      BY <1>t DEF Dumping
    <3>2. CASE fromNode' = fromNode
      BY <3>1, <3>2
    <3>3. CASE \A i \in 1..Len(fromNode') : \E j \in 1..Len(fromNode) : fromNode'[i] = fromNode[j]
      BY <3>1, <3>3, Zenon
    <3> QED
      BY <3>2, <3>3
  <2> QED
    BY <2>1, <2>2, <1>t DEF Dumping
<1>3. Handing'
  BY <1>t, <1>r DEF Handing
<1>4. Writing'
  <2> SUFFICES ASSUME errand.kind = "write", ~client'.handed PROVE Session!Untouched'
    BY <1>r DEF Writing
  <2>1. Session!Untouched /\ \A i \in 1..Len(frames) : frames[i].cmd = "get"
    BY <1>t DEF Writing
  <2>2. DOMAIN toNode' = 1..Len(toNode') /\ DOMAIN toNode = 1..Len(toNode)
    BY <1>t, LenProperties DEF SessionTypes
  <2>3. \A i \in DOMAIN toNode' : toNode'[i].cmd \in {"want", "get"}
    BY <1>1, <2>1, <2>2 DEF Session!Untouched
  <2> QED
    BY <2>1, <2>3 DEF Session!Untouched
<1> QED
  BY <1>2, <1>3, <1>4 DEF SessionInv, Opening

\* A new connection begins with a request for the dump, and nothing else.
LEMMA AcceptKeeps == ASSUME Configuration, SessionInv, Session!NodeAccepts PROVE SessionInv'
<1>t. SessionTypes /\ Dumping /\ Opening /\ Handing /\ Writing
  BY DEF SessionInv
<1> DEFINE want == Session!Plain("want")
<1>1. want \in Order /\ want.cmd = "want"
  BY DEF Session!Plain, Session!Frame, Order
<1>2. /\ client = Session!Fresh /\ outcome.end = "none" /\ outcome.why = "none"
      /\ client' = [client EXCEPT !.socket = "open", !.phase = "config"]
      /\ toNode' = <<want>> /\ fromNode' = <<>>
      /\ node' = [node EXCEPT !.left = <<>>, !.done = FALSE]
      /\ UNCHANGED <<errand, attempt, outcome, mishaps>>
  BY <1>t DEF Session!NodeAccepts, Session!Running, Opening, SessionTypes
<1> HIDE DEF want
<1>3. /\ toNode' \in Seq(Order) /\ Len(toNode') = 1 /\ toNode'[1] = want
      /\ DOMAIN toNode' = 1..1
      /\ fromNode' \in Seq(Answer) /\ Len(fromNode') = 0 /\ Len(<<>>) = 0
      /\ <<>> \in Seq(Answer)
  BY <1>1, <1>2, OneElement, EmptySeq
<1>4. SessionTypes'
  BY <1>2, <1>3, <1>t DEF SessionTypes, ClientShape, NodeShape
<1>5. /\ client'.timers = {"long"} /\ client'.phase = "config" /\ client'.socket = "open"
      /\ ~client'.handed /\ ~client'.flushed /\ ~client.handed
  BY <1>2 DEF Session!Fresh
<1>6. /\ node'.left = <<>> /\ ~node'.done /\ node'.early = node.early
      /\ node'.acted = node.acted /\ node'.edit = node.edit /\ node'.saved = node.saved
  BY <1>2, <1>t DEF SessionTypes
<1>7. Dumping' /\ Opening' /\ Handing'
  BY <1>1, <1>2, <1>3, <1>5, <1>6, <1>t DEF Dumping, Opening, Handing
<1>8. Writing'
  BY <1>1, <1>2, <1>3, <1>5, <1>6, <1>t DEF Writing, Session!Untouched
<1> QED
  BY <1>4, <1>7, <1>8 DEF SessionInv

LEMMA DumpsKeeps == ASSUME Configuration, SessionInv, Session!NodeDumps PROVE SessionInv'
<1>t. SessionTypes /\ Dumping /\ Opening /\ Handing /\ Writing
  BY DEF SessionInv
<1> DEFINE f == Head(node.left)
<1>1. /\ node.left \in Seq(Answer) /\ node.left # <<>>
      /\ node' = [node EXCEPT !.left = Tail(node.left), !.done = (Len(node.left) = 1)]
      /\ fromNode' = Append(fromNode, f)
      /\ UNCHANGED <<errand, client, attempt, outcome, toNode, mishaps>>
  BY <1>t DEF Session!NodeDumps, SessionTypes, ClientShape, NodeShape
<1>2. /\ f \in Answer /\ f = node.left[1] /\ Len(node.left) \in Nat \ {0}
      /\ Tail(node.left) \in Seq(Answer) /\ Len(Tail(node.left)) = Len(node.left) - 1
      /\ \A i \in 1..Len(Tail(node.left)) :
           Tail(node.left)[i] = node.left[i + 1] /\ i + 1 \in 1..Len(node.left)
      /\ Len(node.left) = 1 => Tail(node.left) = <<>>
  BY <1>1, FramesTaken
<1> HIDE DEF f
<1>3. /\ fromNode' \in Seq(Answer) /\ Len(fromNode') = Len(fromNode) + 1
      /\ Len(fromNode) \in Nat
      /\ \A i \in 1..Len(fromNode) : fromNode'[i] = fromNode[i]
      /\ fromNode'[Len(fromNode) + 1] = f
  BY <1>1, <1>2, <1>t, AppendProperties, LenProperties DEF SessionTypes
<1>4. /\ node' \in NodeShape
      /\ node'.left = Tail(node.left) /\ node'.done = (Len(node.left) = 1)
      /\ node'.acted = node.acted /\ node'.edit = node.edit /\ node'.saved = node.saved
      /\ node'.early = node.early
  BY <1>1, <1>2, <1>t DEF SessionTypes, ClientShape, NodeShape
<1>5. SessionTypes'
  BY <1>1, <1>3, <1>4, <1>t DEF SessionTypes
<1>6. ~node.done /\ \A i \in 1..Len(toNode) : toNode[i].cmd \notin {"want", "packet"}
  BY <1>1, <1>t DEF Dumping
<1>7. Dumping'
  <2>1. \A i \in 1..Len(fromNode') : fromNode'[i] = "complete" => node'.done
    <3> SUFFICES ASSUME NEW i \in 1..Len(fromNode'), fromNode'[i] = "complete"
                 PROVE  node'.done
      OBVIOUS
    <3>1. i \in 1..Len(fromNode) \/ i = Len(fromNode) + 1
      BY <1>3
    <3>2. ~(i \in 1..Len(fromNode))
      BY <1>3, <1>6, <1>t DEF Dumping
    <3>3. f = "complete"
      BY <1>3, <3>1, <3>2
    <3>4. 1 \in 1..Len(node.left) /\ node.left[1] = "complete"
      BY <1>2, <3>3
    <3>5. 1 = Len(node.left)
      BY <3>4, <1>t DEF Dumping
    <3> QED
      BY <1>4, <3>5
  <2>2. \A i \in 1..Len(node'.left) : node'.left[i] = "complete" => i = Len(node'.left)
    <3> SUFFICES ASSUME NEW i \in 1..Len(Tail(node.left)), node.left[i + 1] = "complete"
                 PROVE  i = Len(Tail(node.left))
      BY <1>2, <1>4
    <3>1. i + 1 = Len(node.left)
      BY <1>2, <1>t DEF Dumping
    <3> QED
      BY <1>2, <3>1
  <2> QED
    BY <1>1, <1>2, <1>4, <1>6, <2>1, <2>2, <1>t DEF Dumping
<1>8. Opening' /\ Handing'
  BY <1>1, <1>t DEF Opening, Handing
<1>9. Writing'
  BY <1>1, <1>4, <1>t DEF Writing, Session!Untouched
<1> QED
  BY <1>5, <1>7, <1>8, <1>9 DEF SessionInv

\* The node takes a frame off the wire.
LEMMA TakesKeeps == ASSUME Configuration, SessionInv, Session!NodeTakes PROVE SessionInv'
<1>t. SessionTypes /\ Dumping /\ Opening /\ Handing /\ Writing
  BY DEF SessionInv
<1> DEFINE f == Head(toNode)
<1>1. /\ toNode \in Seq(Order) /\ toNode # <<>> /\ toNode' = Tail(toNode)
      /\ UNCHANGED <<errand, client, attempt, outcome, mishaps>>
  BY <1>t DEF Session!NodeTakes, SessionTypes
<1>2. /\ f \in Order /\ f = toNode[1] /\ Len(toNode) \in Nat \ {0}
      /\ toNode' \in Seq(Order) /\ Len(toNode') = Len(toNode) - 1
      /\ \A i \in 1..Len(toNode') : toNode'[i] = toNode[i + 1] /\ i + 1 \in 1..Len(toNode)
      /\ DOMAIN toNode' = 1..Len(toNode') /\ DOMAIN toNode = 1..Len(toNode)
  BY <1>1, FramesTaken, LenProperties
<1>3. \/ /\ f.cmd = "want" /\ fromNode' = fromNode
         /\ \E order \in Session!SetToSeqs(Section) :
              node' = [node EXCEPT !.left = Session!Dump(order)]
      \/ /\ f.cmd = "get" /\ node' = node
         /\ fromNode' = fromNode \/ fromNode' = Append(fromNode, "response")
      \/ f.cmd \notin {"want", "get"} /\ node' = Session!Obey(f) /\ fromNode' = fromNode
  BY DEF Session!NodeTakes
<1> HIDE DEF f
<1>4. Opening' /\ Handing'
  BY <1>1, <1>t DEF Opening, Handing
<1>5. CASE f.cmd = "want"
  <2>1. PICK order \in Session!SetToSeqs(Section) :
          node' = [node EXCEPT !.left = Session!Dump(order)] /\ fromNode' = fromNode
    BY <1>3, <1>5
  <2> DEFINE d == Session!Dump(order)
  <2>2. d \in Seq(Answer) /\ \A i \in 1..Len(d) : d[i] = "complete" => i = Len(d)
    BY <1>t, DumpEnds
  <2> HIDE DEF d
  <2>3. /\ node' \in NodeShape
        /\ node'.left = d /\ node'.done = node.done /\ node'.early = node.early
        /\ node'.acted = node.acted /\ node'.edit = node.edit /\ node'.saved = node.saved
    BY <2>1, <2>2, <1>t DEF SessionTypes, d, ClientShape, NodeShape
  <2>4. Len(toNode) = 1 /\ ~node.done /\ fromNode = <<>>
    BY <1>2, <1>5, <1>t DEF Dumping
  <2>5. Len(toNode') = 0 /\ Len(fromNode') = 0
    BY <1>2, <2>1, <2>4, EmptySeq
  <2>6. SessionTypes'
    BY <1>1, <1>2, <2>1, <2>3, <1>t DEF SessionTypes
  <2>7. Dumping'
    BY <2>2, <2>3, <2>4, <2>5, <1>t DEF Dumping
  <2>8. Writing'
    BY <1>1, <1>2, <2>3, <2>5, <1>t DEF Writing, Session!Untouched
  <2> QED
    BY <1>4, <2>6, <2>7, <2>8 DEF SessionInv
<1>6. CASE f.cmd = "get"
  <2>1. node' = node /\ (fromNode' = fromNode \/ fromNode' = Append(fromNode, "response"))
    BY <1>3, <1>6
  <2>2. /\ fromNode' \in Seq(Answer)
        /\ \A i \in 1..Len(fromNode') : fromNode'[i] = "complete" => node.done
    <3>1. CASE fromNode' = fromNode
      BY <3>1, <1>t DEF SessionTypes, Dumping
    <3>2. CASE fromNode' = Append(fromNode, "response")
      <4>1. "response" \in Answer
        BY DEF Answer
      <4>2. /\ fromNode' \in Seq(Answer) /\ Len(fromNode') = Len(fromNode) + 1
            /\ Len(fromNode) \in Nat
            /\ \A i \in 1..Len(fromNode) : fromNode'[i] = fromNode[i]
            /\ fromNode'[Len(fromNode) + 1] = "response"
        BY <3>2, <4>1, <1>t, AppendProperties, LenProperties DEF SessionTypes
      <4> QED
        BY <4>2, <1>t DEF Dumping
    <3> QED
      BY <2>1, <3>1, <3>2
  <2>3. SessionTypes'
    BY <1>1, <1>2, <2>1, <2>2, <1>t DEF SessionTypes
  <2>4. \A i \in 1..Len(toNode) : toNode[i].cmd # "want"
    <3>1. CASE Len(toNode) = 1
      BY <1>2, <1>6, <3>1
    <3>2. CASE Len(toNode) # 1
      BY <3>2, <1>t DEF Dumping
    <3> QED
      BY <3>1, <3>2
  <2>5. Dumping'
    BY <1>2, <2>1, <2>2, <2>4, <1>t DEF Dumping
  <2>6. Writing'
    BY <1>1, <1>2, <2>1, <1>t DEF Writing, Session!Untouched
  <2> QED
    BY <1>4, <2>3, <2>5, <2>6 DEF SessionInv
<1>7. CASE f.cmd \notin {"want", "get"}
  <2>1. node' = Session!Obey(f) /\ fromNode' = fromNode
    BY <1>3, <1>7
  <2>2. f.cmd = "set" => f.section \in Section
    BY <1>2 DEF Order
  <2>3. /\ node' \in NodeShape
        /\ node'.left = node.left /\ node'.done = node.done
        /\ node'.early => node.early \/ (f.cmd = "packet" /\ ~node.done)
    BY <2>1, <2>2, <1>t DEF Session!Obey, SessionTypes, ClientShape, NodeShape
  <2>4. \A i \in 1..Len(toNode) : toNode[i].cmd # "want"
    <3>1. CASE Len(toNode) = 1
      BY <1>2, <1>7, <3>1
    <3>2. CASE Len(toNode) # 1
      BY <3>2, <1>t DEF Dumping
    <3> QED
      BY <3>1, <3>2
  <2>5. SessionTypes'
    BY <1>1, <1>2, <2>1, <2>3, <1>t DEF SessionTypes
  <2>6. Dumping'
    <3>1. 1 \in 1..Len(toNode) /\ (f.cmd = "packet" => node.done)
      BY <1>2, <1>t DEF Dumping
    <3>2. \A i \in 1..Len(toNode') : toNode'[i].cmd # "want"
                                     /\ (toNode'[i].cmd = "packet" => node.done)
      BY <1>2, <2>4, <1>t DEF Dumping
    <3> QED
      BY <2>1, <2>3, <3>1, <3>2, <1>t DEF Dumping
  <2>7. Writing'
    <3>1. ~Session!Untouched
      BY <1>2, <1>7 DEF Session!Untouched
    <3> QED
      BY <1>1, <3>1, <1>t DEF Writing
  <2> QED
    BY <1>4, <2>5, <2>6, <2>7 DEF SessionInv
<1> QED
  BY <1>5, <1>6, <1>7

\* While the client hears from the node, waits with a timer of its own or has
\* asked for more, no request for the dump is on its way.
LEMMA NoWant ==
    ASSUME SessionInv,
           \/ fromNode # <<>>
           \/ ~(client.timers \subseteq {"long"})
           \/ client.phase \in {"passkey", "acting"}
    PROVE  \A i \in 1..Len(toNode) : toNode[i].cmd # "want"
  BY DEF SessionInv, Dumping

\* The client has read what it has read, and says what it has to say: ClientGoesOn
\* for the shape that all of its steps have.
LEMMA SaysKeeps ==
    ASSUME Configuration, SessionInv, Session!Running,
           NEW c \in ClientShape, NEW frames \in Seq(Order), NEW rest,
           rest = fromNode \/ (fromNode # <<>> /\ rest = Tail(fromNode)),
           client' = c, fromNode' = rest, toNode' = toNode \o frames,
           UNCHANGED <<errand, attempt, outcome, node, mishaps>>,
           c.socket = client.socket, client.socket # "opening",
           \/ fromNode # <<>>
           \/ ~(client.timers \subseteq {"long"})
           \/ client.phase \in {"passkey", "acting"},
           \A i \in 1..Len(frames) : frames[i].cmd # "want",
           \A i \in 1..Len(frames) : frames[i].cmd = "packet" => node.done,
           "linger" \in c.timers \/ c.flushed => c.handed,
           errand.kind \in {"write", "prune"} /\ c.phase = "acting" => c.handed,
           errand.kind = "write" =>
             \/ c.handed /\ c.phase = "acting"
             \/ /\ ~c.handed /\ ~client.handed
                /\ \A i \in 1..Len(frames) : frames[i].cmd = "get"
    PROVE  SessionInv'
<1>t. SessionTypes
  BY DEF SessionInv
<1>1. /\ fromNode' \in Seq(Answer)
      /\ \/ fromNode' = fromNode
         \/ \A i \in 1..Len(fromNode') : \E j \in 1..Len(fromNode) : fromNode'[i] = fromNode[j]
  <2>1. CASE rest = fromNode
    BY <2>1, <1>t DEF SessionTypes
  <2>2. CASE fromNode # <<>> /\ rest = Tail(fromNode)
    <3>1. fromNode \in Seq(Answer)
      BY <1>t DEF SessionTypes
    <3>2. /\ Tail(fromNode) \in Seq(Answer)
          /\ \A i \in 1..Len(Tail(fromNode)) :
               Tail(fromNode)[i] = fromNode[i + 1] /\ i + 1 \in 1..Len(fromNode)
      BY <2>2, <3>1, FramesTaken
    <3> QED
      BY <2>2, <3>2
  <2> QED
    BY <2>1, <2>2
<1>2. SessionTypes'
  <2>1. toNode' \in Seq(Order)
    BY <1>t, FramesAdded DEF SessionTypes
  <2> QED
    BY <2>1, <1>1, <1>t DEF SessionTypes
<1> QED
  BY <1>1, <1>2, NoWant, ClientGoesOn

\* A step that says nothing and leaves the phase and what was handed over.
LEMMA NoteKeeps ==
    ASSUME Configuration, SessionInv, Session!Running, NEW c \in ClientShape, NEW rest,
           rest = fromNode \/ (fromNode # <<>> /\ rest = Tail(fromNode)),
           client' = c, fromNode' = rest,
           UNCHANGED <<errand, attempt, outcome, toNode, node, mishaps>>,
           c.socket = client.socket, client.socket # "opening",
           \/ fromNode # <<>>
           \/ ~(client.timers \subseteq {"long"})
           \/ client.phase \in {"passkey", "acting"},
           c.phase = client.phase, client.handed => c.handed,
           c.handed => client.handed \/ errand.kind # "write",
           "linger" \in c.timers \/ c.flushed => c.handed
    PROVE  SessionInv'
<1> DEFINE none == <<>>
<1>1. toNode' = toNode \o none /\ none \in Seq(Order) /\ Len(none) = 0
  BY ConcatEmptySeq, EmptySeq DEF SessionInv, SessionTypes
<1> HIDE DEF none
<1>2. errand.kind \in {"write", "prune"} /\ c.phase = "acting" => c.handed
  BY DEF SessionInv, Handing
<1>3. errand.kind = "write" => (c.handed /\ c.phase = "acting") \/ (~c.handed /\ ~client.handed)
  BY DEF SessionInv, Writing, Session!Running
<1>4. \A i \in 1..Len(none) : FALSE
  BY <1>1
<1> QED
  BY <1>1, <1>2, <1>3, <1>4, SaysKeeps

\* A frame alone.
LEMMA OneFrame ==
    ASSUME NEW cmd \in {"get", "remove", "packet"}, NEW key \in BOOLEAN
    PROVE  /\ <<Session!Frame(cmd, "none", key)>> \in Seq(Order)
           /\ Len(<<Session!Frame(cmd, "none", key)>>) = 1
           /\ <<Session!Frame(cmd, "none", key)>>[1].cmd = cmd
<1> DEFINE f == Session!Frame(cmd, "none", key)
<1>1. f \in Order /\ f.cmd = cmd
  BY DEF Session!Frame, Order
<1> HIDE DEF f
<1>2. <<f>> \in Seq(Order) /\ Len(<<f>>) = 1 /\ <<f>>[1].cmd = cmd
  BY <1>1, OneElement
<1> QED
  BY <1>2 DEF f

\* The client asks for the passkey, if it has not yet.
LEMMA AsksKeeps ==
    ASSUME Configuration, SessionInv, Session!Running, UNCHANGED <<errand, node, mishaps>>,
           NEW rest, rest = fromNode \/ (fromNode # <<>> /\ rest = Tail(fromNode)),
           NEW timers \in SUBSET Session!Timer,
           "linger" \in timers => "linger" \in client.timers,
           client.phase = "config", client.socket # "opening",
           fromNode # <<>> \/ ~(client.timers \subseteq {"long"}),
           Session!Send([client EXCEPT !.phase = "passkey", !.timers = timers],
                        <<Session!Plain("get")>>, rest)
    PROVE  SessionInv'
<1>t. SessionTypes /\ Handing /\ Writing
  BY DEF SessionInv
<1> DEFINE c == [client EXCEPT !.phase = "passkey", !.timers = timers]
           frames == <<Session!Plain("get")>>
<1>1. frames \in Seq(Order) /\ Len(frames) = 1 /\ frames[1].cmd = "get"
  BY OneFrame DEF Session!Plain
<1>2. /\ c \in ClientShape /\ c.phase = "passkey" /\ c.timers = timers
      /\ c.socket = client.socket /\ c.handed = client.handed /\ c.flushed = client.flushed
  BY <1>t DEF SessionTypes, ClientShape
<1>3. client' = c /\ fromNode' = rest /\ toNode' = toNode \o frames
      /\ UNCHANGED <<attempt, outcome>>
  BY DEF Session!Send
<1> HIDE DEF c, frames
<1>4. "linger" \in c.timers \/ c.flushed => c.handed
  BY <1>2, <1>t DEF Handing
<1>5. errand.kind = "write" => ~c.handed /\ ~client.handed
  BY <1>2, <1>t DEF Writing
<1>6. \A i \in 1..Len(frames) : frames[i].cmd = "get"
  BY <1>1
<1> QED
  BY <1>1, <1>2, <1>3, <1>4, <1>5, <1>6, SaysKeeps

\* act() and writeAll(): everything is handed over, or the write is refused.
LEMMA WriteKeeps ==
    ASSUME Configuration, SessionInv, Session!Running, UNCHANGED <<errand, node, mishaps>>,
           NEW rest, rest = fromNode \/ (fromNode # <<>> /\ rest = Tail(fromNode)),
           NEW key \in BOOLEAN, client.phase = "passkey",
           Session!Write(key, rest)
    PROVE  SessionInv'
<1>t. SessionTypes /\ Opening /\ Handing /\ Writing
  BY DEF SessionInv
<1>o. client.socket # "opening"
  BY <1>t DEF Opening, Session!Fresh
<1>1. ASSUME NEW frames, Commands(frames), Session!Send(Session!Acting, frames, rest)
      PROVE  SessionInv'
  <2> DEFINE c == Session!Acting
  <2>1. /\ c \in ClientShape /\ c.phase = "acting" /\ c.handed /\ c.socket = client.socket
    BY <1>t DEF Session!Acting, SessionTypes, ClientShape, Session!Timer
  <2>2. client' = c /\ fromNode' = rest /\ toNode' = toNode \o frames
        /\ UNCHANGED <<attempt, outcome>>
    BY <1>1 DEF Session!Send
  <2> HIDE DEF c
  <2>3. /\ frames \in Seq(Order)
        /\ \A i \in 1..Len(frames) : frames[i].cmd # "want"
        /\ \A i \in 1..Len(frames) : frames[i].cmd = "packet" => node.done
    BY <1>1 DEF Commands
  <2> QED
    BY <1>o, <2>1, <2>2, <2>3, SaysKeeps
<1>2. CASE errand.kind = "prune"
  <2> DEFINE frames == <<Session!Frame("remove", "none", key)>>
  <2>1. frames \in Seq(Order) /\ Len(frames) = 1 /\ frames[1].cmd = "remove"
    BY OneFrame
  <2>2. Session!Send(Session!Acting, frames, rest)
    BY <1>2 DEF Session!Write, Session!act
  <2> HIDE DEF frames
  <2>3. Commands(frames)
    BY <2>1 DEF Commands
  <2> QED
    BY <1>1, <2>2, <2>3
<1>3. CASE errand.kind # "prune" /\ Session!Missing = {}
  <2>1. errand.ops \in SUBSET Section
    BY <1>3, <1>t DEF Session!Missing, SessionTypes, ClientShape
  <2>2. Session!Send(Session!Acting, Session!Batch(errand.ops, key), rest)
    BY <1>3 DEF Session!Write, Session!writeAll
  <2> QED
    BY <1>1, <2>1, <2>2, BatchCommands
<1>4. CASE errand.kind # "prune" /\ Session!Missing # {}
  <2>1. Session!Done("error", "refused") /\ UNCHANGED toNode
    BY <1>4 DEF Session!Write, Session!writeAll
  <2>2. errand.kind # "write" \/ ~client.handed
    BY <1>t DEF Writing
  <2>3. mishaps' \in 0..Mishaps
    BY <1>t DEF SessionTypes
  <2> QED
    BY <2>1, <2>2, <2>3, DoneKeeps DEF Cut
<1> QED
  BY <1>2, <1>3, <1>4

-----------------------------------------------------------------------------
(* The session: the client's steps.                                        *)

\* What stands at the front of the wire is an answer, and a dump that is complete
\* is done.
LEMMA FirstAnswer ==
    ASSUME SessionInv, fromNode # <<>>
    PROVE  Head(fromNode) \in Answer /\ (Head(fromNode) = "complete" => node.done)
<1>1. fromNode \in Seq(Answer)
  BY DEF SessionInv, SessionTypes
<1>2. Head(fromNode) \in Answer /\ Head(fromNode) = fromNode[1] /\ Len(fromNode) \in Nat \ {0}
  BY <1>1, FramesTaken
<1> QED
  BY <1>2 DEF SessionInv, Dumping

\* A frame of the node reaches the sender, the reader, the writer.
LEMMA ReceiveKeeps == ASSUME Configuration, SessionInv, Session!Receive PROVE SessionInv'
<1>t. SessionTypes /\ Dumping /\ Opening /\ Handing /\ Writing
  BY DEF SessionInv
<1> DEFINE f == Head(fromNode)
           rest == Tail(fromNode)
<1>1. /\ Session!Running /\ client.socket = "open" /\ client.socket # "opening"
      /\ fromNode # <<>> /\ UNCHANGED <<errand, node, mishaps>>
  BY DEF Session!Receive
<1>2. f \in Answer /\ (f = "complete" => node.done)
  BY <1>1, FirstAnswer
<1>3. /\ errand.kind \in {"send", "read", "write", "prune"}
      /\ mishaps' \in 0..Mishaps /\ client \in ClientShape
      /\ "linger" \in client.timers \/ client.flushed => client.handed
  BY <1>1, <1>t DEF SessionTypes, Session!Kind, Handing
<1>4. /\ errand.kind = "send" => Session!OnSend(f, rest)
      /\ errand.kind = "read" => Session!OnRead(f, rest)
      /\ errand.kind \in {"write", "prune"} => Session!OnAdmin(f, rest)
  BY DEF Session!Receive
<1> HIDE DEF f
<1>5. ASSUME NEW c \in ClientShape, Session!Note(c, rest), c.socket = client.socket,
             c.phase = client.phase, c.handed = client.handed, c.flushed = client.flushed,
             "linger" \in c.timers => "linger" \in client.timers
      PROVE  SessionInv'
  BY <1>1, <1>3, <1>5, NoteKeeps DEF Session!Note
<1>6. ASSUME Session!Ignore(rest) PROVE SessionInv'
  <2>1. Session!Note(client, rest)
    BY <1>6 DEF Session!Ignore, Session!Note
  <2> QED
    BY <1>3, <1>5, <2>1
<1>7. CASE errand.kind = "send"
  <2>1. CASE f = "complete" /\ client.phase = "config"
    <3> DEFINE c == [client EXCEPT !.phase = "acting"]
               frames == <<Session!Plain("packet")>>
    <3>1. Session!Send(c, frames, rest)
      BY <1>4, <1>7, <2>1 DEF Session!OnSend, Session!ReadyAt
    <3>2. frames \in Seq(Order) /\ Len(frames) = 1
      BY OneFrame DEF Session!Plain
    <3>3. /\ c \in ClientShape /\ c.socket = client.socket /\ c.timers = client.timers
          /\ c.flushed = client.flushed /\ c.handed = client.handed
      BY <1>3 DEF ClientShape
    <3>4. frames[1].cmd = "packet"
      BY OneFrame DEF Session!Plain
    <3>5. client' = c /\ fromNode' = rest /\ toNode' = toNode \o frames
          /\ UNCHANGED <<attempt, outcome>>
      BY <3>1 DEF Session!Send
    <3> HIDE DEF c, frames
    <3>6. /\ \A i \in 1..Len(frames) : frames[i].cmd # "want"
          /\ \A i \in 1..Len(frames) : frames[i].cmd = "packet" => node.done
      BY <1>2, <2>1, <3>2, <3>4
    <3> QED
      BY <1>1, <1>3, <1>7, <3>2, <3>3, <3>5, <3>6, SaysKeeps
  <2>2. CASE ~(f = "complete" /\ client.phase = "config")
    <3> DEFINE c == [client EXCEPT !.sawId = @ \/ f = "myInfo"]
    <3>1. Session!Note(c, rest)
      BY <1>4, <1>7, <2>2 DEF Session!OnSend, Session!ReadyAt
    <3>2. /\ c \in ClientShape /\ c.socket = client.socket /\ c.timers = client.timers
          /\ c.phase = client.phase /\ c.flushed = client.flushed /\ c.handed = client.handed
      BY <1>3 DEF ClientShape
    <3> HIDE DEF c
    <3> QED
      BY <1>5, <3>1, <3>2
  <2> QED
    BY <2>1, <2>2
<1>8. CASE errand.kind = "read"
  <2>1. CASE f = "complete"
    <3>1. Session!Done("ok", "none") /\ UNCHANGED toNode
      BY <1>4, <1>8, <2>1 DEF Session!OnRead
    <3> QED
      BY <1>1, <1>3, <1>8, <3>1, DoneKeeps DEF Cut
  <2>2. CASE f # "complete"
    BY <1>4, <1>6, <1>8, <2>2 DEF Session!OnRead
  <2> QED
    BY <2>1, <2>2
<1>9. CASE errand.kind \in {"write", "prune"}
  <2>1. CASE f = "myInfo" /\ Session!Note([client EXCEPT !.sawId = TRUE,
                                             !.timers = @ \union {"fallback"}], rest)
    <3> DEFINE c == [client EXCEPT !.sawId = TRUE, !.timers = @ \union {"fallback"}]
    <3>1. /\ c \in ClientShape /\ c.socket = client.socket
          /\ "linger" \in c.timers => "linger" \in client.timers
          /\ c.phase = client.phase /\ c.flushed = client.flushed /\ c.handed = client.handed
      BY <1>3 DEF ClientShape, Session!Timer
    <3> HIDE DEF c
    <3>2. Session!Note(c, rest)
      BY <2>1 DEF c
    <3> QED
      BY <1>5, <3>1, <3>2
  <2>2. CASE f \in Section /\ Session!Note([client EXCEPT !.raws = @ \union {f}], rest)
    <3> DEFINE c == [client EXCEPT !.raws = @ \union {f}]
    <3>1. /\ c \in ClientShape /\ c.socket = client.socket /\ c.timers = client.timers
          /\ c.phase = client.phase /\ c.flushed = client.flushed /\ c.handed = client.handed
      BY <1>3, <2>2 DEF ClientShape
    <3> HIDE DEF c
    <3>2. Session!Note(c, rest)
      BY <2>2 DEF c
    <3> QED
      BY <1>5, <3>1, <3>2
  <2>3. CASE client.phase = "config" /\ Session!requestPasskey(rest)
    <3> DEFINE timers == client.timers \union {"passkey"}
    <3>1. /\ timers \in SUBSET Session!Timer
          /\ "linger" \in timers => "linger" \in client.timers
      BY <1>3 DEF ClientShape, Session!Timer
    <3>2. Session!Send([client EXCEPT !.phase = "passkey", !.timers = timers],
                       <<Session!Plain("get")>>, rest)
      BY <1>3, <2>3 DEF Session!requestPasskey, ClientShape
    <3> HIDE DEF timers
    <3> QED
      BY <1>1, <2>3, <3>1, <3>2, AsksKeeps
  <2>4. CASE client.phase = "passkey" /\ Session!Write(TRUE, rest)
    BY <1>1, <2>4, WriteKeeps
  <2>5. CASE Session!Ignore(rest)
    BY <1>6, <2>5
  <2> QED
    BY <1>4, <1>9, <2>1, <2>2, <2>3, <2>4, <2>5 DEF Session!OnAdmin
<1> QED
  BY <1>3, <1>7, <1>8, <1>9

\* The kernel took the packet.
LEMMA FlushedKeeps == ASSUME Configuration, SessionInv, Session!Flushed PROVE SessionInv'
<1> DEFINE c == [client EXCEPT !.flushed = TRUE, !.handed = TRUE,
                               !.timers = @ \union {"linger"}]
<1>1. /\ Session!Running /\ errand.kind = "send" /\ client.phase = "acting"
      /\ client' = c /\ UNCHANGED <<errand, attempt, outcome, toNode, fromNode, node, mishaps>>
  BY DEF Session!Flushed, Session!wire
<1>2. client \in ClientShape /\ client.socket # "opening"
  BY <1>1 DEF SessionInv, SessionTypes, Opening, Session!Fresh
<1>3. c \in ClientShape /\ c.socket = client.socket /\ c.phase = client.phase /\ c.handed
  BY <1>2 DEF ClientShape, Session!Timer
<1> HIDE DEF c
<1> QED
  BY <1>1, <1>2, <1>3, NoteKeeps

\* The dump took too long: ask for the passkey if what it brought is enough.
LEMMA FallbackKeeps ==
    ASSUME Configuration, SessionInv, Session!FallbackTimer PROVE SessionInv'
<1>1. /\ Session!Running /\ "fallback" \in client.timers
      /\ UNCHANGED <<errand, node, mishaps>>
  BY DEF Session!FallbackTimer, Session!Timed
<1>2. /\ client \in ClientShape /\ ~(client.timers \subseteq {"long"})
      /\ client.socket # "opening"
      /\ "linger" \in client.timers \/ client.flushed => client.handed
  BY <1>1 DEF SessionInv, SessionTypes, Opening, Handing, Session!Fresh
<1>3. CASE client.phase = "config" /\ (errand.kind = "prune" \/ Session!Missing = {})
  <2> DEFINE timers == (client.timers \ {"fallback"}) \union {"passkey"}
  <2>1. timers \in SUBSET Session!Timer /\ ("linger" \in timers => "linger" \in client.timers)
    BY <1>2 DEF ClientShape, Session!Timer
  <2>2. Session!Send([client EXCEPT !.phase = "passkey", !.timers = timers],
                     <<Session!Plain("get")>>, fromNode)
    BY <1>2, <1>3 DEF Session!FallbackTimer, ClientShape
  <2> HIDE DEF timers
  <2> QED
    BY <1>1, <1>2, <1>3, <2>1, <2>2, AsksKeeps
<1>4. CASE ~(client.phase = "config" /\ (errand.kind = "prune" \/ Session!Missing = {}))
  <2> DEFINE c == [client EXCEPT !.timers = @ \ {"fallback"}]
  <2>1. /\ c \in ClientShape /\ c.socket = client.socket /\ c.phase = client.phase
        /\ c.handed = client.handed /\ c.flushed = client.flushed
        /\ "linger" \in c.timers => "linger" \in client.timers
    BY <1>2 DEF ClientShape
  <2>2. /\ client' = c /\ fromNode' = fromNode
        /\ UNCHANGED <<attempt, outcome, toNode>>
    BY <1>4 DEF Session!FallbackTimer, Session!Note
  <2> HIDE DEF c
  <2> QED
    BY <1>1, <1>2, <2>1, <2>2, NoteKeeps
<1> QED
  BY <1>3, <1>4

\* No passkey came: write without one.
LEMMA PasskeyKeeps ==
    ASSUME Configuration, SessionInv, Session!PasskeyTimer PROVE SessionInv'
<1>1. /\ Session!Running /\ client.phase = "passkey" /\ Session!Write(FALSE, fromNode)
      /\ UNCHANGED <<errand, node, mishaps>>
  BY DEF Session!PasskeyTimer, Session!Timed
<1> QED
  BY <1>1, WriteKeeps

\* The attempt ends: it has lingered long enough, took too long, or lost its stream.
LEMMA EndsKeep ==
    ASSUME Configuration, SessionInv,
           \/ Session!LingerTimer \/ Session!LongTimer
           \/ Session!StreamCloses \/ Session!SocketError
    PROVE  SessionInv'
<1>t. SessionTypes /\ Handing /\ Writing
  BY DEF SessionInv
<1>1. /\ Session!Running /\ UNCHANGED errand /\ Cut
  BY DEF Session!LingerTimer, Session!LongTimer, Session!StreamCloses, Session!SocketError,
         Session!Timed, Cut
<1>2. mishaps' \in 0..Mishaps
  BY <1>t DEF Session!LingerTimer, Session!LongTimer, Session!StreamCloses,
     Session!SocketError, SessionTypes, Configuration
<1>3. Session!Succeeded => client.handed
  BY <1>t DEF Session!Succeeded, Handing
<1>4. ~Session!Succeeded => errand.kind # "write" \/ ~client.handed
  BY <1>1, <1>t DEF Session!Succeeded, Writing, Session!Running
<1>5. CASE Session!LingerTimer
  BY <1>1, <1>2, <1>5, <1>t, DoneKeeps DEF Session!LingerTimer, Session!Timed, Handing
<1>6. CASE Session!LongTimer
  BY <1>1, <1>2, <1>3, <1>4, <1>6, DoneKeeps DEF Session!LongTimer
<1>7. CASE Session!StreamCloses
  BY <1>1, <1>2, <1>3, <1>4, <1>7, DoneKeeps DEF Session!StreamCloses
<1>8. CASE Session!SocketError
  BY <1>1, <1>2, <1>8, DoneKeeps DEF Session!SocketError
<1> QED
  BY <1>5, <1>6, <1>7, <1>8

LEMMA SilentKeeps ==
    ASSUME Configuration, SessionInv, Session!NodeFallsSilent PROVE SessionInv'
<1>t. SessionTypes /\ Dumping /\ Opening /\ Handing /\ Writing
  BY DEF SessionInv
<1>1. /\ node' = [node EXCEPT !.mute = TRUE] /\ mishaps' = mishaps + 1 /\ mishaps < Mishaps
      /\ UNCHANGED <<errand, client, attempt, outcome, toNode, fromNode>>
  BY DEF Session!NodeFallsSilent, Session!wire
<1>2. /\ node' \in NodeShape /\ node'.left = node.left /\ node'.done = node.done
      /\ node'.early = node.early /\ node'.acted = node.acted
      /\ node'.edit = node.edit /\ node'.saved = node.saved
  BY <1>1, <1>t DEF SessionTypes, NodeShape
<1>3. SessionTypes'
  BY <1>1, <1>2, <1>t DEF SessionTypes, Configuration
<1>4. Dumping' /\ Opening' /\ Handing'
  BY <1>1, <1>2, <1>t DEF Dumping, Opening, Handing
<1>5. Writing'
  BY <1>1, <1>2, <1>t DEF Writing, Session!Untouched
<1> QED
  BY <1>3, <1>4, <1>5 DEF SessionInv

\* An errand reports what it did (done(), and the handlers that call it, in
\* node/transport.ts, node/readconfig.ts and node/writeconfig.ts), and no packet
\* reaches a node that is still dumping its configuration.
THEOREM SessionReports ==
    Configuration =>
      (Session!Spec =>
         [](Session!TypeOK /\ Session!ReportIsTrue /\ Session!NothingBeforeReady))
<1> SUFFICES ASSUME Configuration
             PROVE  Session!Spec =>
                      [](Session!TypeOK /\ Session!ReportIsTrue /\ Session!NothingBeforeReady)
  OBVIOUS
<1>1. Session!Init => SessionInv
  BY SessionStart
<1>2. ASSUME SessionInv, [Session!Next]_Session!vars PROVE SessionInv'
  <2>1. CASE UNCHANGED Session!vars
    <3>1. /\ SessionTypes' /\ Dumping' /\ Opening' /\ Handing'
      BY <1>2, <2>1 DEF Session!vars, SessionInv, SessionTypes, Dumping, Opening, Handing
    <3>2. Writing'
      BY <1>2, <2>1 DEF Session!vars, SessionInv, Writing, Session!Untouched
    <3> QED
      BY <3>1, <3>2 DEF SessionInv
  <2>2. CASE Session!Receive
    BY <1>2, <2>2, ReceiveKeeps
  <2>3. CASE Session!Flushed
    BY <1>2, <2>3, FlushedKeeps
  <2>4. CASE Session!Timers
    BY <1>2, <2>4, FallbackKeeps, PasskeyKeeps, EndsKeep DEF Session!Timers
  <2>5. CASE Session!StreamCloses \/ Session!SocketError
    BY <1>2, <2>5, EndsKeep
  <2>6. CASE Session!Node
    BY <1>2, <2>6, AcceptKeeps, DumpsKeeps, TakesKeeps, SilentKeeps DEF Session!Node
  <2> QED
    BY <1>2, <2>1, <2>2, <2>3, <2>4, <2>5, <2>6 DEF Session!Next
<1>3. SessionInv => Session!TypeOK
  BY DEF SessionInv, SessionTypes, ClientShape, NodeShape, Session!TypeOK
<1>4. SessionInv => Session!ReportIsTrue
  BY DEF SessionInv, Handing, Writing, Session!ReportIsTrue
<1>5. SessionInv => Session!NothingBeforeReady
  BY DEF SessionInv, Dumping, Session!NothingBeforeReady
<1> QED
  BY <1>1, <1>2, <1>3, <1>4, <1>5, PTL DEF Session!Spec

-----------------------------------------------------------------------------
(* The node with all its users.  A scene is chosen at the start and stays, *)
(* so what holds of the receiver and of the lease alone holds here.        *)

LateP == INSTANCE NodeLeaseProofs WITH
    MaxFaults <- Mishaps, row <- lateRow, left <- lateLeft, pc <- latePc,
    mine <- lateMine, wait <- lateWait, age <- lateAge, ren <- lateRen,
    flight <- lateFlight, faults <- mishaps

\* The proofs' lease and the lease of the runs are one.
LEMMA LateSame ==
    /\ Late!Init <=> LateP!Init
    /\ [Late!Next]_Late!vars <=> [LateP!Next]_LateP!vars
    /\ LateP!FencedStep <=> Late!FencedStep
<1>1. Late!Tick <=> LateP!Tick
  BY DEF Late!Tick, LateP!Tick, Late!Punctual, LateP!Punctual, Late!Holding,
         LateP!Holding
<1>2. \A p : /\ Late!Call(p) <=> LateP!Call(p)
             /\ Late!withNodeLease(p) <=> LateP!withNodeLease(p)
             /\ Late!Breaks(p) <=> LateP!Breaks(p)
  BY DEF Late!Call, LateP!Call, Late!withNodeLease, LateP!withNodeLease,
         Late!acquireNodeLease, LateP!acquireNodeLease, Late!GiveUp,
         LateP!GiveUp, Late!Begin, LateP!Begin, Late!RenewDue, LateP!RenewDue,
         Late!Done, LateP!Done, Late!releaseNodeLease, LateP!releaseNodeLease,
         Late!BareDone, LateP!BareDone, Late!Breaks, LateP!Breaks,
         Late!AcquireThrows, LateP!AcquireThrows, Late!ReleaseThrows,
         LateP!ReleaseThrows, Late!Crash, LateP!Crash, Late!Fresh, LateP!Fresh,
         Late!Fault, LateP!Fault, Late!Leave, LateP!Leave
<1>3. \A t : /\ Late!renewNodeLease(t) <=> LateP!renewNodeLease(t)
             /\ Late!RenewThrows(t) <=> LateP!RenewThrows(t)
  BY DEF Late!renewNodeLease, LateP!renewNodeLease, Late!RenewThrows,
         LateP!RenewThrows, Late!Fault, LateP!Fault
<1>4. UNCHANGED Late!vars <=> UNCHANGED LateP!vars
  BY DEF Late!vars, LateP!vars
<1>5. [Late!Next]_Late!vars <=> [LateP!Next]_LateP!vars
  <2>1. (\E p \in Proc : Late!Call(p) \/ Late!withNodeLease(p) \/ Late!Breaks(p))
        <=> (\E p \in Proc : LateP!Call(p) \/ LateP!withNodeLease(p) \/ LateP!Breaks(p))
    BY <1>2, Zenon
  <2>2. (\E t \in Token : Late!renewNodeLease(t) \/ Late!RenewThrows(t))
        <=> (\E t \in Token : LateP!renewNodeLease(t) \/ LateP!RenewThrows(t))
    BY <1>3, Zenon
  <2> QED
    BY <1>1, <1>4, <2>1, <2>2, Zenon DEF Late!Next, LateP!Next
<1> QED
  BY <1>5 DEF Late!Init, LateP!Init, Late!FencedStep, LateP!FencedStep

LEMMA NodeScenes ==
    /\ MCInit => /\ scene = "yield" => Yield!Init
                 /\ scene = "session" => Session!Init
                 /\ scene = "late" => LateP!Init
    /\ [MCNext]_all => /\ scene' = scene
                       /\ scene = "yield" => [Yield!Next]_Yield!vars
                       /\ scene = "session" => [Session!Next]_Session!vars
                       /\ scene = "late" => [LateP!Next]_LateP!vars
<1>1. MCInit => /\ scene = "yield" => Yield!Init
                /\ scene = "session" => Session!Init
                /\ scene = "late" => Late!Init
  BY DEF MCInit, LeaseInit, YieldInit, KickInit, SessionInit, LateInit
<1>2. [MCNext]_all => /\ scene' = scene
                      /\ scene = "yield" => [Yield!Next]_Yield!vars
                      /\ scene = "session" => [Session!Next]_Session!vars
                      /\ scene = "late" => [Late!Next]_Late!vars
  <2>1. CASE UNCHANGED all
    BY <2>1 DEF all, yieldVars, sessionVars, lateVars, Yield!vars, Yield!connVars,
                Yield!nodeVars, Session!vars, Late!vars
  <2>2. CASE MCNext
    <3>1. CASE SessionStep(SessionOver)
      BY <2>1, <3>1 DEF SessionStep, SessionOver
    <3> QED
      BY <2>2, <3>1 DEF MCNext, LeaseStep, YieldStep, KickStep, SessionStep, LateStep
  <2> QED
    BY <2>1, <2>2
<1> QED
  BY <1>1, <1>2, LateSame

\* A receiver that has yielded, or was stopped, keeps no socket and plans no return
\* (checkLease and stop in node/rxconnector.ts).
THEOREM NodeStandsDown == Tags /\ Clickless => (MCSpec => []StandsDown)
<1> SUFFICES ASSUME Tags, Clickless PROVE MCSpec => []StandsDown
  OBVIOUS
<1> DEFINE In == scene = "yield"
<1>1. MCInit => (In => Yield!Init)
  BY NodeScenes
<1>2. [MCNext]_all => (In' <=> In) /\ (In => [Yield!Next]_Yield!vars)
  BY NodeScenes
<1>3. (In => Yield!StandsDown /\ Yield!StopIsFinal) => StandsDown
  BY DEF StandsDown
<1> HIDE DEF In
<1> QED
  BY <1>1, <1>2, <1>3, ReceiverStandsDown, PTL DEF MCSpec, Yield!Spec

\* A link that is shown connected is watched, and its timers are its own (the
\* 'close' handler in node/rxconnector.ts).
THEOREM NodeLinkWatched == Tags /\ Clickless => (MCSpec => []LinkWatched)
<1> SUFFICES ASSUME Tags, Clickless PROVE MCSpec => []LinkWatched
  OBVIOUS
<1> DEFINE In == scene = "yield"
<1>1. MCInit => (In => Yield!Init)
  BY NodeScenes
<1>2. [MCNext]_all => (In' <=> In) /\ (In => [Yield!Next]_Yield!vars)
  BY NodeScenes
<1>3. (In => Yield!TypeOK /\ Yield!LinkWatched /\ Yield!NoLeakedBeat) => LinkWatched
  BY DEF LinkWatched
<1> HIDE DEF In
<1> QED
  BY <1>1, <1>2, <1>3, ReceiverLinkWatched, PTL DEF MCSpec, Yield!Spec

\* Nobody disturbs the holder of the lease: not the receiver that stands by, and not
\* a caller that lost the lease while it worked and releases it late, however many
\* renewals, statements and processes have failed (node/lease.ts).
THEOREM NodeHolderUndisturbed ==
    Tags /\ Clickless /\ Seen /\ Mishaps \in Nat => (MCSpec => HolderUndisturbed)
<1> SUFFICES ASSUME Tags, Clickless, Seen, Mishaps \in Nat
             PROVE  MCSpec => HolderUndisturbed
  OBVIOUS
<1> DEFINE In == scene = "yield"
           Behind == scene = "late"
           Kept == /\ In => Yield!Undisturbed
                   /\ Behind => Late!FencedStep
<1>1. MCInit => (In => Yield!Init) /\ (Behind => LateP!Init)
  BY NodeScenes
<1>2. [MCNext]_all => /\ In' <=> In
                      /\ Behind' <=> Behind
                      /\ In => [Yield!Next]_Yield!vars
                      /\ Behind => [LateP!Next]_LateP!vars
  BY NodeScenes
<1>3. [Yield!Undisturbed]_Yield!vars => Yield!Undisturbed
  BY DEF Yield!Undisturbed, Yield!vars, Yield!nodeVars
<1>4. [LateP!FencedStep]_LateP!vars => Late!FencedStep
  BY LateSame DEF LateP!FencedStep, LateP!vars
<1>5. /\ In => [Yield!Undisturbed]_Yield!vars
      /\ Behind => [LateP!FencedStep]_LateP!vars
      => [Kept]_all
  BY <1>3, <1>4
<1>6. LateP!Spec => LateP!Fenced
  BY LateP!LeaseFenced, TokenAssumption, TimeAssumption
<1>7. HolderUndisturbed <=> [][Kept]_all
  BY DEF HolderUndisturbed
<1> HIDE DEF In, Behind, Kept
<1> QED
  BY <1>1, <1>2, <1>5, <1>6, <1>7, SessionUndisturbed, PTL
     DEF MCSpec, Yield!Spec, Yield!HolderUndisturbed, LateP!Spec, LateP!Fenced

\* An errand that reports success has handed its frames over, one that is refused or
\* cut off has sent none, and no packet meets a node that is still dumping
\* (node/transport.ts, node/writeconfig.ts).
THEOREM NodeReportIsTrue == Configuration => (MCSpec => []ReportIsTrue)
<1> SUFFICES ASSUME Configuration PROVE MCSpec => []ReportIsTrue
  OBVIOUS
<1> DEFINE In == scene = "session"
<1>1. MCInit => (In => Session!Init)
  BY NodeScenes
<1>2. [MCNext]_all => (In' <=> In) /\ (In => [Session!Next]_Session!vars)
  BY NodeScenes
<1>3. (In => Session!TypeOK /\ Session!ReportIsTrue /\ Session!NothingBeforeReady)
      => ReportIsTrue
  BY DEF ReportIsTrue
<1> HIDE DEF In
<1> QED
  BY <1>1, <1>2, <1>3, SessionReports, PTL DEF MCSpec, Session!Spec

==============================================================================
