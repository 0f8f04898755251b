------------------------------- MODULE MCNode --------------------------------
(* The station node: the lease that serializes its users, the receiver that   *)
(* stands down for them (once with a stop, once with "connect now" clicks and *)
(* failed lease reads), and the session in which an operation reads or writes *)
(* the node's configuration.  "late" is the lease once more, with failures    *)
(* enough to lose it mid-flight.  A behaviour is one of the scenes; the       *)
(* variables of NodeLease keep their initial values in the others.            *)
EXTENDS NodeLease, Sequences

CONSTANTS Sock, NoSock, Poll, Nobody, Op, YieldEnv, KickEnv, \* NodeConnector
          Section, Unreported, Tries,                        \* NodeSession
          Mishaps                                            \* faults outside "lease"

VARIABLES
    scene, client, mishaps,
    sock, this, connected, yielded, stopped, retry, dog, beat, beats, poll,
    lease, kick, op, noticed, up,
    errand, attempt, outcome, toNode, fromNode, node,
    lateRow, lateLeft, latePc, lateMine, lateWait, lateAge, lateRen, lateFlight

leaseVars == <<row, left, pc, mine, wait, age, ren, flight, faults>>
yieldVars == <<sock, this, connected, yielded, stopped, retry, dog, beat,
               beats, poll, lease, kick, op, noticed, up>>
sessionVars == <<errand, attempt, outcome, toNode, fromNode, node>>
lateVars == <<lateRow, lateLeft, latePc, lateMine, lateWait, lateAge, lateRen,
              lateFlight>>
all == <<scene, client, mishaps, leaseVars, yieldVars, sessionVars, lateVars>>

\* A variable that the scene does not have.
Off == "off"
YieldOff ==
    /\ sock = Off /\ this = Off /\ connected = Off /\ yielded = Off
    /\ stopped = Off /\ retry = Off /\ dog = Off /\ beat = Off /\ beats = Off
    /\ poll = Off /\ lease = Off /\ kick = Off /\ op = Off /\ noticed = Off
    /\ up = Off
SessionOff ==
    /\ errand = Off /\ attempt = Off /\ outcome = Off /\ toNode = Off
    /\ fromNode = Off /\ node = Off
LateOff ==
    /\ lateRow = Off /\ lateLeft = Off /\ latePc = Off /\ lateMine = Off
    /\ lateWait = Off /\ lateAge = Off /\ lateRen = Off /\ lateFlight = Off

Yield == INSTANCE NodeConnector WITH
    Env <- YieldEnv, MaxFaults <- Mishaps, faults <- mishaps
Kick == INSTANCE NodeConnector WITH
    Env <- KickEnv, MaxFaults <- Mishaps, faults <- mishaps
Session == INSTANCE NodeSession WITH
    MaxFaults <- Mishaps, faults <- mishaps
Late == INSTANCE NodeLease WITH
    MaxFaults <- Mishaps, row <- lateRow, left <- lateLeft, pc <- latePc,
    mine <- lateMine, wait <- lateWait, age <- lateAge, ren <- lateRen,
    flight <- lateFlight, faults <- mishaps

------------------------------------------------------------------------------
LeaseInit ==
    /\ scene = "lease" /\ Init /\ client = Off /\ mishaps = Off /\ YieldOff
    /\ SessionOff /\ LateOff
LeaseStep(A) ==
    /\ scene = "lease" /\ A
    /\ UNCHANGED <<scene, client, mishaps, yieldVars, sessionVars, lateVars>>

YieldInit ==
    /\ scene = "yield" /\ Yield!Init /\ Init /\ SessionOff /\ LateOff
YieldStep(A) ==
    /\ scene = "yield" /\ A
    /\ UNCHANGED <<scene, leaseVars, sessionVars, lateVars>>

KickInit ==
    /\ scene = "kick" /\ Kick!Init /\ Init /\ SessionOff /\ LateOff
KickStep(A) ==
    /\ scene = "kick" /\ A
    /\ UNCHANGED <<scene, leaseVars, sessionVars, lateVars>>

SessionInit ==
    /\ scene = "session" /\ Session!Init /\ Init /\ YieldOff /\ LateOff
SessionStep(A) ==
    /\ scene = "session" /\ A
    /\ UNCHANGED <<scene, leaseVars, yieldVars, lateVars>>

LateInit ==
    /\ scene = "late" /\ Late!Init /\ Init /\ client = Off /\ YieldOff
    /\ SessionOff
LateStep(A) ==
    /\ scene = "late" /\ A
    /\ UNCHANGED <<scene, client, leaseVars, yieldVars, sessionVars>>

MCInit == LeaseInit \/ YieldInit \/ KickInit \/ SessionInit \/ LateInit

\* An errand that is over: the process goes on with other things.
SessionOver == outcome.end # "none" /\ UNCHANGED all

MCNext ==
    \/ LeaseStep(Next)
    \/ YieldStep(Yield!Next)
    \/ KickStep(Kick!Next)
    \/ SessionStep(Session!Next)
    \/ SessionStep(SessionOver)
    \/ LateStep(Late!Next)

MCSpec == MCInit /\ [][MCNext]_all

\* Each scene with the fairness of its module.
MCFairSpec ==
    /\ MCSpec
    /\ WF_all(LeaseStep(Tick))
    /\ \A p \in Proc : WF_all(LeaseStep(withNodeLease(p)))
    /\ \A t \in Token : WF_all(LeaseStep(renewNodeLease(t)))
    /\ WF_all(YieldStep(Yield!RetryFires))
    /\ WF_all(YieldStep(Yield!WatchdogFires))
    /\ WF_all(YieldStep(Yield!GraceOver))
    /\ WF_all(YieldStep(Yield!OpEnds))
    /\ WF_all(YieldStep(Yield!NodeUp))
    /\ \A s \in Sock :
         /\ WF_all(YieldStep(Yield!NodeAccepts(s)))
         /\ WF_all(YieldStep(Yield!ConnectFails(s)))
         /\ WF_all(YieldStep(Yield!Close(s)))
         /\ WF_all(YieldStep(Yield!NodeDropsIdle(s)))
    /\ \A p \in Poll : WF_all(YieldStep(Yield!checkLease(p)))
    /\ WF_all(KickStep(Kick!RetryFires))
    /\ WF_all(KickStep(Kick!WatchdogFires))
    /\ WF_all(KickStep(Kick!GraceOver))
    /\ WF_all(KickStep(Kick!OpEnds))
    /\ WF_all(KickStep(Kick!NodeUp))
    /\ \A s \in Sock :
         /\ WF_all(KickStep(Kick!NodeAccepts(s)))
         /\ WF_all(KickStep(Kick!ConnectFails(s)))
         /\ WF_all(KickStep(Kick!Close(s)))
         /\ WF_all(KickStep(Kick!NodeDropsIdle(s)))
    /\ \A p \in Poll : WF_all(KickStep(Kick!checkLease(p)))
    /\ WF_all(SessionStep(Session!Timers))

------------------------------------------------------------------------------
\* NodeConnector: a receiver that has yielded keeps no socket and plans no
\* return, and nothing of one that was stopped comes back.
StandsDown == scene = "yield" => Yield!StandsDown /\ Yield!StopIsFinal

\* NodeConnector: a link shown connected is watched, and no heartbeat interval
\* outlives its socket; its variables have their types.
LinkWatched == scene = "yield" => Yield!TypeOK /\ Yield!LinkWatched /\ Yield!NoLeakedBeat

\* Nobody disturbs the holder of the lease.  NodeConnector: the receiver does not
\* take the session from an operation.  NodeLease: a caller that has lost the
\* lease mid-flight leaves its successor's alone when it releases at last.
HolderUndisturbed ==
    [][/\ scene = "yield" => Yield!Undisturbed
       /\ scene = "late" => Late!FencedStep]_all

\* NodeSession: an errand that reports success has handed its frames over, one
\* that is refused or cut off has sent none, and nothing is sent to a node that
\* is still dumping its configuration; its variables have their types.
ReportIsTrue ==
    scene = "session" =>
        Session!TypeOK /\ Session!ReportIsTrue /\ Session!NothingBeforeReady

\* What has to end ends and what has to return returns: calls for the lease,
\* errands on the node, and the receiver's link.
NodeWorkGoesOn ==
    /\ \A p \in Proc : (scene = "lease" /\ pc[p] = "acquire") ~> pc[p] # "acquire"
    /\ <>(scene = "session" => outcome.end # "none")
    /\ <>[](scene = "yield" /\ ~stopped /\ ~lease /\ up) => <>[](scene = "yield" /\ Yield!Linked)
    /\ <>[](scene = "kick" /\ ~stopped /\ ~lease) => []<>(scene = "kick" /\ Kick!Linked)
==============================================================================
