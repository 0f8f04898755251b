--------------------------- MODULE TxVerdictProofs ---------------------------
(***************************************************************************)
(* What becomes of a row, for the deployment of one worker and for every   *)
(* set of rows and packet ids, every choice of environment events, every   *)
(* number of faults: verdicts rest on evidence and are final, nothing airs *)
(* that nobody asks for any more, the limiter is never outrun, and all of  *)
(* it implements what TxPromise promises.                                  *)
(***************************************************************************)
EXTENDS TxOutboxProofs

USE DEF dbVars, setVars, memVars, meshVars

-----------------------------------------------------------------------------
(* The list that reconcileConfirmations works through is not stale: nobody  *)
(* but the worker itself moves a row that has been sent.                    *)

WatchedFresh ==
    \A w \in Worker : pc[w] = "reconcile" =>
        \A r \in todo[w] : /\ st[r] \in Watchable
                           /\ snap[w][r].st = st[r] /\ snap[w][r].pid = pid[r]

WatchInv == TypeInv /\ SoleInv /\ WatchedFresh

LEMMA WatchGate ==
    ASSUME OneWorker, WatchInv, NEW w \in Worker,
           \/ failInterruptedSends(w) \/ ReadConfig(w) \/ ListWatchable(w)
           \/ reconcileConfirmations(w) \/ GateClosed(w) \/ ListPending(w)
    PROVE  WatchedFresh'
<1>a. \A v \in Worker : v = w
  BY DEF OneWorker
<1> USE DEF WatchInv, TypeInv, TypeOK
<1>1. CASE failInterruptedSends(w) \/ ReadConfig(w) \/ GateClosed(w) \/ ListPending(w)
  <2>1. pc'[w] # "reconcile"
    BY <1>1 DEF failInterruptedSends, ReadConfig, GateClosed, EndTick, ListPending
  <2> QED
    BY <1>a, <2>1 DEF WatchedFresh
<1>2. CASE ListWatchable(w)
  <2>1. \A r \in todo'[w] : r \in Row /\ st[r] \in Watchable
    BY <1>2 DEF ListWatchable
  <2>2. \A r \in Row : snap'[w][r].st = st[r] /\ snap'[w][r].pid = pid[r]
    BY <1>2 DEF ListWatchable, TakeSnapshot
  <2>3. UNCHANGED <<st, pid>>
    BY <1>2 DEF ListWatchable
  <2> QED
    BY <1>a, <2>1, <2>2, <2>3 DEF WatchedFresh
<1>3. CASE reconcileConfirmations(w)
  <2> PICK r \in todo[w] :
          /\ todo' = [todo EXCEPT ![w] = @ \ {r}]
          /\ st' = IF Verdict(r, snap[w][r]) # snap[w][r].st
                     THEN [st EXCEPT ![r] = Verdict(r, snap[w][r])]
                     ELSE st
    BY <1>3 DEF reconcileConfirmations
  <2>1. \A q \in todo'[w] : q \in todo[w] /\ st'[q] = st[q]
    OBVIOUS
  <2>2. UNCHANGED <<pid, snap, pc>>
    BY <1>3 DEF reconcileConfirmations
  <2> QED
    BY <1>a, <2>1, <2>2 DEF WatchedFresh
<1> QED
  BY <1>1, <1>2, <1>3

LEMMA WatchStep ==
    ASSUME OneWorker, WatchInv, [Next]_vars PROVE WatchInv'
<1>1. ASSUME NEW w \in Worker, Loop(w) \/ Send(w) \/ Fault(w) PROVE WatchedFresh'
  <2>a. \A v \in Worker : v = w
    BY DEF OneWorker
  <2>1. CASE StartUnreconciled(w) \/ Crash(w) \/ TickAborts(w)
    <3>1. pc'[w] # "reconcile"
      BY <2>1 DEF StartUnreconciled, Crash, TickAborts, WatchInv, TypeInv, TypeOK
    <3> QED
      BY <2>a, <3>1 DEF WatchedFresh
  <2>2. CASE RecordLost(w) \/ Loop(w) \/ Send(w)
    <3>1. pc[w] # "reconcile"
      BY <2>2 DEF RecordLost, Loop, SkipCooling, StopAtRateLimit, RefuseMuted, HoldBusy,
                  claimForSend, ClaimLost, LoopDone, Sendable, Ready, At, Send, EncodeFails,
                  Encode, DryRun, Airs, PublishFails, PublishSucceeds, RecordSent
    <3>2. pc'[w] # "reconcile"
      <4>1. CASE RecordLost(w)
        BY <4>1 DEF RecordLost, NextRow, WatchInv, TypeInv, TypeOK
      <4>2. CASE Loop(w)
        BY <3>1, <4>2 DEF Loop, SkipCooling, StopAtRateLimit, RefuseMuted, HoldBusy,
             claimForSend, ClaimLost, LoopDone, EndTick, WatchInv, TypeInv, TypeOK
      <4>3. CASE Send(w)
        BY <3>1, <4>3 DEF Send, EncodeFails, Encode, DryRun, Airs, PublishFails,
             PublishSucceeds, RecordSent, fail, failWith, Record, NextRow,
             WatchInv, TypeInv, TypeOK
      <4> QED
        BY <2>2, <4>1, <4>2, <4>3
    <3> QED
      BY <2>a, <3>2 DEF WatchedFresh
  <2> QED
    BY <1>1, <2>1, <2>2 DEF Fault
<1>2. ASSUME NEW w \in Worker, failInterruptedSends(w) \/ runTxOutbox(w)
      PROVE  WatchedFresh'
  BY <1>1, <1>2, WatchGate DEF runTxOutbox
<1>3. ASSUME WebStep PROVE WatchedFresh'
  <2>1. ASSUME NEW r \in Row, enqueueTx(r) \/ cancelOutbox(r) PROVE WatchedFresh'
    <3>1. st[r] \notin Watchable
      BY <2>1 DEF enqueueTx, cancelOutbox, Watchable, Pending
    <3>2. \A q \in Row : q # r => st'[q] = st[q]
      <4>1. st \in [Row -> TxState \cup {"none"}]
        BY DEF WatchInv, TypeInv, TypeOK
      <4> QED
        BY <2>1, <4>1 DEF enqueueTx, cancelOutbox
    <3>3. UNCHANGED <<pid, snap, todo, pc>>
      BY <2>1 DEF enqueueTx, cancelOutbox
    <3>4. \A w \in Worker : todo[w] \subseteq Row
      BY DEF WatchInv, TypeInv, TypeOK
    <3> QED
      BY <3>1, <3>2, <3>3, <3>4 DEF WatchInv, WatchedFresh
  <2>2. CASE ChangeSettings \/ MuteTarget \/ ChannelUtil
    BY <2>2 DEF ChangeSettings, MuteTarget, ChannelUtil, WatchInv, WatchedFresh
  <2> QED
    BY <1>3, <2>1, <2>2 DEF WebStep
<1>4. ASSUME MeshStep \/ TimeStep PROVE WatchedFresh'
  BY <1>4 DEF MeshStep, MeshHears, MeshAcks, MeshNaks, TimeStep, BackoffElapses,
              WatchElapses, WindowElapses, WatchInv, WatchedFresh
<1>5. ASSUME UNCHANGED vars PROVE WatchedFresh'
  BY <1>5 DEF vars, WatchInv, WatchedFresh
<1> QED
  BY <1>1, <1>2, <1>3, <1>4, <1>5, TypeStep, SoleStep DEF Next, WatchInv

LEMMA WatchInvariant == OneWorker => (Spec => []WatchInv)
<1> SUFFICES ASSUME OneWorker PROVE Spec => []WatchInv
  OBVIOUS
<1>1. Init => WatchedFresh
  BY DEF Init, WatchedFresh
<1>2. WatchInv /\ [Next]_vars => WatchInv'
  BY WatchStep
<1> QED
  BY <1>1, <1>2, TypeInvariant, SoleInvariant, PTL DEF Spec, WatchInv

-----------------------------------------------------------------------------
(* All the ways in which a step may move a row.                             *)

Refusing == muted \/ \E w \in Worker : util[w]
InHand(r) == \E w \in Worker : cur[w] = r

RowMove(r) ==
    \/ st'[r] = st[r]
    \/ st[r] = "none" /\ st'[r] = "queued"
    \/ st[r] \in Pending /\ st'[r] \in {"cancelled", "sending"}
    \/ st[r] \in Pending \cup {"cancelled"} /\ st'[r] \in {"failed", "held"} /\ Refusing
    \/ st[r] = "sending" /\ st'[r] = "failed"
    \/ st[r] = "sending" /\ InHand(r) /\ st'[r] \in {"queued", "dry_run"}
    \/ /\ st[r] = "sending" /\ st'[r] = "sent"
       /\ \E w \in Worker : pc[w] = "record" /\ cur[w] = r
    \/ /\ st[r] \in Watchable
       /\ \E row \in Snapshot : /\ row.st = st[r] /\ row.pid = pid[r]
                                /\ st'[r] = Verdict(r, row)

LEMMA MoveLoop ==
    ASSUME OneWorker, WatchInv, NEW w \in Worker, Loop(w), NEW r \in Row
    PROVE  RowMove(r)
<1> USE DEF WatchInv, TypeInv, TypeOK
<1>1. ASSUME NEW q \in Row,
             SkipCooling(w, q) \/ StopAtRateLimit(w, q) \/ ClaimLost(w, q) \/ LoopDone(w)
      PROVE  RowMove(r)
  BY <1>1 DEF SkipCooling, StopAtRateLimit, ClaimLost, LoopDone, EndTick, RowMove
<1>2. ASSUME NEW q \in Row, RefuseMuted(w, q) \/ HoldBusy(w, q) PROVE RowMove(r)
  <2>1. pc[w] = "loop" /\ q \in todo[w]
    BY <1>2 DEF RefuseMuted, HoldBusy, Ready, At
  <2>2. st[q] \in Pending \cup {"cancelled"}
    BY <2>1 DEF SoleInv, SnapshotFresh
  <2>3. st' = [st EXCEPT ![q] = "failed"] \/ st' = [st EXCEPT ![q] = "held"]
    BY <1>2 DEF RefuseMuted, HoldBusy
  <2>4. Refusing
    BY <1>2 DEF RefuseMuted, HoldBusy, Refused, Refusing
  <2> QED
    BY <2>2, <2>3, <2>4 DEF RowMove
<1>3. ASSUME NEW q \in Row, claimForSend(w, q) PROVE RowMove(r)
  BY <1>3 DEF claimForSend, RowMove
<1>4. CASE LoopDone(w)
  BY <1>4 DEF LoopDone, EndTick, RowMove
<1> QED
  BY <1>1, <1>2, <1>3, <1>4 DEF Loop

LEMMA MoveSend ==
    ASSUME OneWorker, WatchInv, NEW w \in Worker, Send(w), NEW r \in Row
    PROVE  RowMove(r)
<1> USE DEF WatchInv, TypeInv, TypeOK
<1>1. pc[w] \in Transmit
  BY DEF Send, EncodeFails, Encode, DryRun, Airs, PublishFails, PublishSucceeds,
         RecordSent, Transmit
<1>2. cur[w] \in Row /\ st[cur[w]] = "sending"
  BY <1>1 DEF MemoryOK, SoleInv, SnapshotFresh
<1>3. CASE Encode(w) \/ Airs(w) \/ PublishSucceeds(w)
  BY <1>3 DEF Encode, Airs, PublishSucceeds, RowMove
<1>4. CASE EncodeFails(w) \/ PublishFails(w)
  <2>1. st' = [st EXCEPT ![cur[w]] = "failed"] \/ st' = [st EXCEPT ![cur[w]] = "queued"]
    BY <1>4 DEF EncodeFails, PublishFails, fail, failWith
  <2> QED
    BY <1>2, <2>1 DEF RowMove, InHand
<1>5. CASE DryRun(w)
  BY <1>2, <1>5 DEF DryRun, Record, RowMove, InHand
<1>6. CASE RecordSent(w)
  BY <1>2, <1>6 DEF RecordSent, Record, RowMove
<1> QED
  BY <1>3, <1>4, <1>5, <1>6 DEF Send

LEMMA MoveGate ==
    ASSUME OneWorker, WatchInv, NEW w \in Worker, NEW r \in Row,
           \/ failInterruptedSends(w) \/ ReadConfig(w) \/ ListWatchable(w)
           \/ reconcileConfirmations(w) \/ GateClosed(w) \/ ListPending(w)
    PROVE  RowMove(r)
<1> USE DEF WatchInv, TypeInv, TypeOK
<1>1. CASE failInterruptedSends(w)
  BY <1>1 DEF failInterruptedSends, RowMove
<1>2. CASE ReadConfig(w) \/ ListWatchable(w) \/ GateClosed(w) \/ ListPending(w)
  BY <1>2 DEF ReadConfig, ListWatchable, GateClosed, EndTick, ListPending, RowMove
<1>3. CASE reconcileConfirmations(w)
  <2> PICK q \in todo[w] :
          st' = IF Verdict(q, snap[w][q]) # snap[w][q].st
                  THEN [st EXCEPT ![q] = Verdict(q, snap[w][q])]
                  ELSE st
    BY <1>3 DEF reconcileConfirmations
  <2>1. q \in Row /\ snap[w][q] \in Snapshot
    OBVIOUS
  <2>2. /\ st[q] \in Watchable
        /\ snap[w][q].st = st[q] /\ snap[w][q].pid = pid[q]
    BY <1>3 DEF reconcileConfirmations, WatchedFresh
  <2> DEFINE v == Verdict(q, snap[w][q])
  <2>3. st'[r] = st[r] \/ (r = q /\ st'[r] = v)
    <3> HIDE DEF v
    <3>1. st' = IF v # snap[w][q].st THEN [st EXCEPT ![q] = v] ELSE st
      BY DEF v
    <3> QED
      BY <2>1, <3>1
  <2> QED
    BY <2>1, <2>2, <2>3 DEF RowMove
<1> QED
  BY <1>1, <1>2, <1>3

\* Whatever happens, a row moves in one of these ways.
LEMMA EveryMove ==
    ASSUME OneWorker, WatchInv, [Next]_vars, NEW r \in Row PROVE RowMove(r)
<1>1. ASSUME NEW w \in Worker, failInterruptedSends(w) \/ runTxOutbox(w)
      PROVE  RowMove(r)
  BY <1>1, MoveGate, MoveLoop, MoveSend DEF runTxOutbox
<1>2. ASSUME NEW w \in Worker, Fault(w) PROVE RowMove(r)
  BY <1>2 DEF Fault, StartUnreconciled, Crash, TickAborts, RecordLost, RowMove
<1>3. ASSUME NEW q \in Row, enqueueTx(q) \/ cancelOutbox(q) PROVE RowMove(r)
  BY <1>3 DEF enqueueTx, cancelOutbox, RowMove, WatchInv, TypeInv, TypeOK
<1>4. CASE ChangeSettings \/ MuteTarget \/ ChannelUtil \/ MeshStep \/ TimeStep
  BY <1>4 DEF ChangeSettings, MuteTarget, ChannelUtil, MeshStep, MeshHears, MeshAcks,
              MeshNaks, TimeStep, BackoffElapses, WatchElapses, WindowElapses, RowMove
<1>5. CASE UNCHANGED vars
  BY <1>5 DEF vars, RowMove
<1> QED
  BY <1>1, <1>2, <1>3, <1>4, <1>5 DEF Next, WebStep

\* A row airs only from the hands of a worker.
LEMMA AirMove ==
    ASSUME WatchInv, [Next]_vars, NEW r \in Row, ~InHand(r)
    PROVE  airCount'[r] = airCount[r]
<1> USE DEF WatchInv, TypeInv, TypeOK
<1>1. ASSUME NEW w \in Worker, Airs(w) PROVE airCount'[r] = airCount[r]
  <2>1. cur[w] \in Row /\ cur[w] # r
    BY <1>1 DEF Airs, MemoryOK, Transmit, InHand
  <2> QED
    BY <1>1, <2>1 DEF Airs
<1>2. ASSUME NEW w \in Worker, Send(w) PROVE airCount'[r] = airCount[r]
  BY <1>1, <1>2 DEF Send, EncodeFails, Encode, DryRun, PublishFails, PublishSucceeds,
                    RecordSent, fail, failWith, Record
<1>3. ASSUME NEW w \in Worker, Loop(w) \/ Fault(w) PROVE airCount'[r] = airCount[r]
  BY <1>3 DEF Loop, SkipCooling, StopAtRateLimit, RefuseMuted, HoldBusy, claimForSend,
              ClaimLost, LoopDone, EndTick, Fault, StartUnreconciled, Crash, TickAborts,
              RecordLost
<1>4. ASSUME NEW w \in Worker, failInterruptedSends(w) \/ runTxOutbox(w)
      PROVE  airCount'[r] = airCount[r]
  BY <1>2, <1>3, <1>4 DEF failInterruptedSends, runTxOutbox, ReadConfig, ListWatchable,
        reconcileConfirmations, GateClosed, EndTick, ListPending
<1>5. CASE WebStep \/ MeshStep \/ TimeStep
  BY <1>5 DEF WebStep, enqueueTx, cancelOutbox, ChangeSettings, MuteTarget, ChannelUtil,
              MeshStep, MeshHears, MeshAcks, MeshNaks, TimeStep, BackoffElapses,
              WatchElapses, WindowElapses
<1>6. CASE UNCHANGED vars
  BY <1>6 DEF vars
<1> QED
  BY <1>3, <1>4, <1>5, <1>6 DEF Next

-----------------------------------------------------------------------------
(* Verdicts are final.                                                      *)

\* With one worker, a verdict stands whatever arrives in whatever order: a sent
\* row fails only on a NAK for its own packet that no ack contradicts, and a
\* settled row is not judged again (reconcileConfirmations).
THEOREM TxVerdictsStand == OneWorker => (Spec => VerdictsStand)
<1> SUFFICES ASSUME OneWorker PROVE Spec => VerdictsStand
  OBVIOUS
<1>1. WatchInv /\ [Next]_vars =>
        [\A r \in Row : st[r] \in {"dry_run", "acked", "failed"} => st'[r] = st[r]]_vars
  <2> SUFFICES ASSUME WatchInv, [Next]_vars, NEW r \in Row,
                      st[r] \in {"dry_run", "acked", "failed"}
               PROVE  st'[r] = st[r]
    OBVIOUS
  <2> QED
    BY EveryMove DEF RowMove, Pending, Watchable
<1>2. WatchInv /\ [Next]_vars =>
        [\A r \in Row : st[r] \in Watchable /\ st'[r] = "failed"
            => r \in WantAck /\ pid[r] \in naks \ acks]_vars
  <2> SUFFICES ASSUME WatchInv, [Next]_vars, NEW r \in Row,
                      st[r] \in Watchable, st'[r] = "failed"
               PROVE  r \in WantAck /\ pid[r] \in naks \ acks
    OBVIOUS
  <2>1. PICK row \in Snapshot : /\ row.st = st[r] /\ row.pid = pid[r]
                                /\ st'[r] = Verdict(r, row)
    BY EveryMove DEF RowMove, Pending, Watchable
  <2> QED
    BY <2>1 DEF Verdict, promote, Watchable
<1> QED
  BY <1>1, <1>2, WatchInvariant, PTL DEF Spec, VerdictsStand, NakRefutes, SettledIsFinal

-----------------------------------------------------------------------------
(* The gates: what a tick was let through, and what its guards have seen.   *)

\* A tick past the gate read a configuration that let it pass.
TickArmed ==
    \A w \in Worker :
        /\ pc[w] = "reconcile" => tcfg[w].enabled
        /\ pc[w] \in {"loop"} \cup Transmit => tcfg[w].enabled /\ tcfg[w].armed

\* Nobody is muted and the channel was never too busy.
Unrefused == muted = FALSE /\ busy = FALSE /\ \A w \in Worker : util[w] = FALSE

LEMMA ArmedStep ==
    ASSUME TypeInv, TickArmed, [Next]_vars PROVE TickArmed'
<1> USE DEF TypeInv, TypeOK
<1>1. ASSUME NEW w \in Worker, failInterruptedSends(w) \/ Fault(w) PROVE TickArmed'
  <2>1. \A v \in Worker : v # w => pc'[v] = pc[v] /\ tcfg'[v] = tcfg[v]
    BY <1>1 DEF failInterruptedSends, Fault, StartUnreconciled, Crash, TickAborts,
                RecordLost, Forget, NextRow
  <2>2. CASE RecordLost(w)
    BY <2>1, <2>2 DEF RecordLost, NextRow, TickArmed, Transmit
  <2>3. CASE failInterruptedSends(w) \/ StartUnreconciled(w) \/ Crash(w) \/ TickAborts(w)
    <3>1. pc'[w] \notin {"reconcile", "loop"} \cup Transmit
      BY <2>3 DEF failInterruptedSends, StartUnreconciled, Crash, TickAborts, Transmit
    <3> QED
      BY <2>1, <3>1 DEF TickArmed
  <2> QED
    BY <1>1, <2>2, <2>3 DEF Fault
<1>2. ASSUME NEW w \in Worker, ReadConfig(w) \/ ListWatchable(w)
                    \/ reconcileConfirmations(w) \/ GateClosed(w) \/ ListPending(w)
      PROVE  TickArmed'
  BY <1>2 DEF ReadConfig, ListWatchable, reconcileConfirmations, GateClosed, EndTick,
              Forget, ListPending, TickArmed, Transmit
<1>3. ASSUME NEW w \in Worker, Loop(w) PROVE TickArmed'
  <2>1. ASSUME NEW r \in Row, SkipCooling(w, r) \/ RefuseMuted(w, r) \/ HoldBusy(w, r)
                              \/ claimForSend(w, r) \/ ClaimLost(w, r)
        PROVE  TickArmed'
    BY <2>1 DEF SkipCooling, RefuseMuted, HoldBusy, claimForSend, ClaimLost, Sendable,
                Ready, At, TickArmed, Transmit
  <2>2. CASE EndTick(w)
    BY <2>2 DEF EndTick, Forget, TickArmed, Transmit
  <2> QED
    BY <1>3, <2>1, <2>2 DEF Loop, StopAtRateLimit, LoopDone
<1>4. ASSUME NEW w \in Worker, Send(w) PROVE TickArmed'
  BY <1>4 DEF Send, EncodeFails, Encode, DryRun, Airs, PublishFails, PublishSucceeds,
              RecordSent, fail, failWith, Record, NextRow, TickArmed, Transmit
<1>5. CASE WebStep \/ MeshStep \/ TimeStep
  BY <1>5 DEF WebStep, enqueueTx, cancelOutbox, ChangeSettings, MuteTarget, ChannelUtil,
              MeshStep, MeshHears, MeshAcks, MeshNaks, TimeStep, BackoffElapses,
              WatchElapses, WindowElapses, TickArmed
<1>6. CASE UNCHANGED vars
  BY <1>6 DEF vars, TickArmed
<1> QED
  BY <1>1, <1>2, <1>3, <1>4, <1>5, <1>6 DEF Next, runTxOutbox

LEMMA ArmedInvariant == Spec => [](TypeInv /\ TickArmed)
<1>1. Init => TickArmed
  BY DEF Init, TickArmed, Transmit
<1>2. TypeInv /\ TickArmed /\ [Next]_vars => TickArmed'
  BY ArmedStep
<1> QED
  BY <1>1, <1>2, TypeInvariant, PTL DEF Spec

LEMMA UnrefusedStep ==
    ASSUME {"mute", "busy"} \cap Env = {}, TypeInv, Unrefused, [Next]_vars
    PROVE  Unrefused'
<1> USE DEF TypeInv, TypeOK
<1>1. ASSUME NEW w \in Worker, failInterruptedSends(w) \/ Fault(w) PROVE Unrefused'
  BY <1>1 DEF failInterruptedSends, Fault, StartUnreconciled, Crash, TickAborts,
              RecordLost, Forget, Unrefused
<1>2. ASSUME NEW w \in Worker, ReadConfig(w) \/ ListWatchable(w)
                    \/ reconcileConfirmations(w) \/ GateClosed(w) \/ ListPending(w)
      PROVE  Unrefused'
  BY <1>2 DEF ReadConfig, ListWatchable, reconcileConfirmations, GateClosed, EndTick,
              Forget, ListPending, Unrefused
<1>3. ASSUME NEW w \in Worker, Loop(w) \/ Send(w) PROVE Unrefused'
  BY <1>3 DEF Loop, SkipCooling, StopAtRateLimit, RefuseMuted, HoldBusy, claimForSend,
              ClaimLost, LoopDone, EndTick, Forget, Send, EncodeFails, Encode, DryRun,
              Airs, PublishFails, PublishSucceeds, RecordSent, fail, failWith, Record,
              Unrefused
<1>4. CASE WebStep \/ MeshStep \/ TimeStep
  BY <1>4 DEF WebStep, enqueueTx, cancelOutbox, ChangeSettings, MuteTarget, ChannelUtil,
              MeshStep, MeshHears, MeshAcks, MeshNaks, TimeStep, BackoffElapses,
              WatchElapses, WindowElapses, Unrefused
<1>5. CASE UNCHANGED vars
  BY <1>5 DEF vars, Unrefused
<1> QED
  BY <1>1, <1>2, <1>3, <1>4, <1>5 DEF Next, runTxOutbox

\* Disarmed and between ticks, nothing airs, and it stays so until the settings change.
LEMMA HaltedStep ==
    ASSUME TypeInv, TickArmed, [Next]_vars, Halted
    PROVE  air' = air /\ airCount' = airCount /\ (Halted' \/ cfg' # cfg)
<1> USE DEF TypeInv, TypeOK
<1>a. \A w \in Worker : pc[w] \in {"loop"} \cup Transmit => tcfg[w].dry
  BY DEF Halted, TickArmed, Transmit
<1>1. ASSUME NEW w \in Worker, failInterruptedSends(w) \/ Fault(w)
      PROVE  air' = air /\ airCount' = airCount /\ Halted'
  BY <1>1 DEF failInterruptedSends, Fault, StartUnreconciled, Crash, TickAborts,
              RecordLost, Forget, NextRow, Halted, Off
<1>2. ASSUME NEW w \in Worker, ReadConfig(w) \/ ListWatchable(w)
                    \/ reconcileConfirmations(w) \/ GateClosed(w) \/ ListPending(w)
      PROVE  air' = air /\ airCount' = airCount /\ Halted'
  BY <1>2 DEF ReadConfig, ListWatchable, reconcileConfirmations, GateClosed, EndTick,
              Forget, ListPending, Halted, Off
<1>3. ASSUME NEW w \in Worker, Loop(w)
      PROVE  air' = air /\ airCount' = airCount /\ Halted'
  <2>1. ASSUME NEW r \in Row, SkipCooling(w, r) \/ RefuseMuted(w, r) \/ HoldBusy(w, r)
                              \/ claimForSend(w, r) \/ ClaimLost(w, r)
        PROVE  air' = air /\ airCount' = airCount /\ Halted'
    BY <1>a, <2>1 DEF SkipCooling, RefuseMuted, HoldBusy, claimForSend, ClaimLost,
                      Sendable, Ready, At, Halted
  <2>2. CASE EndTick(w)
    BY <2>2 DEF EndTick, Forget, Halted, Off
  <2> QED
    BY <1>3, <2>1, <2>2 DEF Loop, StopAtRateLimit, LoopDone
<1>4. ASSUME NEW w \in Worker, Send(w)
      PROVE  air' = air /\ airCount' = airCount /\ Halted'
  BY <1>a, <1>4 DEF Send, EncodeFails, Encode, DryRun, Airs, PublishFails,
              PublishSucceeds, RecordSent, fail, failWith, Record, NextRow, Halted, Transmit
<1>5. CASE WebStep
  BY <1>5 DEF WebStep, enqueueTx, cancelOutbox, ChangeSettings, MuteTarget, ChannelUtil,
              Halted
<1>6. CASE MeshStep \/ TimeStep
  BY <1>6 DEF MeshStep, MeshHears, MeshAcks, MeshNaks, TimeStep, BackoffElapses,
              WatchElapses, WindowElapses, Halted
<1>7. CASE UNCHANGED vars
  BY <1>7 DEF vars, Halted
<1> QED
  BY <1>1, <1>2, <1>3, <1>4, <1>5, <1>6, <1>7 DEF Next, runTxOutbox

LEMMA UnrefusedInvariant ==
    {"mute", "busy"} \cap Env = {} => (Spec => [](TypeInv /\ Unrefused))
<1> SUFFICES ASSUME {"mute", "busy"} \cap Env = {} PROVE Spec => [](TypeInv /\ Unrefused)
  OBVIOUS
<1>1. Init => Unrefused
  BY DEF Init, Unrefused
<1>2. TypeInv /\ Unrefused /\ [Next]_vars => Unrefused'
  BY UnrefusedStep
<1> QED
  BY <1>1, <1>2, TypeInvariant, PTL DEF Spec

-----------------------------------------------------------------------------
(* Nothing airs unasked.                                                    *)

\* With one worker, a row that an interrupted tick left in 'sending' is never
\* transmitted again, and nothing airs after a disarm once the tick in progress is
\* over; as long as neither the mute nor the channel-utilisation guard refuses a
\* row, a cancelled row stays cancelled, too (claimForSend, runTxOutbox).
THEOREM TxNothingAirsUnasked ==
    OneWorker /\ {"mute", "busy"} \cap Env = {} => (Spec => NothingAirsUnasked)
<1> SUFFICES ASSUME OneWorker, {"mute", "busy"} \cap Env = {}
             PROVE  Spec => NothingAirsUnasked
  OBVIOUS
<1>1. WatchInv /\ [Next]_vars =>
        [\A r \in Row :
           st[r] = "sending" /\ (\A w \in Worker : cur[w] # r)
             => st'[r] \in {"sending", "failed"} /\ airCount'[r] = airCount[r]]_vars
  <2> SUFFICES ASSUME WatchInv, [Next]_vars, NEW r \in Row,
                      st[r] = "sending", \A w \in Worker : cur[w] # r
               PROVE  st'[r] \in {"sending", "failed"} /\ airCount'[r] = airCount[r]
    OBVIOUS
  <2>1. ~InHand(r)
    BY DEF InHand
  <2>2. airCount'[r] = airCount[r]
    BY <2>1, AirMove
  <2>3. RowMove(r)
    BY EveryMove
  <2> QED
    BY <2>1, <2>2, <2>3 DEF RowMove, InHand, Pending, Watchable
<1>2. WatchInv /\ Unrefused /\ [Next]_vars =>
        [\A r \in Row : st[r] = "cancelled" => st'[r] = "cancelled"]_vars
  <2> SUFFICES ASSUME WatchInv, Unrefused, [Next]_vars, NEW r \in Row,
                      st[r] = "cancelled"
               PROVE  st'[r] = "cancelled"
    OBVIOUS
  <2>1. ~Refusing
    BY DEF Unrefused, Refusing
  <2>2. RowMove(r)
    BY EveryMove
  <2> QED
    BY <2>1, <2>2 DEF RowMove, Pending, Watchable
<1>3. TypeInv /\ TickArmed /\ [Next]_vars =>
        [Halted => air' = air /\ airCount' = airCount /\ (Halted' \/ cfg' # cfg)]_vars
  BY HaltedStep
<1> QED
  BY <1>1, <1>2, <1>3, WatchInvariant, UnrefusedInvariant, ArmedInvariant, PTL
  DEF Spec, NothingAirsUnasked, OrphanNeverResent, CancelIsFinal, KillSwitch

-----------------------------------------------------------------------------
(* Confirmations are earned.                                                *)

\* A row's packet id changes only while it is being encoded.
LEMMA PidMove ==
    ASSUME OneWorker, WatchInv, [Next]_vars, NEW r \in Row,
           \A w \in Worker : pc[w] = "claimed" => cur[w] # r
    PROVE  pid'[r] = pid[r]
<1> USE DEF WatchInv, TypeInv, TypeOK
<1>1. ASSUME NEW w \in Worker, Encode(w) PROVE pid'[r] = pid[r]
  BY <1>1 DEF Encode
<1>2. ASSUME NEW w \in Worker, DryRun(w) \/ RecordSent(w) PROVE pid'[r] = pid[r]
  <2>1. out[w] = pid[cur[w]]
    BY <1>2 DEF DryRun, RecordSent, SoleInv, SnapshotFresh
  <2> QED
    BY <1>2, <2>1 DEF DryRun, RecordSent, Record
<1>3. ASSUME NEW w \in Worker, Send(w) PROVE pid'[r] = pid[r]
  BY <1>1, <1>2, <1>3 DEF Send, EncodeFails, PublishFails, fail, failWith, Airs,
                          PublishSucceeds
<1>4. ASSUME NEW w \in Worker, Loop(w) \/ Fault(w) PROVE pid'[r] = pid[r]
  BY <1>4 DEF Loop, SkipCooling, StopAtRateLimit, RefuseMuted, HoldBusy, claimForSend,
              ClaimLost, LoopDone, EndTick, Fault, StartUnreconciled, Crash, TickAborts,
              RecordLost
<1>5. ASSUME NEW w \in Worker, failInterruptedSends(w) \/ runTxOutbox(w)
      PROVE  pid'[r] = pid[r]
  BY <1>3, <1>4, <1>5 DEF failInterruptedSends, runTxOutbox, ReadConfig, ListWatchable,
        reconcileConfirmations, GateClosed, EndTick, ListPending
<1>6. CASE WebStep \/ MeshStep \/ TimeStep
  BY <1>6 DEF WebStep, enqueueTx, cancelOutbox, ChangeSettings, MuteTarget, ChannelUtil,
              MeshStep, MeshHears, MeshAcks, MeshNaks, TimeStep, BackoffElapses,
              WatchElapses, WindowElapses
<1>7. CASE UNCHANGED vars
  BY <1>7 DEF vars
<1> QED
  BY <1>4, <1>5, <1>6, <1>7 DEF Next

\* What is handed over, the worker knows to have aired.
AiredInHand ==
    \A w \in Worker : pc[w] \in {"aired", "record"} => <<cur[w], out[w]>> \in air

\* What the mesh has seen and answered is never unseen, and a worker that reports
\* a handover has made it.
LEMMA MeshGrows ==
    ASSUME TypeInv, AiredInHand, [Next]_vars
    PROVE  air \subseteq air' /\ heard \subseteq heard' /\ acks \subseteq acks' /\ AiredInHand'
<1> USE DEF TypeInv, TypeOK
<1> DEFINE Grown == /\ air \subseteq air' /\ heard \subseteq heard'
                    /\ acks \subseteq acks' /\ AiredInHand'
<1>a. ASSUME NEW w \in Worker, UNCHANGED meshVars,
             \A v \in Worker : v # w => /\ pc'[v] = pc[v] /\ cur'[v] = cur[v]
                                        /\ out'[v] = out[v],
             pc'[w] \notin {"aired", "record"}
      PROVE  Grown
  BY <1>a DEF AiredInHand
<1>1. ASSUME NEW w \in Worker, Fault(w) \/ failInterruptedSends(w) PROVE Grown
  <2>1. /\ UNCHANGED meshVars
        /\ \A v \in Worker : v # w => /\ pc'[v] = pc[v] /\ cur'[v] = cur[v]
                                      /\ out'[v] = out[v]
    BY <1>1 DEF failInterruptedSends, Fault, StartUnreconciled, Crash, TickAborts,
                RecordLost, Forget, NextRow
  <2>2. pc'[w] \notin {"aired", "record"}
    BY <1>1 DEF failInterruptedSends, Fault, StartUnreconciled, Crash, TickAborts,
                RecordLost, NextRow
  <2> QED
    BY <2>1, <2>2, <1>a
<1>2. ASSUME NEW w \in Worker, ReadConfig(w) \/ ListWatchable(w)
                    \/ reconcileConfirmations(w) \/ GateClosed(w) \/ ListPending(w)
      PROVE  Grown
  <2>1. /\ UNCHANGED meshVars
        /\ \A v \in Worker : v # w => /\ pc'[v] = pc[v] /\ cur'[v] = cur[v]
                                      /\ out'[v] = out[v]
    BY <1>2 DEF ReadConfig, ListWatchable, reconcileConfirmations, GateClosed, EndTick,
                Forget, ListPending
  <2>2. pc'[w] \notin {"aired", "record"}
    BY <1>2 DEF ReadConfig, ListWatchable, reconcileConfirmations, GateClosed, EndTick,
                ListPending
  <2> QED
    BY <2>1, <2>2, <1>a
<1>3. ASSUME NEW w \in Worker, Loop(w) PROVE Grown
  <2>1. ASSUME EndTick(w) PROVE Grown
    <3>1. /\ UNCHANGED meshVars
          /\ \A v \in Worker : v # w => /\ pc'[v] = pc[v] /\ cur'[v] = cur[v]
                                        /\ out'[v] = out[v]
          /\ pc'[w] \notin {"aired", "record"}
      BY <2>1 DEF EndTick, Forget
    <3> QED
      BY <3>1, <1>a
  <2>2. ASSUME NEW r \in Row, SkipCooling(w, r) \/ RefuseMuted(w, r) \/ HoldBusy(w, r)
                              \/ claimForSend(w, r) \/ ClaimLost(w, r)
        PROVE  Grown
    <3>1. /\ UNCHANGED meshVars
          /\ \A v \in Worker : v # w => /\ pc'[v] = pc[v] /\ cur'[v] = cur[v]
                                        /\ out'[v] = out[v]
      BY <2>2 DEF SkipCooling, RefuseMuted, HoldBusy, claimForSend, ClaimLost
    <3>2. pc'[w] \notin {"aired", "record"}
      BY <2>2 DEF SkipCooling, RefuseMuted, HoldBusy, claimForSend, ClaimLost, Sendable,
                  Ready, At
    <3> QED
      BY <3>1, <3>2, <1>a
  <2> QED
    BY <1>3, <2>1, <2>2 DEF Loop, StopAtRateLimit, LoopDone
<1>4. ASSUME NEW w \in Worker, Send(w) PROVE Grown
  <2>1. CASE Airs(w)
    BY <2>1 DEF Airs, AiredInHand
  <2>2. CASE PublishSucceeds(w)
    BY <2>2 DEF PublishSucceeds, AiredInHand
  <2>3. ASSUME EncodeFails(w) \/ Encode(w) \/ PublishFails(w) \/ DryRun(w) \/ RecordSent(w)
        PROVE  Grown
    <3>1. /\ UNCHANGED meshVars
          /\ \A v \in Worker : v # w => /\ pc'[v] = pc[v] /\ cur'[v] = cur[v]
                                        /\ out'[v] = out[v]
      BY <2>3 DEF EncodeFails, Encode, PublishFails, fail, failWith, NextRow, DryRun,
                  RecordSent, Record
    <3>2. pc'[w] \notin {"aired", "record"}
      BY <2>3 DEF EncodeFails, Encode, PublishFails, fail, failWith, NextRow, DryRun,
                  RecordSent, Record
    <3> QED
      BY <3>1, <3>2, <1>a
  <2> QED
    BY <1>4, <2>1, <2>2, <2>3 DEF Send
<1>5. CASE WebStep
  BY <1>5 DEF WebStep, enqueueTx, cancelOutbox, ChangeSettings, MuteTarget, ChannelUtil,
              AiredInHand
<1>6. CASE MeshStep \/ TimeStep
  BY <1>6 DEF MeshStep, MeshHears, MeshAcks, MeshNaks, TimeStep, BackoffElapses,
              WatchElapses, WindowElapses, AiredInHand
<1>7. CASE UNCHANGED vars
  BY <1>7 DEF vars, AiredInHand
<1> QED
  BY <1>1, <1>2, <1>3, <1>4, <1>5, <1>6, <1>7 DEF Next, runTxOutbox

LEMMA EvidenceStep ==
    ASSUME OneWorker, WatchInv, EvidenceBacked, AiredInHand, [Next]_vars
    PROVE  EvidenceBacked'
<1> SUFFICES ASSUME NEW r \in Row, st'[r] \in Watchable \cup {"acked"}
             PROVE  /\ <<r, pid'[r]>> \in air'
                    /\ st'[r] = "heard" => pid'[r] \in heard'
                    /\ st'[r] = "acked" => r \in WantAck /\ pid'[r] \in acks'
  BY DEF EvidenceBacked, Watchable
<1>1. air \subseteq air' /\ heard \subseteq heard' /\ acks \subseteq acks'
  BY MeshGrows DEF WatchInv
<1>2. RowMove(r)
  BY EveryMove
<1>3. ASSUME st[r] # "sending" PROVE pid'[r] = pid[r]
  BY <1>3, PidMove DEF WatchInv, SoleInv, SnapshotFresh, Transmit
<1>4. CASE st'[r] = st[r]
  BY <1>1, <1>3, <1>4 DEF EvidenceBacked, Watchable
<1>5. CASE st[r] = "sending" /\ st'[r] = "sent"
  <2>1. PICK w \in Worker : pc[w] = "record" /\ cur[w] = r
    BY <1>2, <1>5 DEF RowMove, Watchable
  <2>2. pid'[r] = pid[r]
    BY <2>1, PidMove DEF OneWorker
  <2>3. <<r, pid[r]>> \in air
    BY <2>1 DEF AiredInHand, WatchInv, SoleInv, SnapshotFresh
  <2> QED
    BY <1>1, <1>5, <2>2, <2>3
<1>6. CASE st[r] \in Watchable
  <2>1. pid'[r] = pid[r] /\ <<r, pid[r]>> \in air
    BY <1>3, <1>6 DEF EvidenceBacked, Watchable
  <2>2. \/ st'[r] = st[r]
        \/ \E row \in Snapshot : /\ row.st = st[r] /\ row.pid = pid[r]
                                 /\ st'[r] = Verdict(r, row)
    BY <1>2, <1>6 DEF RowMove, Watchable, Pending
  <2> QED
    BY <1>1, <1>4, <1>6, <2>1, <2>2 DEF Verdict, promote, EvidenceBacked, Watchable
<1> QED
  BY <1>2, <1>4, <1>5, <1>6 DEF RowMove, Watchable, Pending

\* With one worker, a row is shown sent, heard or acked only on evidence about the
\* very packet that aired for it, however late its confirmations come
\* (reconcileConfirmations).
THEOREM TxEvidenceBacked == OneWorker => (Spec => []EvidenceBacked)
<1> SUFFICES ASSUME OneWorker PROVE Spec => []EvidenceBacked
  OBVIOUS
<1>1. Init => EvidenceBacked /\ AiredInHand
  BY DEF Init, EvidenceBacked, AiredInHand, Watchable
<1>2. WatchInv /\ EvidenceBacked /\ AiredInHand /\ [Next]_vars
        => EvidenceBacked' /\ AiredInHand'
  BY EvidenceStep, MeshGrows DEF WatchInv
<1> QED
  BY <1>1, <1>2, WatchInvariant, PTL DEF Spec

-----------------------------------------------------------------------------
(* The rate limiter is not outrun.                                          *)

CountedSent == {r \in inHour : st[r] \in Counted}

\* What a tick has counted covers what the table shows, with room for the row that
\* is being sent.
TickCounts ==
    \A w \in Worker :
        /\ pc[w] \in {"loop", "claimed", "encoded", "aired"} => RecentSent <= recent[w]
        /\ pc[w] \in {"claimed", "encoded", "aired"} => recent[w] < Cap
        /\ pc[w] = "record" => RecentSent < recent[w] /\ recent[w] <= Cap

LimitInv == CountedWithinCap /\ TickCounts

\* Rows leave the count on their own, by time or by a verdict.
Fewer == RecentSent \in Nat /\ RecentSent' \in Nat /\ RecentSent' <= RecentSent

LEMMA FewerCounted ==
    ASSUME TypeInv, CountedSent' \subseteq CountedSent PROVE Fewer
<1>1. IsFiniteSet(CountedSent)
  <2>1. CountedSent \subseteq Row
    BY DEF CountedSent, TypeInv, TypeOK
  <2> QED
    BY <2>1, RowAssumption, FS_Subset
<1>2. Cardinality(CountedSent') <= Cardinality(CountedSent) /\ IsFiniteSet(CountedSent')
  BY <1>1, FS_Subset
<1> QED
  BY <1>1, <1>2, FS_CardinalityType DEF RecentSent, CountedSent, Fewer

\* They enter it one at a time.
LEMMA OneMoreCounted ==
    ASSUME TypeInv, NEW r, CountedSent' \subseteq CountedSent \cup {r}
    PROVE  /\ RecentSent \in Nat /\ RecentSent' \in Nat
           /\ RecentSent' <= RecentSent + 1
<1>1. IsFiniteSet(CountedSent)
  <2>1. CountedSent \subseteq Row
    BY DEF CountedSent, TypeInv, TypeOK
  <2> QED
    BY <2>1, RowAssumption, FS_Subset
<1>2. /\ IsFiniteSet(CountedSent \cup {r})
      /\ Cardinality(CountedSent) \in Nat
      /\ Cardinality(CountedSent \cup {r}) <= Cardinality(CountedSent) + 1
  <2>1. Cardinality(CountedSent) \in Nat
    BY <1>1, FS_CardinalityType
  <2>2. /\ IsFiniteSet(CountedSent \cup {r})
        /\ Cardinality(CountedSent \cup {r}) =
             IF r \in CountedSent THEN Cardinality(CountedSent)
                                  ELSE Cardinality(CountedSent) + 1
    BY <1>1, FS_AddElement
  <2> QED
    BY <2>1, <2>2
<1>3. /\ Cardinality(CountedSent') <= Cardinality(CountedSent \cup {r})
      /\ IsFiniteSet(CountedSent')
  BY <1>2, FS_Subset
<1>4. Cardinality(CountedSent') \in Nat /\ Cardinality(CountedSent \cup {r}) \in Nat
  BY <1>2, <1>3, FS_CardinalityType
<1>5. Cardinality(CountedSent') <= Cardinality(CountedSent) + 1
  BY <1>2, <1>3, <1>4
<1> QED
  BY <1>2, <1>4, <1>5 DEF RecentSent, CountedSent

\* A tick that is over counts nothing.
LEMMA LimitRelease ==
    ASSUME OneWorker, TypeInv, LimitInv, NEW w \in Worker,
           pc'[w] \in {"down", "idle", "watch", "reconcile"},
           CountedSent' \subseteq CountedSent
    PROVE  LimitInv'
<1>1. \A v \in Worker : v = w
  BY DEF OneWorker
<1>2. Fewer
  BY FewerCounted
<1>3. CountedWithinCap'
  BY <1>2, BoundAssumption DEF LimitInv, CountedWithinCap, Fewer
<1> QED
  BY <1>1, <1>3 DEF LimitInv, TickCounts

LEMMA LimitGate ==
    ASSUME OneWorker, WatchInv, LimitInv, NEW w \in Worker,
           \/ failInterruptedSends(w) \/ ReadConfig(w) \/ ListWatchable(w)
           \/ reconcileConfirmations(w) \/ GateClosed(w) \/ ListPending(w)
    PROVE  LimitInv'
<1> USE DEF WatchInv, TypeInv, TypeOK
<1>1. CASE failInterruptedSends(w)
  <2>1. CountedSent' \subseteq CountedSent
    BY <1>1 DEF failInterruptedSends, CountedSent, Counted
  <2>2. pc'[w] = "idle"
    BY <1>1 DEF failInterruptedSends
  <2> QED
    BY <2>1, <2>2, LimitRelease
<1>2. CASE ReadConfig(w) \/ ListWatchable(w) \/ GateClosed(w)
  <2>1. CountedSent' \subseteq CountedSent
    BY <1>2 DEF ReadConfig, ListWatchable, GateClosed, EndTick, CountedSent
  <2>2. pc'[w] \in {"down", "idle", "watch", "reconcile"}
    BY <1>2 DEF ReadConfig, ListWatchable, GateClosed, EndTick
  <2> QED
    BY <2>1, <2>2, LimitRelease
<1>3. CASE reconcileConfirmations(w)
  <2>1. CountedSent' \subseteq CountedSent
    <3> PICK r \in todo[w] :
            st' = IF Verdict(r, snap[w][r]) # snap[w][r].st
                    THEN [st EXCEPT ![r] = Verdict(r, snap[w][r])]
                    ELSE st
      BY <1>3 DEF reconcileConfirmations
    <3>1. st[r] \in Counted
      BY <1>3 DEF reconcileConfirmations, WatchedFresh, Watchable, Counted
    <3>2. \A q \in Row : q # r => st'[q] = st[q]
      OBVIOUS
    <3>3. inHour' = inHour /\ inHour \subseteq Row
      BY <1>3 DEF reconcileConfirmations
    <3> QED
      BY <3>1, <3>2, <3>3 DEF CountedSent
  <2>2. pc'[w] = "reconcile"
    BY <1>3 DEF reconcileConfirmations
  <2> QED
    BY <2>1, <2>2, LimitRelease
<1>4. CASE ListPending(w)
  <2>1. RecentSent' = RecentSent /\ recent'[w] = RecentSent /\ pc'[w] = "loop"
    BY <1>4 DEF ListPending, RecentSent
  <2>2. \A v \in Worker : v = w
    BY DEF OneWorker
  <2>3. RecentSent \in Nat
    BY RecentSentType
  <2> QED
    BY <2>1, <2>2, <2>3 DEF LimitInv, TickCounts, CountedWithinCap
<1> QED
  BY <1>1, <1>2, <1>3, <1>4

LEMMA LimitLoop ==
    ASSUME OneWorker, WatchInv, LimitInv, NEW w \in Worker, Loop(w)
    PROVE  LimitInv'
<1>a. \A v \in Worker : v = w
  BY DEF OneWorker
<1> USE DEF WatchInv, TypeInv, TypeOK
<1>1. ASSUME NEW r \in Row, SkipCooling(w, r) \/ ClaimLost(w, r) PROVE LimitInv'
  BY <1>1 DEF SkipCooling, ClaimLost, LimitInv, TickCounts, CountedWithinCap, RecentSent
<1>2. ASSUME NEW r \in Row, RefuseMuted(w, r) \/ HoldBusy(w, r) PROVE LimitInv'
  <2>1. CountedSent' \subseteq CountedSent
    BY <1>2 DEF RefuseMuted, HoldBusy, CountedSent, Counted
  <2>2. Fewer
    BY <2>1, FewerCounted
  <2>3. pc' = pc /\ recent' = recent /\ pc[w] = "loop"
    BY <1>2 DEF RefuseMuted, HoldBusy, Ready, At
  <2>4. recent[w] \in Nat
    OBVIOUS
  <2> QED
    BY <1>a, <2>2, <2>3, <2>4, BoundAssumption
    DEF LimitInv, TickCounts, CountedWithinCap, Fewer
<1>3. ASSUME NEW r \in Row, claimForSend(w, r) PROVE LimitInv'
  <2>1. CountedSent' \subseteq CountedSent
    BY <1>3 DEF claimForSend, CountedSent, Counted
  <2>2. Fewer
    BY <2>1, FewerCounted
  <2>3. /\ pc'[w] = "claimed" /\ recent' = recent /\ pc[w] = "loop"
        /\ recent[w] < Cap
    BY <1>3 DEF claimForSend, Sendable, Ready, At, rateAllowed
  <2>4. recent[w] \in Nat
    OBVIOUS
  <2> QED
    BY <1>a, <2>2, <2>3, <2>4, BoundAssumption
    DEF LimitInv, TickCounts, CountedWithinCap, Fewer
<1>4. CASE EndTick(w)
  <2>1. CountedSent' \subseteq CountedSent /\ pc'[w] = "idle"
    BY <1>4 DEF EndTick, CountedSent
  <2> QED
    BY <2>1, LimitRelease
<1> QED
  BY <1>1, <1>2, <1>3, <1>4 DEF Loop, StopAtRateLimit, LoopDone

LEMMA LimitSend ==
    ASSUME OneWorker, WatchInv, LimitInv, NEW w \in Worker, Send(w) \/ RecordLost(w)
    PROVE  LimitInv'
<1>a. \A v \in Worker : v = w
  BY DEF OneWorker
<1> USE DEF WatchInv, TypeInv, TypeOK
<1>b. recent[w] \in Nat /\ RecentSent \in Nat
  BY RecentSentType
<1>1. CASE Encode(w) \/ Airs(w) \/ PublishSucceeds(w) \/ RecordLost(w)
  <2>1. RecentSent' = RecentSent
    BY <1>1 DEF Encode, Airs, PublishSucceeds, RecordLost, RecentSent
  <2>2. \/ /\ pc[w] \in {"claimed", "encoded"} /\ pc'[w] \in {"encoded", "aired"}
           /\ recent'[w] = recent[w]
        \/ pc[w] = "aired" /\ pc'[w] = "record" /\ recent'[w] = recent[w] + 1
        \/ pc[w] = "record" /\ pc'[w] = "loop" /\ recent'[w] = recent[w]
    BY <1>1 DEF Encode, Airs, PublishSucceeds, RecordLost, NextRow
  <2> QED
    BY <1>a, <1>b, <2>1, <2>2, BoundAssumption DEF LimitInv, TickCounts, CountedWithinCap
<1>2. CASE EncodeFails(w) \/ PublishFails(w)
  <2>1. CountedSent' \subseteq CountedSent
    BY <1>2 DEF EncodeFails, PublishFails, fail, failWith, CountedSent, Counted
  <2>2. Fewer
    BY <2>1, FewerCounted
  <2>3. /\ pc[w] \in {"claimed", "encoded", "aired"} /\ pc'[w] = "loop"
        /\ recent' = recent
    BY <1>2 DEF EncodeFails, PublishFails, fail, failWith, NextRow
  <2> QED
    BY <1>a, <1>b, <2>2, <2>3, BoundAssumption
    DEF LimitInv, TickCounts, CountedWithinCap, Fewer
<1>3. CASE DryRun(w) \/ RecordSent(w)
  <2>1. CountedSent' \subseteq CountedSent \cup {cur[w]}
    BY <1>3 DEF DryRun, RecordSent, Record, CountedSent
  <2>2. RecentSent' \in Nat /\ RecentSent' <= RecentSent + 1
    BY <2>1, OneMoreCounted
  <2>3. /\ pc'[w] = "loop"
        /\ \/ pc[w] = "encoded" /\ recent'[w] = recent[w] + 1
           \/ pc[w] = "record" /\ recent'[w] = recent[w]
    BY <1>3 DEF DryRun, RecordSent, Record, NextRow
  <2> QED
    BY <1>a, <1>b, <2>2, <2>3, BoundAssumption DEF LimitInv, TickCounts, CountedWithinCap
<1> QED
  BY <1>1, <1>2, <1>3 DEF Send

LEMMA LimitStep ==
    ASSUME OneWorker, WatchInv, LimitInv, [Next]_vars PROVE LimitInv'
<1> USE DEF WatchInv, TypeInv, TypeOK
<1>1. ASSUME NEW w \in Worker, failInterruptedSends(w) \/ runTxOutbox(w) PROVE LimitInv'
  BY <1>1, LimitGate, LimitLoop, LimitSend DEF runTxOutbox
<1>2. ASSUME NEW w \in Worker, StartUnreconciled(w) \/ Crash(w) \/ TickAborts(w)
      PROVE  LimitInv'
  <2>1. CountedSent' \subseteq CountedSent /\ pc'[w] \in {"down", "idle"}
    BY <1>2 DEF StartUnreconciled, Crash, TickAborts, CountedSent
  <2> QED
    BY <2>1, LimitRelease
<1>3. ASSUME UNCHANGED <<pc, recent>>, CountedSent' \subseteq CountedSent PROVE LimitInv'
  <2>1. Fewer
    BY <1>3, FewerCounted
  <2>2. \A w \in Worker : recent[w] \in Nat
    OBVIOUS
  <2> QED
    BY <1>3, <2>1, <2>2, BoundAssumption DEF LimitInv, TickCounts, CountedWithinCap, Fewer
<1>4. CASE WebStep \/ MeshStep \/ \E r \in Row : BackoffElapses(r) \/ WatchElapses(r)
  <2>1. UNCHANGED <<pc, recent>> /\ CountedSent' \subseteq CountedSent
    BY <1>4 DEF WebStep, enqueueTx, cancelOutbox, ChangeSettings, MuteTarget, ChannelUtil,
                MeshStep, MeshHears, MeshAcks, MeshNaks, BackoffElapses, WatchElapses,
                CountedSent, Counted
  <2> QED
    BY <1>3, <2>1
<1>5. CASE WindowElapses
  <2>1. RecentSent' = 0
    BY <1>5, FS_EmptySet DEF WindowElapses, RecentSent
  <2>2. \A w \in Worker : pc'[w] \in {"loop", "claimed"} \cup (PC \ {"encoded", "aired", "record"})
                          /\ recent'[w] = 0 /\ pc'[w] = pc[w] /\ recent[w] \in Nat
    BY <1>5 DEF WindowElapses
  <2> QED
    BY <2>1, <2>2, BoundAssumption DEF LimitInv, TickCounts, CountedWithinCap
<1>6. CASE UNCHANGED vars
  BY <1>6 DEF vars, LimitInv, TickCounts, CountedWithinCap, RecentSent
<1> QED
  BY <1>1, <1>2, <1>4, <1>5, <1>6, LimitSend DEF Next, Fault, TimeStep

\* With one worker, the sends that the limiter can see stay within its cap over any
\* number of ticks, attempts, failed recordings and restarts (recentSentAtMs and the
\* tick's own counter).
THEOREM TxCountedWithinCap == OneWorker => (Spec => []CountedWithinCap)
<1> SUFFICES ASSUME OneWorker PROVE Spec => []CountedWithinCap
  OBVIOUS
<1>1. Init => LimitInv
  <2> SUFFICES ASSUME Init PROVE LimitInv
    OBVIOUS
  <2>1. RecentSent = 0
    BY FS_EmptySet DEF Init, RecentSent
  <2> QED
    BY <2>1, BoundAssumption DEF Init, LimitInv, TickCounts, CountedWithinCap
<1>2. WatchInv /\ LimitInv /\ [Next]_vars => LimitInv'
  BY LimitStep
<1> QED
  BY <1>1, <1>2, WatchInvariant, PTL DEF Spec, LimitInv

-----------------------------------------------------------------------------
(* The outbox with one worker implements TxPromise: Init maps to its Init,  *)
(* every step to one of its steps or a stutter. The refinement mapping.     *)

Reported == [r \in Row |-> Verdicts(st[r])]
Seen     == [r \in Row |-> {p \in Pid : <<r, p>> \in air}]

PromiseStep == [Promise!Next]_<<Reported, Seen>>

LEMMA ReportOf ==
    ASSUME NEW s \in TxState \cup {"none"}
    PROVE  /\ s \in Pending \cup {"sending"} => Verdicts(s) = "open"
           /\ s = "cancelled" => Verdicts(s) = "withdrawn"
           /\ s = "dry_run" => Verdicts(s) = "rehearsed"
           /\ s \in {"heard", "acked"} => Verdicts(s) = "delivered"
           /\ s \in {"none", "sent", "failed"} => Verdicts(s) = s
BY DEF Verdicts, TxState, Pending

\* A step that changes no verdict and airs nothing is a stutter.
LEMMA Stutter ==
    ASSUME air' = air, \A r \in Row : Verdicts(st'[r]) = Verdicts(st[r])
    PROVE  PromiseStep
BY DEF PromiseStep, Reported, Seen

\* The moves of one verdict that TxPromise allows while nothing airs.
Allowed(a, b, aired) ==
    \/ a = b
    \/ a = "none" /\ b = "open"
    \/ a = "open" /\ b \in {"withdrawn", "rehearsed"}
    \/ a = "withdrawn" /\ b = "open"
    \/ a = "open" /\ b = "sent" /\ aired
    \/ a = "sent" /\ b = "delivered"
    \/ a \in {"open", "withdrawn", "sent", "delivered"} /\ b = "failed"

LEMMA OneVerdict ==
    ASSUME NEW r \in Row, air' = air,
           \A q \in Row : q # r => Verdicts(st'[q]) = Verdicts(st[q]),
           Allowed(Verdicts(st[r]), Verdicts(st'[r]), \E p \in Pid : <<r, p>> \in air)
    PROVE  PromiseStep
<1> DEFINE a == Verdicts(st[r])
           b == Verdicts(st'[r])
<1>1. Seen' = Seen
  BY DEF Seen
<1>2. Reported' = [Reported EXCEPT ![r] = b]
  BY DEF Reported
<1>3. Reported[r] = a /\ Seen[r] = {p \in Pid : <<r, p>> \in air}
  BY DEF Reported, Seen
<1> HIDE DEF a, b
<1>4. CASE a = b
  <2>1. Reported' = Reported
    BY <1>2, <1>3, <1>4 DEF Reported
  <2> QED
    BY <1>1, <2>1 DEF PromiseStep
<1>5. CASE b = "failed" /\ a \in {"open", "withdrawn", "sent", "delivered"}
  <2>1. {r} \in SUBSET {q \in Row : Reported[q] \notin {"none", "rehearsed", "failed"}}
    BY <1>3, <1>5
  <2>2. Reported' = [q \in Row |-> IF q \in {r} THEN "failed" ELSE Reported[q]]
    BY <1>2, <1>5 DEF Reported
  <2>3. Promise!GiveUp
    BY <1>1, <2>1, <2>2 DEF Promise!GiveUp, Reported, Seen
  <2> QED
    BY <2>3 DEF PromiseStep, Promise!Next
<1>6. CASE \/ a = "none" /\ b = "open"
           \/ a = "open" /\ b \in {"withdrawn", "rehearsed"}
           \/ a = "withdrawn" /\ b = "open"
           \/ a = "open" /\ b = "sent" /\ Seen[r] # {}
           \/ a = "sent" /\ b = "delivered"
  <2>1. Promise!Becomes(r, b)
    BY <1>1, <1>2 DEF Promise!Becomes, Reported, Seen
  <2>2. \/ Promise!Accept(r) \/ Promise!Withdraw(r) \/ Promise!Reopen(r)
        \/ Promise!Rehearse(r) \/ Promise!Send(r) \/ Promise!Deliver(r)
    BY <1>3, <1>6, <2>1 DEF Promise!Accept, Promise!Withdraw, Promise!Reopen,
       Promise!Rehearse, Promise!Send, Promise!Deliver, Reported, Seen
  <2> QED
    BY <2>2 DEF PromiseStep, Promise!Next
<1>7. \/ a = b
      \/ b = "failed" /\ a \in {"open", "withdrawn", "sent", "delivered"}
      \/ a = "none" /\ b = "open"
      \/ a = "open" /\ b \in {"withdrawn", "rehearsed"}
      \/ a = "withdrawn" /\ b = "open"
      \/ a = "open" /\ b = "sent" /\ Seen[r] # {}
      \/ a = "sent" /\ b = "delivered"
  BY <1>3 DEF Allowed, a, b
<1> QED
  BY <1>4, <1>5, <1>6, <1>7

-----------------------------------------------------------------------------
(* Every step of the outbox. *)

LEMMA AnEmission ==
    ASSUME NEW r \in Row, Promise!Emit(r) PROVE PromiseStep
BY DEF PromiseStep, Promise!Next

\* The copy that leaves is the first, or carries the id of the first.
LEMMA EmitStep ==
    ASSUME WatchInv, NEW w \in Worker, Airs(w) PROVE PromiseStep
<1> USE DEF WatchInv, TypeInv, TypeOK
<1> PICK r \in Row : r = cur[w]
  BY DEF Airs, MemoryOK, Transmit
<1>1. out[w] \in Pid /\ st[r] = "sending" /\ out[w] = pid[r]
  BY DEF Airs, MemoryOK, SoleInv, SnapshotFresh, Transmit
<1>2. air' = air \cup {<<r, out[w]>>} /\ st' = st
  BY DEF Airs
<1>3. Reported' = Reported /\ Reported[r] = "open"
  BY <1>1, <1>2, ReportOf DEF Reported
<1>4. Seen[r] \subseteq {out[w]}
  BY <1>1 DEF Seen, SoleInv, AirPid
<1>5. Seen' = [Seen EXCEPT ![r] = {out[w]}]
  <2>1. ASSUME NEW q \in Row PROVE Seen'[q] = IF q = r THEN {out[w]} ELSE Seen[q]
    BY <1>1, <1>2, <1>4 DEF Seen
  <2> QED
    BY <1>1, <2>1 DEF Seen
<1>6. Promise!Emit(r)
  BY <1>1, <1>3, <1>4, <1>5 DEF Promise!Emit, Reported, Seen
<1> QED
  BY <1>6, AnEmission

LEMMA PromiseGate ==
    ASSUME OneWorker, WatchInv, NEW w \in Worker,
           \/ failInterruptedSends(w) \/ ReadConfig(w) \/ ListWatchable(w)
           \/ reconcileConfirmations(w) \/ GateClosed(w) \/ ListPending(w)
    PROVE  PromiseStep
<1> USE DEF WatchInv, TypeInv, TypeOK
<1>1. CASE failInterruptedSends(w)
  <2> DEFINE R == {r \in Row : st[r] = "sending"}
  <2>1. Seen' = Seen
    BY <1>1 DEF failInterruptedSends, Seen
  <2>2. Reported' = [r \in Row |-> IF r \in R THEN "failed" ELSE Reported[r]]
    BY <1>1, ReportOf DEF failInterruptedSends, Reported, TxState
  <2>3. \A r \in R : Reported[r] = "open"
    BY ReportOf DEF Reported
  <2>4. CASE R = {}
    <3>1. Reported' = Reported
      BY <2>2, <2>4 DEF Reported
    <3> QED
      BY <2>1, <3>1 DEF PromiseStep
  <2>5. CASE R # {}
    <3>1. R \in SUBSET {r \in Row : Reported[r] \notin {"none", "rehearsed", "failed"}}
      BY <2>3
    <3>2. Promise!GiveUp
      BY <2>1, <2>2, <2>5, <3>1 DEF Promise!GiveUp, Reported, Seen
    <3> QED
      BY <3>2 DEF PromiseStep, Promise!Next
  <2> QED
    BY <2>4, <2>5
<1>2. CASE ReadConfig(w) \/ ListWatchable(w) \/ GateClosed(w) \/ ListPending(w)
  BY <1>2, Stutter DEF ReadConfig, ListWatchable, GateClosed, EndTick, ListPending
<1>3. CASE reconcileConfirmations(w)
  <2> PICK r \in todo[w] :
          st' = IF Verdict(r, snap[w][r]) # snap[w][r].st
                  THEN [st EXCEPT ![r] = Verdict(r, snap[w][r])]
                  ELSE st
    BY <1>3 DEF reconcileConfirmations
  <2> DEFINE v == Verdict(r, snap[w][r])
  <2>1. r \in Row /\ st[r] \in Watchable /\ snap[w][r].st = st[r]
    BY <1>3 DEF reconcileConfirmations, WatchedFresh
  <2>2. \/ v = st[r] \/ v = "failed" \/ v = "acked"
        \/ st[r] = "sent" /\ v = "heard"
    BY <2>1 DEF Verdict, promote, Watchable
  <2>3. st' = [st EXCEPT ![r] = v] /\ air' = air
    <3>1. st' = IF v # st[r] THEN [st EXCEPT ![r] = v] ELSE st
      BY <2>1
    <3>2. air' = air
      BY <1>3 DEF reconcileConfirmations
    <3> HIDE DEF v
    <3> QED
      BY <3>1, <3>2
  <2> HIDE DEF v
  <2>4. \A q \in Row : q # r => Verdicts(st'[q]) = Verdicts(st[q])
    BY <2>3
  <2>5. st'[r] = v /\ v \in TxState \cup {"none"}
    BY <2>1, <2>2, <2>3 DEF TxState, Watchable
  <2>6. Allowed(Verdicts(st[r]), Verdicts(st'[r]), \E p \in Pid : <<r, p>> \in air)
    BY <2>1, <2>2, <2>5, ReportOf DEF Allowed, Watchable
  <2> QED
    BY <2>1, <2>3, <2>4, <2>6, OneVerdict
<1> QED
  BY <1>1, <1>2, <1>3

LEMMA PromiseLoop ==
    ASSUME OneWorker, WatchInv, NEW w \in Worker, Loop(w) PROVE PromiseStep
<1> USE DEF WatchInv, TypeInv, TypeOK
<1>1. ASSUME NEW q \in Row, SkipCooling(w, q) \/ ClaimLost(w, q) PROVE PromiseStep
  BY <1>1, Stutter DEF SkipCooling, ClaimLost
<1>2. CASE EndTick(w)
  BY <1>2, Stutter DEF EndTick
<1>3. ASSUME NEW q \in Row, RefuseMuted(w, q) \/ HoldBusy(w, q) PROVE PromiseStep
  <2>1. st[q] \in Pending \cup {"cancelled"}
    BY <1>3 DEF RefuseMuted, HoldBusy, Ready, At, SoleInv, SnapshotFresh
  <2>2. /\ st' = [st EXCEPT ![q] = "failed"] \/ st' = [st EXCEPT ![q] = "held"]
        /\ air' = air
    BY <1>3 DEF RefuseMuted, HoldBusy
  <2>3. \A r \in Row : r # q => Verdicts(st'[r]) = Verdicts(st[r])
    BY <2>2
  <2>4. Allowed(Verdicts(st[q]), Verdicts(st'[q]), \E p \in Pid : <<q, p>> \in air)
    BY <2>1, <2>2, ReportOf DEF Allowed, Pending, TxState
  <2> QED
    BY <2>2, <2>3, <2>4, OneVerdict
<1>4. ASSUME NEW q \in Row, claimForSend(w, q) PROVE PromiseStep
  <2>1. \A r \in Row : Verdicts(st'[r]) = Verdicts(st[r])
    BY <1>4, ReportOf DEF claimForSend, Pending, TxState
  <2> QED
    BY <1>4, <2>1, Stutter DEF claimForSend
<1> QED
  BY <1>1, <1>2, <1>3, <1>4 DEF Loop, StopAtRateLimit, LoopDone

LEMMA PromiseSend ==
    ASSUME WatchInv, AiredInHand, NEW w \in Worker, Send(w)
    PROVE  PromiseStep
<1> USE DEF WatchInv, TypeInv, TypeOK
<1> DEFINE r == cur[w]
<1>1. CASE Encode(w) \/ PublishSucceeds(w)
  BY <1>1, Stutter DEF Encode, PublishSucceeds
<1>2. CASE Airs(w)
  BY <1>2, EmitStep
<1>3. CASE EncodeFails(w) \/ PublishFails(w) \/ DryRun(w) \/ RecordSent(w)
  <2>1. r \in Row /\ st[r] = "sending"
    BY <1>3 DEF EncodeFails, PublishFails, DryRun, RecordSent, MemoryOK, SoleInv,
                SnapshotFresh, Transmit
  <2>2. /\ air' = air
        /\ \/ \E s \in {"failed", "queued", "dry_run"} : st' = [st EXCEPT ![r] = s]
           \/ st' = [st EXCEPT ![r] = "sent"] /\ pc[w] = "record"
    BY <1>3 DEF EncodeFails, PublishFails, fail, failWith, DryRun, RecordSent, Record
  <2>3. \A q \in Row : q # r => Verdicts(st'[q]) = Verdicts(st[q])
    BY <2>2
  <2>4. pc[w] = "record" => \E p \in Pid : <<r, p>> \in air
    BY DEF AiredInHand
  <2>5. Allowed(Verdicts(st[r]), Verdicts(st'[r]), \E p \in Pid : <<r, p>> \in air)
    BY <2>1, <2>2, <2>4, ReportOf DEF Allowed, Pending, TxState
  <2> QED
    BY <2>1, <2>2, <2>3, <2>5, OneVerdict
<1> QED
  BY <1>1, <1>2, <1>3 DEF Send

LEMMA PromiseEvery ==
    ASSUME OneWorker, WatchInv, AiredInHand, [Next]_vars PROVE PromiseStep
<1> USE DEF WatchInv, TypeInv, TypeOK
<1>1. ASSUME NEW w \in Worker, failInterruptedSends(w) \/ runTxOutbox(w)
      PROVE  PromiseStep
  BY <1>1, PromiseGate, PromiseLoop, PromiseSend DEF runTxOutbox
<1>2. ASSUME NEW w \in Worker, Fault(w) PROVE PromiseStep
  BY <1>2, Stutter DEF Fault, StartUnreconciled, Crash, TickAborts, RecordLost
<1>3. ASSUME NEW r \in Row, enqueueTx(r) \/ cancelOutbox(r) PROVE PromiseStep
  <2>1. /\ air' = air
        /\ \/ st[r] = "none" /\ st' = [st EXCEPT ![r] = "queued"]
           \/ st[r] \in Pending /\ st' = [st EXCEPT ![r] = "cancelled"]
    BY <1>3 DEF enqueueTx, cancelOutbox
  <2>2. \A q \in Row : q # r => Verdicts(st'[q]) = Verdicts(st[q])
    BY <2>1
  <2>3. Allowed(Verdicts(st[r]), Verdicts(st'[r]), \E p \in Pid : <<r, p>> \in air)
    BY <2>1, ReportOf DEF Allowed, Pending, TxState
  <2> QED
    BY <2>1, <2>2, <2>3, OneVerdict
<1>4. CASE ChangeSettings \/ MuteTarget \/ ChannelUtil \/ MeshStep \/ TimeStep
  BY <1>4, Stutter DEF ChangeSettings, MuteTarget, ChannelUtil, MeshStep, MeshHears,
        MeshAcks, MeshNaks, TimeStep, BackoffElapses, WatchElapses, WindowElapses
<1>5. CASE UNCHANGED vars
  BY <1>5, Stutter DEF vars
<1> QED
  BY <1>1, <1>2, <1>3, <1>4, <1>5 DEF Next, WebStep

-----------------------------------------------------------------------------
(* The refinement. *)

\* With one worker, however a tick, the web process and the mesh interleave and
\* whatever faults happen, each row keeps the promise of TxPromise: one message,
\* final verdicts, delivery reported only after an airing (runTxOutbox).
THEOREM TxPromiseKept == OneWorker => (Spec => PromiseKept)
<1> SUFFICES ASSUME OneWorker PROVE Spec => PromiseKept
  OBVIOUS
<1>1. Init => Promise!Init /\ AiredInHand
  <2> SUFFICES ASSUME Init PROVE Promise!Init /\ AiredInHand
    OBVIOUS
  <2>1. \A r \in Row : Verdicts(st[r]) = "none"
    BY ReportOf DEF Init
  <2>2. \A r \in Row : {p \in Pid : <<r, p>> \in air} = {}
    BY DEF Init
  <2> QED
    BY <2>1, <2>2 DEF Promise!Init, Init, AiredInHand
<1>2. WatchInv /\ AiredInHand /\ [Next]_vars => AiredInHand'
  BY MeshGrows DEF WatchInv
<1>3. WatchInv /\ AiredInHand /\ [Next]_vars
        => [Promise!Next]_<<[r \in Row |-> Verdicts(st[r])],
                           [r \in Row |-> {p \in Pid : <<r, p>> \in air}]>>
  BY PromiseEvery DEF PromiseStep, Reported, Seen
<1> QED
  BY <1>1, <1>2, <1>3, WatchInvariant, PTL DEF Spec, PromiseKept, Promise!Spec

=============================================================================
