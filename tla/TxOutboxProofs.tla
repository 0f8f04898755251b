--------------------------- MODULE TxOutboxProofs ---------------------------
(***************************************************************************)
(* Theorems about TxOutbox, for every set of rows, packet ids and workers, *)
(* every choice of environment events and every bound.                     *)
(***************************************************************************)
EXTENDS TxOutbox, TLAPS, FiniteSetTheorems

USE DEF dbVars, setVars, memVars, meshVars

-----------------------------------------------------------------------------
(* Type correctness. *)

LEMMA RecentSentType == inHour \subseteq Row => RecentSent \in Nat
<1> SUFFICES ASSUME inHour \subseteq Row PROVE RecentSent \in Nat
  OBVIOUS
<1>1. {r \in inHour : st[r] \in Counted} \subseteq Row
  OBVIOUS
<1>2. IsFiniteSet({r \in inHour : st[r] \in Counted})
  BY <1>1, RowAssumption, FS_Subset
<1> QED
  BY <1>2, FS_CardinalityType DEF RecentSent

LEMMA BlankType == Blank \in [Row -> Snapshot]
BY DEF Blank, Snapshot

\* What each verdict is worth: a state of the enumeration.
LEMMA VerdictType ==
    ASSUME NEW r \in Row, NEW row \in Snapshot
    PROVE  Verdict(r, row) \in TxState \cup {"none"}
BY DEF Verdict, promote, TxState, Snapshot

LEMMA TypeInit == Init => TypeOK
<1> SUFFICES ASSUME Init PROVE TypeOK
  OBVIOUS
<1>1. Off \in Config /\ cfg \in Config
  BY DEF Init, Off, Config
<1>2. snap \in [Worker -> [Row -> Snapshot]]
  BY BlankType DEF Init
<1> QED
  BY <1>1, <1>2 DEF Init, TypeOK, TxState, PC

LEMMA TypeForget ==
    ASSUME TypeOK, NEW w \in Worker, Forget(w)
    PROVE  /\ tcfg' \in [Worker -> Config]
           /\ todo' \in [Worker -> SUBSET Row]
           /\ snap' \in [Worker -> [Row -> Snapshot]]
           /\ cool' \in [Worker -> SUBSET Row]
           /\ recent' \in [Worker -> Nat]
           /\ util' \in [Worker -> BOOLEAN]
           /\ cur' \in [Worker -> Row \cup {NoRow}]
           /\ out' \in [Worker -> Pid \cup {NoPid}]
<1>1. Off \in Config
  BY DEF Off, Config
<1> QED
  BY <1>1, BlankType DEF TypeOK, Forget

LEMMA TypeWeb ==
    ASSUME TypeOK, WebStep PROVE TypeOK'
<1>1. ASSUME NEW r \in Row, enqueueTx(r) PROVE TypeOK'
  BY <1>1 DEF TypeOK, enqueueTx, TxState
<1>2. ASSUME NEW r \in Row, cancelOutbox(r) PROVE TypeOK'
  BY <1>2 DEF TypeOK, cancelOutbox, TxState
<1>3. CASE ChangeSettings
  BY <1>3 DEF TypeOK, ChangeSettings, Config
<1>4. CASE MuteTarget
  BY <1>4 DEF TypeOK, MuteTarget
<1>5. CASE ChannelUtil
  BY <1>5 DEF TypeOK, ChannelUtil
<1> QED
  BY <1>1, <1>2, <1>3, <1>4, <1>5 DEF WebStep

LEMMA TypeMesh ==
    ASSUME TypeOK, MeshStep PROVE TypeOK'
<1>1. ASSUME NEW p \in Pid, MeshHears(p) PROVE TypeOK'
  BY <1>1 DEF TypeOK, MeshHears
<1>2. ASSUME NEW p \in Pid, MeshAcks(p) PROVE TypeOK'
  BY <1>2 DEF TypeOK, MeshAcks
<1>3. ASSUME NEW p \in Pid, MeshNaks(p) PROVE TypeOK'
  BY <1>3 DEF TypeOK, MeshNaks
<1> QED
  BY <1>1, <1>2, <1>3 DEF MeshStep

LEMMA TypeTime ==
    ASSUME TypeOK, TimeStep PROVE TypeOK'
<1>1. ASSUME NEW r \in Row, BackoffElapses(r) PROVE TypeOK'
  BY <1>1 DEF TypeOK, BackoffElapses
<1>2. ASSUME NEW r \in Row, WatchElapses(r) PROVE TypeOK'
  BY <1>2 DEF TypeOK, WatchElapses
<1>3. CASE WindowElapses
  BY <1>3 DEF TypeOK, WindowElapses
<1> QED
  BY <1>1, <1>2, <1>3 DEF TimeStep

LEMMA TypeTick ==
    ASSUME TypeOK, NEW w \in Worker, EndTick(w) PROVE TypeOK'
<1>1. pc' \in [Worker -> PC]
  BY DEF EndTick, TypeOK, PC
<1> QED
  BY <1>1, TypeForget DEF EndTick, TypeOK

LEMMA TypeFault ==
    ASSUME TypeOK, NEW w \in Worker, Fault(w) PROVE TypeOK'
<1>1. CASE StartUnreconciled(w)
  BY <1>1 DEF StartUnreconciled, TypeOK, PC
<1>2. CASE Crash(w)
  <2>1. pc' \in [Worker -> PC]
    BY <1>2 DEF Crash, TypeOK, PC
  <2> QED
    BY <1>2, <2>1, TypeForget DEF Crash, TypeOK
<1>3. CASE TickAborts(w)
  <2>1. pc' \in [Worker -> PC]
    BY <1>3 DEF TickAborts, TypeOK, PC
  <2> QED
    BY <1>3, <2>1, TypeForget DEF TickAborts, TypeOK
<1>4. CASE RecordLost(w)
  BY <1>4 DEF RecordLost, NextRow, TypeOK, PC
<1> QED
  BY <1>1, <1>2, <1>3, <1>4 DEF Fault

LEMMA SnapshotType ==
    ASSUME TypeOK, NEW w \in Worker, TakeSnapshot(w)
    PROVE  snap' \in [Worker -> [Row -> Snapshot]]
<1>1. ASSUME NEW r \in Row
      PROVE  [st |-> st[r], pid |-> pid[r], att |-> att[r]] \in Snapshot
  BY DEF TypeOK, Snapshot
<1> QED
  BY <1>1 DEF TypeOK, TakeSnapshot

\* The part of the tick before the loop.
LEMMA TypeGate ==
    ASSUME TypeOK, NEW w \in Worker,
           \/ failInterruptedSends(w) \/ ReadConfig(w) \/ ListWatchable(w)
           \/ reconcileConfirmations(w) \/ GateClosed(w) \/ ListPending(w)
    PROVE  TypeOK'
<1>1. CASE failInterruptedSends(w)
  BY <1>1 DEF failInterruptedSends, TypeOK, TxState, PC
<1>2. CASE ReadConfig(w)
  BY <1>2 DEF ReadConfig, TypeOK, PC
<1>3. CASE ListWatchable(w)
  <2>1. todo' \in [Worker -> SUBSET Row]
    BY <1>3 DEF ListWatchable, TypeOK
  <2>2. snap' \in [Worker -> [Row -> Snapshot]]
    BY <1>3, SnapshotType DEF ListWatchable
  <2> QED
    BY <1>3, <2>1, <2>2 DEF ListWatchable, TypeOK, PC
<1>4. CASE reconcileConfirmations(w)
  <2> PICK r \in todo[w] :
          /\ todo' = [todo EXCEPT ![w] = @ \ {r}]
          /\ st' = IF Verdict(r, snap[w][r]) # snap[w][r].st
                     THEN [st EXCEPT ![r] = Verdict(r, snap[w][r])]
                     ELSE st
    BY <1>4 DEF reconcileConfirmations
  <2>1. r \in Row /\ snap[w][r] \in Snapshot
    BY DEF TypeOK
  <2>2. Verdict(r, snap[w][r]) \in TxState \cup {"none"}
    BY <2>1, VerdictType
  <2>3. st' \in [Row -> TxState \cup {"none"}]
    BY <2>1, <2>2 DEF TypeOK
  <2> QED
    BY <1>4, <2>3 DEF reconcileConfirmations, TypeOK
<1>5. CASE GateClosed(w)
  BY <1>5, TypeTick DEF GateClosed
<1>6. CASE ListPending(w)
  <2>1. todo' \in [Worker -> SUBSET Row]
    BY <1>6 DEF ListPending, PendingRows, TypeOK
  <2>2. snap' \in [Worker -> [Row -> Snapshot]]
    BY <1>6, SnapshotType DEF ListPending
  <2>3. recent' \in [Worker -> Nat]
    BY <1>6, RecentSentType DEF ListPending, TypeOK
  <2> QED
    BY <1>6, <2>1, <2>2, <2>3 DEF ListPending, TypeOK, PC
<1> QED
  BY <1>1, <1>2, <1>3, <1>4, <1>5, <1>6

LEMMA TypeLoop ==
    ASSUME TypeOK, NEW w \in Worker, Loop(w) PROVE TypeOK'
<1>1. ASSUME NEW r \in Row, SkipCooling(w, r) PROVE TypeOK'
  BY <1>1 DEF SkipCooling, Skip, TypeOK
<1>2. ASSUME NEW r \in Row, StopAtRateLimit(w, r) PROVE TypeOK'
  BY <1>2, TypeTick DEF StopAtRateLimit
<1>3. ASSUME NEW r \in Row, RefuseMuted(w, r) PROVE TypeOK'
  BY <1>3 DEF RefuseMuted, Skip, TypeOK, TxState
<1>4. ASSUME NEW r \in Row, HoldBusy(w, r) PROVE TypeOK'
  BY <1>4 DEF HoldBusy, Skip, TypeOK, TxState
<1>5. ASSUME NEW r \in Row, claimForSend(w, r) PROVE TypeOK'
  BY <1>5 DEF claimForSend, Skip, TypeOK, TxState, PC, Transmit
<1>6. ASSUME NEW r \in Row, ClaimLost(w, r) PROVE TypeOK'
  BY <1>6 DEF ClaimLost, Skip, TypeOK
<1>7. CASE LoopDone(w)
  BY <1>7, TypeTick DEF LoopDone
<1> QED
  BY <1>1, <1>2, <1>3, <1>4, <1>5, <1>6, <1>7 DEF Loop

\* A worker that is transmitting holds a row, and from the encoding on a packet
\* id; the type invariant needs it to be inductive.
MemoryOK ==
    \A w \in Worker :
        /\ pc[w] \in Transmit => cur[w] \in Row
        /\ pc[w] \in {"encoded", "aired", "record"} => out[w] \in Pid

TypeInv == TypeOK /\ MemoryOK

LEMMA FailType ==
    ASSUME TypeOK, NEW w \in Worker, cur[w] \in Row, fail(w) PROVE TypeOK'
<1> DEFINE n == snap[w][cur[w]].att + 1
<1>1. n \in Nat
  BY DEF TypeOK, Snapshot
<1>2. failWith(w, IF n >= MaxAttempts THEN "failed" ELSE "queued", n)
  BY DEF fail
<1>3. st' \in [Row -> TxState \cup {"none"}]
  BY <1>2 DEF failWith, TypeOK, TxState
<1> QED
  BY <1>1, <1>2, <1>3 DEF failWith, NextRow, TypeOK, PC

LEMMA RecordType ==
    ASSUME TypeOK, NEW w \in Worker, cur[w] \in Row, out[w] \in Pid,
           NEW s \in TxState, Record(w, s), recent' \in [Worker -> Nat]
    PROVE  TypeOK'
<1>1. snap[w][cur[w]].att + 1 \in Nat
  BY DEF TypeOK, Snapshot
<1> QED
  BY <1>1 DEF Record, NextRow, TypeOK, PC

LEMMA TypeSend ==
    ASSUME TypeInv, NEW w \in Worker, Send(w) PROVE TypeOK'
<1> USE DEF TypeInv
<1>1. CASE EncodeFails(w)
  BY <1>1, FailType DEF EncodeFails, MemoryOK, Transmit
<1>2. CASE Encode(w)
  BY <1>2 DEF Encode, TypeOK, MemoryOK, Transmit, PC
<1>3. CASE DryRun(w)
  <2>1. recent' \in [Worker -> Nat]
    BY <1>3 DEF DryRun, TypeOK
  <2> QED
    BY <1>3, <2>1, RecordType DEF DryRun, MemoryOK, Transmit, TxState
<1>4. CASE Airs(w)
  <2>1. cur[w] \in Row /\ out[w] \in Pid
    BY <1>4 DEF Airs, MemoryOK, Transmit
  <2>2. hourAir' \in Nat
    BY <1>4 DEF Airs, TypeOK
  <2>3. airCount' \in [Row -> Nat]
    BY <1>4, <2>1 DEF Airs, TypeOK
  <2>4. pc' \in [Worker -> PC]
    BY <1>4 DEF Airs, TypeOK, PC, Transmit
  <2> QED
    BY <1>4, <2>1, <2>2, <2>3, <2>4 DEF Airs, TypeOK
<1>5. CASE PublishFails(w)
  BY <1>5, FailType DEF PublishFails, MemoryOK, Transmit
<1>6. CASE PublishSucceeds(w)
  BY <1>6 DEF PublishSucceeds, TypeOK, PC, Transmit
<1>7. CASE RecordSent(w)
  BY <1>7, RecordType DEF RecordSent, MemoryOK, Transmit, TxState, TypeOK
<1> QED
  BY <1>1, <1>2, <1>3, <1>4, <1>5, <1>6, <1>7 DEF Send

\* Only the worker that moves changes its own memory.
LEMMA MemoryStep ==
    ASSUME TypeInv, [Next]_vars PROVE MemoryOK'
<1> USE DEF TypeInv
<1>1. CASE UNCHANGED <<pc, cur, out>>
  BY <1>1 DEF MemoryOK
<1>2. ASSUME NEW w \in Worker,
             failInterruptedSends(w) \/ runTxOutbox(w) \/ Fault(w)
      PROVE  MemoryOK'
  <2>1. CASE failInterruptedSends(w)
    BY <2>1 DEF failInterruptedSends, MemoryOK, TypeOK, Transmit
  <2>2. CASE Fault(w)
    BY <2>2 DEF Fault, StartUnreconciled, Crash, TickAborts, RecordLost, Forget,
                NextRow, MemoryOK, TypeOK, Transmit
  <2>3. CASE ReadConfig(w) \/ ListWatchable(w) \/ reconcileConfirmations(w)
             \/ GateClosed(w) \/ ListPending(w)
    BY <2>3 DEF ReadConfig, ListWatchable, reconcileConfirmations, GateClosed,
                ListPending, EndTick, Forget, MemoryOK, TypeOK, Transmit
  <2>4. CASE Loop(w)
    <3>1. ASSUME NEW r \in Row,
                 \/ SkipCooling(w, r) \/ StopAtRateLimit(w, r) \/ RefuseMuted(w, r)
                 \/ HoldBusy(w, r) \/ ClaimLost(w, r)
          PROVE  MemoryOK'
      BY <3>1 DEF SkipCooling, StopAtRateLimit, RefuseMuted, HoldBusy, ClaimLost,
                  EndTick, Forget, MemoryOK, TypeOK, Transmit
    <3>2. ASSUME NEW r \in Row, claimForSend(w, r) PROVE MemoryOK'
      BY <3>2 DEF claimForSend, MemoryOK, TypeOK, Transmit
    <3>3. CASE LoopDone(w)
      BY <3>3 DEF LoopDone, EndTick, Forget, MemoryOK, TypeOK, Transmit
    <3> QED
      BY <2>4, <3>1, <3>2, <3>3 DEF Loop
  <2>5. CASE Send(w)
    <3>1. CASE Encode(w)
      BY <3>1 DEF Encode, MemoryOK, TypeOK, Transmit
    <3>2. CASE Airs(w) \/ PublishSucceeds(w)
      BY <3>2 DEF Airs, PublishSucceeds, MemoryOK, TypeOK, Transmit
    <3>3. CASE EncodeFails(w) \/ PublishFails(w)
      BY <3>3 DEF EncodeFails, PublishFails, fail, failWith, NextRow, MemoryOK,
                  TypeOK, Transmit
    <3>4. CASE DryRun(w)
      BY <3>4 DEF DryRun, Record, NextRow, MemoryOK, TypeOK, Transmit
    <3>5. CASE RecordSent(w)
      BY <3>5 DEF RecordSent, Record, NextRow, MemoryOK, TypeOK, Transmit
    <3> QED
      BY <2>5, <3>1, <3>2, <3>3, <3>4, <3>5 DEF Send
  <2> QED
    BY <1>2, <2>1, <2>2, <2>3, <2>4, <2>5 DEF runTxOutbox
<1>3. CASE WebStep \/ MeshStep \/ TimeStep
  <2>1. UNCHANGED <<pc, cur, out>>
    BY <1>3 DEF WebStep, MeshStep, TimeStep, enqueueTx, cancelOutbox,
                ChangeSettings, MuteTarget, ChannelUtil, MeshHears, MeshAcks,
                MeshNaks, BackoffElapses, WatchElapses, WindowElapses
  <2> QED
    BY <1>1, <2>1
<1>4. CASE UNCHANGED vars
  BY <1>1, <1>4 DEF vars
<1> QED
  BY <1>2, <1>3, <1>4 DEF Next

LEMMA TypeStep ==
    ASSUME TypeInv, [Next]_vars PROVE TypeInv'
<1>1. MemoryOK'
  BY MemoryStep
<1>2. TypeOK'
  <2>1. CASE WebStep \/ MeshStep \/ TimeStep
    BY <2>1, TypeWeb, TypeMesh, TypeTime DEF TypeInv
  <2>2. ASSUME NEW w \in Worker,
               failInterruptedSends(w) \/ runTxOutbox(w) \/ Fault(w)
        PROVE  TypeOK'
    BY <2>2, TypeGate, TypeLoop, TypeSend, TypeFault DEF TypeInv, runTxOutbox
  <2>3. CASE UNCHANGED vars
    BY <2>3 DEF vars, TypeInv, TypeOK
  <2> QED
    BY <2>1, <2>2, <2>3 DEF Next
<1> QED
  BY <1>1, <1>2 DEF TypeInv

LEMMA TypeInvariant == Spec => []TypeInv
<1>1. Init => TypeInv
  BY TypeInit DEF Init, TypeInv, MemoryOK, Transmit
<1>2. TypeInv /\ [Next]_vars => TypeInv'
  BY TypeStep
<1> QED
  BY <1>1, <1>2, PTL DEF Spec

\* Every reachable state of the outbox, the worker and the mesh is well typed.
THEOREM TxTypeCorrect == Spec => []TypeOK
BY TypeInvariant, PTL DEF TypeInv

-----------------------------------------------------------------------------
(* Exclusive claims, for any number of workers, as long as no channel-     *)
(* utilisation hold is written: claimForSend's guard on the state does it,  *)
(* although snapshots are stale and restarts fail other workers' sends.    *)

Holds(w, r) == pc[w] \in Transmit /\ cur[w] = r

ExclusiveInv ==
    /\ busy = FALSE /\ \A w \in Worker : util[w] = FALSE
    /\ \A w \in Worker, r \in Row : Holds(w, r) => st[r] \in {"sending", "failed"}
    /\ \A v, w \in Worker, r \in Row : Holds(v, r) /\ Holds(w, r) => v = w
    /\ \A w \in Worker : pc[w] = "reconcile" =>
          \A r \in todo[w] : /\ st[r] \in {"sent", "heard", "acked", "failed"}
                             /\ \A v \in Worker : ~Holds(v, r)
                             /\ snap[w][r].st \in Watchable

\* What reconcileConfirmations can make of a watched row.
LEMMA VerdictOfWatched ==
    ASSUME NEW r, NEW row, row.st \in Watchable
    PROVE  Verdict(r, row) \in {"sent", "heard", "acked", "failed"}
BY DEF Verdict, promote, Watchable

LEMMA ExclusiveWeb ==
    ASSUME TypeInv, ExclusiveInv, "busy" \notin Env,
           WebStep \/ MeshStep \/ TimeStep
    PROVE  ExclusiveInv'
<1> USE DEF ExclusiveInv, TypeInv, TypeOK, Holds
<1>1. ASSUME NEW r \in Row, enqueueTx(r) PROVE ExclusiveInv'
  BY <1>1 DEF enqueueTx
<1>2. ASSUME NEW r \in Row, cancelOutbox(r) PROVE ExclusiveInv'
  BY <1>2 DEF cancelOutbox, Pending
<1>3. CASE MeshStep
  BY <1>3 DEF MeshStep, MeshHears, MeshAcks, MeshNaks
<1>4. CASE TimeStep
  BY <1>4 DEF TimeStep, BackoffElapses, WatchElapses, WindowElapses
<1>5. CASE ChangeSettings \/ MuteTarget \/ ChannelUtil
  BY <1>5 DEF ChangeSettings, MuteTarget, ChannelUtil
<1> QED
  BY <1>1, <1>2, <1>3, <1>4, <1>5 DEF WebStep

\* A worker that leaves its tick holds nothing, and nothing else changes.
LEMMA ExclusiveRelease ==
    ASSUME TypeInv, ExclusiveInv, NEW w \in Worker, Forget(w),
           NEW s \in {"down", "idle"}, pc' = [pc EXCEPT ![w] = s],
           st' = st, busy' = busy
    PROVE  ExclusiveInv'
BY DEF ExclusiveInv, TypeInv, TypeOK, Holds, Forget, Transmit

LEMMA ExclusiveGate ==
    ASSUME TypeInv, ExclusiveInv, NEW w \in Worker,
           \/ failInterruptedSends(w) \/ ReadConfig(w) \/ ListWatchable(w)
           \/ reconcileConfirmations(w) \/ GateClosed(w) \/ ListPending(w)
    PROVE  ExclusiveInv'
<1> USE DEF ExclusiveInv, TypeInv, TypeOK, Holds
<1>1. CASE failInterruptedSends(w)
  BY <1>1 DEF failInterruptedSends, Transmit
<1>2. CASE ReadConfig(w)
  BY <1>2 DEF ReadConfig, Transmit
<1>3. CASE ListWatchable(w)
  <2>1. \A r \in todo'[w] : st[r] \in Watchable /\ snap'[w][r].st = st[r]
    BY <1>3 DEF ListWatchable, TakeSnapshot
  <2>2. \A v \in Worker, r \in Row : Holds(v, r)' <=> Holds(v, r)
    BY <1>3 DEF ListWatchable, Transmit
  <2>3. \A r \in todo'[w] : \A v \in Worker : ~Holds(v, r)
    <3>1. todo'[w] \subseteq Row
      BY <1>3 DEF ListWatchable
    <3> QED
      BY <2>1, <3>1 DEF Watchable
  <2>4. \A v \in Worker : v # w => /\ todo'[v] = todo[v] /\ snap'[v] = snap[v]
                                   /\ pc'[v] = pc[v]
    BY <1>3 DEF ListWatchable, TakeSnapshot
  <2>5. \A r \in todo'[w] : /\ st'[r] \in {"sent", "heard", "acked", "failed"}
                             /\ snap'[w][r].st \in Watchable
    BY <1>3, <2>1 DEF ListWatchable, Watchable
  <2>6. UNCHANGED <<st, busy, util>> /\ \A v \in Worker : todo'[v] \subseteq Row
    BY <1>3 DEF ListWatchable
  <2> HIDE DEF Holds
  <2> QED
    BY <2>2, <2>3, <2>4, <2>5, <2>6
<1>4. CASE reconcileConfirmations(w)
  <2> PICK r \in todo[w] :
          /\ todo' = [todo EXCEPT ![w] = @ \ {r}]
          /\ st' = IF Verdict(r, snap[w][r]) # snap[w][r].st
                     THEN [st EXCEPT ![r] = Verdict(r, snap[w][r])]
                     ELSE st
    BY <1>4 DEF reconcileConfirmations
  <2>1. pc[w] = "reconcile" /\ r \in Row
    BY <1>4 DEF reconcileConfirmations
  <2>2. Verdict(r, snap[w][r]) \in {"sent", "heard", "acked", "failed"}
    BY <2>1, VerdictOfWatched
  <2>3. \A v \in Worker : ~Holds(v, r)
    BY <2>1
  <2>4. \A q \in Row : q # r => st'[q] = st[q]
    BY <2>1
  <2>5. st'[r] \in {"sent", "heard", "acked", "failed"}
    BY <2>1, <2>2
  <2>6. \A v \in Worker : todo'[v] \subseteq todo[v]
    BY <2>1
  <2> HIDE DEF Holds
  <2>7. \A v \in Worker, q \in Row : Holds(v, q)' <=> Holds(v, q)
    BY <1>4 DEF reconcileConfirmations, Holds
  <2> QED
    BY <1>4, <2>1, <2>3, <2>4, <2>5, <2>6, <2>7 DEF reconcileConfirmations
<1>5. CASE GateClosed(w)
  BY <1>5, ExclusiveRelease DEF GateClosed, EndTick
<1>6. CASE ListPending(w)
  <2>1. \A v \in Worker, r \in Row : Holds(v, r)' <=> Holds(v, r)
    BY <1>6 DEF ListPending, Transmit
  <2>2. \A v \in Worker : v # w => /\ todo'[v] = todo[v] /\ snap'[v] = snap[v]
                                   /\ pc'[v] = pc[v]
    BY <1>6 DEF ListPending, TakeSnapshot
  <2>3. UNCHANGED <<st, busy>> /\ pc'[w] = "loop"
    BY <1>6 DEF ListPending
  <2>4. \A v \in Worker : util'[v] = FALSE
    BY <1>6 DEF ListPending
  <2> HIDE DEF Holds
  <2> QED
    BY <2>1, <2>2, <2>3, <2>4
<1> QED
  BY <1>1, <1>2, <1>3, <1>4, <1>5, <1>6

LEMMA ExclusiveLoop ==
    ASSUME TypeInv, ExclusiveInv, NEW w \in Worker, Loop(w)
    PROVE  ExclusiveInv'
<1> USE DEF ExclusiveInv, TypeInv, TypeOK, Holds
<1>1. ASSUME NEW r \in Row, SkipCooling(w, r) \/ ClaimLost(w, r)
      PROVE  ExclusiveInv'
  <2>1. /\ pc[w] = "loop" /\ todo' = [todo EXCEPT ![w] = @ \ {r}]
        /\ UNCHANGED <<st, busy, pc, cur, snap, util>>
    BY <1>1 DEF SkipCooling, ClaimLost, Sendable, Ready, At, Skip, dbVars, setVars
  <2>2. \A v \in Worker : todo'[v] \subseteq todo[v]
    BY <2>1
  <2>3. \A v \in Worker, q \in Row : Holds(v, q)' <=> Holds(v, q)
    BY <2>1
  <2> HIDE DEF Holds
  <2> QED
    BY <2>1, <2>2, <2>3
<1>2. ASSUME NEW r \in Row, StopAtRateLimit(w, r) PROVE ExclusiveInv'
  BY <1>2, ExclusiveRelease DEF StopAtRateLimit, EndTick
<1>3. ASSUME NEW r \in Row, RefuseMuted(w, r) PROVE ExclusiveInv'
  BY <1>3 DEF RefuseMuted, Ready, At, Skip
<1>4. ASSUME NEW r \in Row, HoldBusy(w, r) PROVE ExclusiveInv'
  BY <1>4 DEF HoldBusy
<1>5. ASSUME NEW r \in Row, claimForSend(w, r) PROVE ExclusiveInv'
  <2>1. pc[w] = "loop" /\ st[r] \in Pending
    BY <1>5 DEF claimForSend, Sendable, Ready, At
  <2>2. \A v \in Worker : ~Holds(v, r)
    BY <2>1 DEF Pending
  <2>3. \A v \in Worker, q \in Row :
            Holds(v, q)' <=> IF v = w THEN q = r ELSE Holds(v, q)
    BY <1>5 DEF claimForSend, Transmit
  <2>4. \A v \in Worker : pc[v] = "reconcile" => r \notin todo[v]
    BY <2>1 DEF Pending
  <2> HIDE DEF Holds
  <2> QED
    BY <1>5, <2>1, <2>2, <2>3, <2>4 DEF claimForSend, Skip
<1>6. CASE LoopDone(w)
  BY <1>6, ExclusiveRelease DEF LoopDone, EndTick
<1> QED
  BY <1>1, <1>2, <1>3, <1>4, <1>5, <1>6 DEF Loop

LEMMA ExclusiveSend ==
    ASSUME TypeInv, ExclusiveInv, NEW w \in Worker, Send(w) \/ RecordLost(w)
    PROVE  ExclusiveInv'
<1> USE DEF ExclusiveInv, TypeInv, TypeOK, Holds
<1>1. CASE Encode(w) \/ Airs(w) \/ PublishSucceeds(w)
  <2>1. \A v \in Worker, r \in Row : Holds(v, r)' <=> Holds(v, r)
    BY <1>1 DEF Encode, Airs, PublishSucceeds, Transmit
  <2>2. UNCHANGED <<st, busy, util, todo, snap>>
    BY <1>1 DEF Encode, Airs, PublishSucceeds
  <2>3. \A v \in Worker : pc'[v] = "reconcile" => pc[v] = "reconcile"
    BY <1>1 DEF Encode, Airs, PublishSucceeds
  <2> HIDE DEF Holds
  <2> QED
    BY <2>1, <2>2, <2>3
<1>2. CASE RecordLost(w)
  BY <1>2 DEF RecordLost, NextRow, Transmit
<1>3. CASE EncodeFails(w) \/ PublishFails(w) \/ DryRun(w) \/ RecordSent(w)
  <2>1. cur[w] \in Row /\ Holds(w, cur[w])
    BY <1>3 DEF EncodeFails, PublishFails, DryRun, RecordSent, MemoryOK, Transmit
  <2>2. \A q \in Row : q # cur[w] => st'[q] = st[q]
    BY <1>3, <2>1 DEF EncodeFails, PublishFails, DryRun, RecordSent, fail,
                      failWith, Record
  <2>3. \A v \in Worker, q \in Row : Holds(v, q)' <=> v # w /\ Holds(v, q)
    BY <1>3 DEF EncodeFails, PublishFails, DryRun, RecordSent, fail, failWith,
                Record, NextRow, Transmit
  <2>4. \A v \in Worker : pc[v] = "reconcile" => cur[w] \notin todo[v]
    BY <2>1
  <2>5. /\ UNCHANGED <<todo, snap, busy, util>>
        /\ pc' = [pc EXCEPT ![w] = "loop"]
    BY <1>3 DEF EncodeFails, PublishFails, DryRun, RecordSent, fail, failWith,
                Record, NextRow
  <2>6. \A v, u \in Worker, q \in Row : Holds(v, q)' /\ Holds(u, q)' => v = u
    BY <2>3
  <2>7. \A v \in Worker, q \in Row : Holds(v, q)' => q # cur[w] /\ Holds(v, q)
    BY <2>1, <2>3
  <2>8. \A v \in Worker : pc'[v] = "reconcile" => pc[v] = "reconcile"
    BY <2>5
  <2> HIDE DEF Holds
  <2>9. \A v \in Worker, q \in Row : Holds(v, q)' => st'[q] \in {"sending", "failed"}
    BY <2>2, <2>7
  <2>10. ASSUME NEW v \in Worker, pc'[v] = "reconcile", NEW q \in todo'[v]
         PROVE  /\ st'[q] \in {"sent", "heard", "acked", "failed"}
                /\ \A u \in Worker : ~Holds(u, q)'
                /\ snap'[v][q].st \in Watchable
    <3>1. pc[v] = "reconcile" /\ q \in todo[v] /\ q \in Row
      BY <2>5, <2>8, <2>10
    <3>2. q # cur[w] /\ st'[q] = st[q]
      BY <2>2, <2>4, <3>1
    <3> QED
      BY <2>5, <2>7, <3>1, <3>2
  <2> QED
    BY <2>5, <2>6, <2>9, <2>10
<1> QED
  BY <1>1, <1>2, <1>3 DEF Send

LEMMA ExclusiveStep ==
    ASSUME TypeInv, ExclusiveInv, "busy" \notin Env, [Next]_vars
    PROVE  ExclusiveInv'
<1>1. ASSUME NEW w \in Worker, Fault(w) PROVE ExclusiveInv'
  <2>1. CASE StartUnreconciled(w)
    BY <2>1 DEF StartUnreconciled, ExclusiveInv, TypeInv, TypeOK, Holds, Transmit
  <2>2. CASE Crash(w) \/ TickAborts(w)
    BY <2>2, ExclusiveRelease DEF Crash, TickAborts
  <2> QED
    BY <1>1, <2>1, <2>2, ExclusiveSend DEF Fault
<1>2. ASSUME NEW w \in Worker, failInterruptedSends(w) \/ runTxOutbox(w)
      PROVE  ExclusiveInv'
  BY <1>2, ExclusiveGate, ExclusiveLoop, ExclusiveSend DEF runTxOutbox
<1>3. CASE UNCHANGED vars
  BY <1>3 DEF vars, ExclusiveInv, Holds
<1> QED
  BY <1>1, <1>2, <1>3, ExclusiveWeb DEF Next

\* Whatever the number of workers, no row is transmitted by two of them at once,
\* provided the channel-utilisation guard never fires.
THEOREM TxClaimExclusive == "busy" \notin Env => (Spec => []ClaimExclusive)
<1> SUFFICES ASSUME "busy" \notin Env PROVE Spec => []ClaimExclusive
  OBVIOUS
<1>1. Init => ExclusiveInv
  BY DEF Init, ExclusiveInv, Holds, Transmit
<1>2. TypeInv /\ ExclusiveInv /\ [Next]_vars => ExclusiveInv'
  BY ExclusiveStep
<1>3. TypeInv /\ ExclusiveInv => ClaimExclusive
  BY DEF TypeInv, MemoryOK, ExclusiveInv, Holds, ClaimExclusive
<1> QED
  BY <1>1, <1>2, <1>3, TypeInvariant, PTL DEF Spec

-----------------------------------------------------------------------------
(* One packet id per row and bounded airtime, for the deployment of one    *)
(* worker, whatever crashes, errors, holds, mutes and cancels happen.       *)

OneWorker == \A v, w \in Worker : v = w

\* What has aired for a row aired under the packet id the row now carries.
AirPid == \A r \in Row, p \in Pid : <<r, p>> \in air => pid[r] = p

\* An attempt that did not settle the row is paid for in its attempts column;
\* only the attempt in progress (or interrupted) is not counted yet.
AirPaid ==
    \A r \in Row :
        /\ st[r] \in Pending \cup {"none", "cancelled"}
               => airCount[r] <= att[r] /\ att[r] < MaxAttempts
        /\ st[r] = "sending" => airCount[r] <= att[r] + 1 /\ att[r] < MaxAttempts
        /\ airCount[r] <= MaxAttempts

\* The only worker's snapshot agrees with the table in what it acts on.
SnapshotFresh ==
    \A w \in Worker :
        /\ pc[w] \in {"loop"} \cup Transmit =>
              \A r \in todo[w] : /\ st[r] \in Pending \cup {"cancelled"}
                                 /\ snap[w][r].pid = pid[r]
                                 /\ snap[w][r].att = att[r]
        /\ pc[w] \in Transmit => /\ st[cur[w]] = "sending"
                                 /\ snap[w][cur[w]].att = att[cur[w]]
        /\ pc[w] = "claimed" => snap[w][cur[w]].pid = pid[cur[w]]
        /\ pc[w] \in {"claimed", "encoded"} => airCount[cur[w]] <= att[cur[w]]
        /\ pc[w] \in {"encoded", "aired", "record"} => out[w] = pid[cur[w]]
        /\ pc[w] = "reconcile" => \A r \in todo[w] : snap[w][r].st \in Watchable

SoleInv == AirPid /\ AirPaid /\ SnapshotFresh

LEMMA SoleWeb ==
    ASSUME OneWorker, TypeInv, SoleInv, WebStep \/ MeshStep \/ TimeStep
    PROVE  SoleInv'
<1> USE DEF SoleInv, AirPid, AirPaid, SnapshotFresh, TypeInv, TypeOK, MemoryOK
<1>1. ASSUME NEW r \in Row, enqueueTx(r) PROVE SoleInv'
  BY <1>1 DEF enqueueTx, Pending
<1>2. ASSUME NEW r \in Row, cancelOutbox(r) PROVE SoleInv'
  BY <1>2 DEF cancelOutbox, Pending
<1>3. CASE MeshStep
  BY <1>3 DEF MeshStep, MeshHears, MeshAcks, MeshNaks
<1>4. CASE TimeStep
  BY <1>4 DEF TimeStep, BackoffElapses, WatchElapses, WindowElapses
<1>5. CASE ChangeSettings \/ MuteTarget \/ ChannelUtil
  BY <1>5 DEF ChangeSettings, MuteTarget, ChannelUtil
<1> QED
  BY <1>1, <1>2, <1>3, <1>4, <1>5 DEF WebStep

\* Leaving the tick, by its end or by a fault, touches no row.
LEMMA SoleRelease ==
    ASSUME OneWorker, TypeInv, SoleInv, NEW w \in Worker,
           NEW s \in {"down", "idle"}, pc' = [pc EXCEPT ![w] = s],
           UNCHANGED <<st, pid, att, air, airCount>>
    PROVE  SoleInv'
<1>1. \A v \in Worker : v = w /\ pc'[v] = s
  BY DEF OneWorker, TypeInv, TypeOK
<1> QED
  BY <1>1 DEF SoleInv, AirPid, AirPaid, SnapshotFresh, Transmit

LEMMA SoleGate ==
    ASSUME OneWorker, TypeInv, SoleInv, NEW w \in Worker,
           \/ failInterruptedSends(w) \/ ReadConfig(w) \/ ListWatchable(w)
           \/ reconcileConfirmations(w) \/ GateClosed(w) \/ ListPending(w)
    PROVE  SoleInv'
<1>a. \A v \in Worker : v = w
  BY DEF OneWorker
<1> USE DEF SoleInv, TypeInv, TypeOK
<1>1. CASE failInterruptedSends(w)
  <2>1. pc'[w] = "idle"
    BY <1>1 DEF failInterruptedSends
  <2> QED
    BY <1>1, <1>a, <2>1 DEF failInterruptedSends, AirPid, AirPaid, SnapshotFresh,
                           Pending, Transmit
<1>2. CASE ReadConfig(w)
  BY <1>2, <1>a DEF ReadConfig, AirPid, AirPaid, SnapshotFresh, Transmit
<1>3. CASE ListWatchable(w)
  <2>1. pc'[w] = "reconcile"
    BY <1>3 DEF ListWatchable
  <2>2. \A r \in todo'[w] : snap'[w][r].st \in Watchable
    BY <1>3 DEF ListWatchable, TakeSnapshot
  <2> QED
    BY <1>3, <1>a, <2>1, <2>2 DEF ListWatchable, AirPid, AirPaid, SnapshotFresh,
                                 Transmit
<1>4. CASE reconcileConfirmations(w)
  <2> PICK r \in todo[w] :
          /\ todo' = [todo EXCEPT ![w] = @ \ {r}]
          /\ st' = IF Verdict(r, snap[w][r]) # snap[w][r].st
                     THEN [st EXCEPT ![r] = Verdict(r, snap[w][r])]
                     ELSE st
    BY <1>4 DEF reconcileConfirmations
  <2>1. pc[w] = "reconcile" /\ pc' = pc /\ r \in Row
    BY <1>4 DEF reconcileConfirmations
  <2>2. Verdict(r, snap[w][r]) \in {"sent", "heard", "acked", "failed"}
    BY <2>1, VerdictOfWatched DEF SnapshotFresh
  <2>3. UNCHANGED <<pid, att, air, airCount, snap>>
    BY <1>4 DEF reconcileConfirmations
  <2>4. AirPaid'
    BY <2>1, <2>2, <2>3 DEF AirPaid, Pending
  <2> QED
    BY <1>a, <2>1, <2>3, <2>4 DEF AirPid, SnapshotFresh, Transmit
<1>5. CASE GateClosed(w)
  BY <1>5, SoleRelease DEF GateClosed, EndTick
<1>6. CASE ListPending(w)
  <2>1. pc'[w] = "loop"
    BY <1>6 DEF ListPending
  <2>2. \A r \in todo'[w] : /\ r \in Row /\ st[r] \in Pending
                            /\ snap'[w][r].pid = pid[r]
                            /\ snap'[w][r].att = att[r]
    BY <1>6 DEF ListPending, PendingRows, TakeSnapshot
  <2> QED
    BY <1>6, <1>a, <2>1, <2>2 DEF ListPending, AirPid, AirPaid, SnapshotFresh,
                                 Transmit
<1> QED
  BY <1>1, <1>2, <1>3, <1>4, <1>5, <1>6

LEMMA SoleLoop ==
    ASSUME OneWorker, TypeInv, SoleInv, NEW w \in Worker, Loop(w)
    PROVE  SoleInv'
<1>a. \A v \in Worker : v = w
  BY DEF OneWorker
<1> USE DEF SoleInv, TypeInv, TypeOK
<1>1. ASSUME NEW r \in Row, SkipCooling(w, r) \/ ClaimLost(w, r) PROVE SoleInv'
  BY <1>1, <1>a DEF SkipCooling, ClaimLost, Sendable, Ready, At, Skip, AirPid,
                    AirPaid, SnapshotFresh, Transmit
<1>2. ASSUME NEW r \in Row, StopAtRateLimit(w, r) PROVE SoleInv'
  BY <1>2, SoleRelease DEF StopAtRateLimit, EndTick
<1>3. ASSUME NEW r \in Row, RefuseMuted(w, r) \/ HoldBusy(w, r) PROVE SoleInv'
  <2>1. pc[w] = "loop" /\ r \in todo[w]
    BY <1>3 DEF RefuseMuted, HoldBusy, Ready, At
  <2>2. st[r] \in Pending \cup {"cancelled"}
    BY <2>1 DEF SnapshotFresh
  <2>3. /\ UNCHANGED <<pid, att, air, airCount, snap, pc>>
        /\ todo' = [todo EXCEPT ![w] = @ \ {r}]
        /\ st' = [st EXCEPT ![r] = "failed"] \/ st' = [st EXCEPT ![r] = "held"]
    BY <1>3 DEF RefuseMuted, HoldBusy, Skip
  <2>4. AirPaid'
    BY <2>2, <2>3 DEF AirPaid, Pending
  <2>5. SnapshotFresh'
    BY <1>a, <2>1, <2>3 DEF SnapshotFresh, Transmit
  <2> QED
    BY <2>3, <2>4, <2>5 DEF AirPid
<1>4. ASSUME NEW r \in Row, claimForSend(w, r) PROVE SoleInv'
  <2>1. /\ pc[w] = "loop" /\ r \in todo[w] /\ st[r] \in Pending
        /\ UNCHANGED <<pid, att, air, airCount, snap, out>>
        /\ todo' = [todo EXCEPT ![w] = @ \ {r}]
        /\ st' = [st EXCEPT ![r] = "sending"]
        /\ cur' = [cur EXCEPT ![w] = r] /\ pc' = [pc EXCEPT ![w] = "claimed"]
    BY <1>4 DEF claimForSend, Sendable, Ready, At, Skip
  <2>2. AirPaid'
    BY <2>1 DEF AirPaid, Pending
  <2>3. airCount[r] <= att[r]
    BY <2>1 DEF AirPaid
  <2>4. SnapshotFresh'
    BY <1>a, <2>1, <2>3 DEF SnapshotFresh, Transmit
  <2> QED
    BY <2>1, <2>2, <2>4 DEF AirPid
<1>5. CASE LoopDone(w)
  BY <1>5, SoleRelease DEF LoopDone, EndTick
<1> QED
  BY <1>1, <1>2, <1>3, <1>4, <1>5 DEF Loop

LEMMA SoleSend ==
    ASSUME OneWorker, TypeInv, SoleInv, NEW w \in Worker, Send(w) \/ RecordLost(w)
    PROVE  SoleInv'
<1>a. \A v \in Worker : v = w
  BY DEF OneWorker
<1> DEFINE r == cur[w]
<1>b. /\ pc[w] \in Transmit /\ r \in Row /\ st[r] = "sending"
      /\ snap[w][r].att = att[r] /\ airCount[r] <= att[r] + 1
      /\ att[r] < MaxAttempts /\ att[r] \in Nat /\ airCount[r] \in Nat
      /\ \A q \in todo[w] : q \in Row /\ q # r
  BY DEF Send, EncodeFails, Encode, DryRun, Airs, PublishFails, PublishSucceeds,
         RecordSent, RecordLost, Transmit, TypeInv, TypeOK, MemoryOK, SoleInv,
         SnapshotFresh, AirPaid, Pending
<1> HIDE DEF r
<1> USE DEF SoleInv, TypeInv, TypeOK
<1>1. CASE Encode(w)
  <2> PICK p \in Pid :
          /\ PacketId(w, p)
          /\ out' = [out EXCEPT ![w] = p]
          /\ pid' = IF snap[w][r].pid # p THEN [pid EXCEPT ![r] = p] ELSE pid
    BY <1>1 DEF Encode, r
  <2>1. /\ pc[w] = "claimed" /\ pc' = [pc EXCEPT ![w] = "encoded"]
        /\ UNCHANGED <<st, att, todo, snap, cur, air, airCount>>
    BY <1>1 DEF Encode
  <2>2. snap[w][r].pid = pid[r]
    BY <2>1 DEF SnapshotFresh, r
  <2>3. pid'[r] = p /\ \A q \in Row : q # r => pid'[q] = pid[q]
    BY <1>b, <2>2
  <2>4. pid[r] = NoPid \/ pid[r] = p
    BY <2>2 DEF PacketId, r
  <2>5. AirPid'
    BY <1>b, <2>1, <2>3, <2>4, NoPidAssumption DEF AirPid
  <2>6. airCount[r] <= att[r]
    BY <2>1 DEF SnapshotFresh, r
  <2>7. SnapshotFresh'
    BY <1>a, <1>b, <2>1, <2>3, <2>6 DEF SnapshotFresh, Transmit, r
  <2> QED
    BY <2>1, <2>5, <2>7 DEF AirPaid
<1>2. CASE Airs(w)
  <2>1. /\ pc[w] = "encoded" /\ pc' = [pc EXCEPT ![w] = "aired"]
        /\ UNCHANGED <<st, pid, att, todo, snap, cur, out>>
        /\ air' = air \cup {<<r, out[w]>>}
        /\ airCount' = [airCount EXCEPT ![r] = @ + 1]
    BY <1>2 DEF Airs, r
  <2>2. out[w] = pid[r] /\ airCount[r] <= att[r]
    BY <2>1 DEF SnapshotFresh, r
  <2>3. AirPid'
    BY <1>b, <2>1, <2>2 DEF AirPid
  <2>4. airCount'[r] <= att[r] + 1 /\ airCount'[r] <= MaxAttempts
    BY <1>b, <2>1, <2>2, BoundAssumption
  <2>5. AirPaid'
    BY <1>b, <2>1, <2>4 DEF AirPaid, Pending
  <2>6. SnapshotFresh'
    BY <1>a, <1>b, <2>1, <2>2 DEF SnapshotFresh, Transmit, r
  <2> QED
    BY <2>3, <2>5, <2>6
<1>3. CASE PublishSucceeds(w)
  BY <1>3, <1>a DEF PublishSucceeds, AirPid, AirPaid, SnapshotFresh, Transmit
<1>4. CASE EncodeFails(w) \/ PublishFails(w)
  <2> DEFINE n == att[r] + 1
             s == IF n >= MaxAttempts THEN "failed" ELSE "queued"
  <2>1. /\ st' = [st EXCEPT ![r] = s] /\ att' = [att EXCEPT ![r] = n]
        /\ UNCHANGED <<pid, air, airCount, todo, snap>>
        /\ pc' = [pc EXCEPT ![w] = "loop"]
    BY <1>4, <1>b DEF EncodeFails, PublishFails, fail, failWith, NextRow, r
  <2>2. s = "queued" => n < MaxAttempts
    BY <1>b, BoundAssumption
  <2>3. s \in {"failed", "queued"}
    OBVIOUS
  <2>4. AirPaid'
    BY <1>b, <2>1, <2>2, <2>3 DEF AirPaid, Pending
  <2>5. SnapshotFresh'
    BY <1>a, <1>b, <2>1 DEF SnapshotFresh, Transmit
  <2> QED
    BY <2>1, <2>4, <2>5 DEF AirPid
<1>5. CASE DryRun(w) \/ RecordSent(w)
  <2>1. out[w] = pid[r]
    BY <1>5 DEF DryRun, RecordSent, SnapshotFresh, r
  <2>2. /\ st' = [st EXCEPT ![r] = "dry_run"] \/ st' = [st EXCEPT ![r] = "sent"]
        /\ pid' = [pid EXCEPT ![r] = out[w]]
        /\ att' = [att EXCEPT ![r] = snap[w][r].att + 1]
        /\ UNCHANGED <<air, airCount, todo, snap>>
        /\ pc' = [pc EXCEPT ![w] = "loop"]
    BY <1>5 DEF DryRun, RecordSent, Record, NextRow, r
  <2>3. pid' = pid
    BY <1>b, <2>1, <2>2
  <2>4. AirPaid'
    BY <1>b, <2>2 DEF AirPaid, Pending
  <2>5. SnapshotFresh'
    BY <1>a, <1>b, <2>2, <2>3 DEF SnapshotFresh, Transmit
  <2> QED
    BY <2>2, <2>3, <2>4, <2>5 DEF AirPid
<1>6. CASE RecordLost(w)
  BY <1>6, <1>a DEF RecordLost, NextRow, AirPid, AirPaid, SnapshotFresh, Transmit
<1> QED
  BY <1>1, <1>2, <1>3, <1>4, <1>5, <1>6 DEF Send

LEMMA SoleStep ==
    ASSUME OneWorker, TypeInv, SoleInv, [Next]_vars PROVE SoleInv'
<1>1. ASSUME NEW w \in Worker, Fault(w) PROVE SoleInv'
  <2>1. CASE StartUnreconciled(w) \/ Crash(w) \/ TickAborts(w)
    BY <2>1, SoleRelease DEF StartUnreconciled, Crash, TickAborts
  <2> QED
    BY <1>1, <2>1, SoleSend DEF Fault
<1>2. ASSUME NEW w \in Worker, failInterruptedSends(w) \/ runTxOutbox(w)
      PROVE  SoleInv'
  BY <1>2, SoleGate, SoleLoop, SoleSend DEF runTxOutbox
<1>3. CASE UNCHANGED vars
  BY <1>3 DEF vars, SoleInv, AirPid, AirPaid, SnapshotFresh
<1> QED
  BY <1>1, <1>2, <1>3, SoleWeb DEF Next

LEMMA SoleInvariant == OneWorker => (Spec => []SoleInv)
<1> SUFFICES ASSUME OneWorker PROVE Spec => []SoleInv
  OBVIOUS
<1>1. Init => SoleInv
  BY BoundAssumption DEF Init, SoleInv, AirPid, AirPaid, SnapshotFresh, Transmit
<1>2. TypeInv /\ SoleInv /\ [Next]_vars => SoleInv'
  BY SoleStep
<1> QED
  BY <1>1, <1>2, TypeInvariant, PTL DEF Spec

\* With one worker, every copy of a row that airs carries one packet id: the
\* retry after a publish that failed late is deduplicated by the mesh.
THEOREM TxOnePacketPerRow == OneWorker => (Spec => []OnePacketPerRow)
<1> SUFFICES ASSUME OneWorker PROVE Spec => []OnePacketPerRow
  OBVIOUS
<1>1. TypeInv /\ SoleInv => OnePacketPerRow
  BY DEF TypeInv, TypeOK, SoleInv, AirPid, OnePacketPerRow
<1> QED
  BY <1>1, SoleInvariant, TypeInvariant, PTL

\* With one worker, no row airs more than MAX_ATTEMPTS times, restarts included.
THEOREM TxAirtimeBounded == OneWorker => (Spec => []AirtimeBounded)
<1> SUFFICES ASSUME OneWorker PROVE Spec => []AirtimeBounded
  OBVIOUS
<1>1. SoleInv => AirtimeBounded
  BY DEF SoleInv, AirPaid, AirtimeBounded
<1> QED
  BY <1>1, SoleInvariant, PTL

=============================================================================
