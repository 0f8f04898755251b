------------------------------ MODULE TxOutbox ------------------------------
(***************************************************************************)
(* The transmit outbox: rows of the tx_outbox table, the web process that  *)
(* queues and cancels them, the worker whose tick drains them              *)
(* (runTxOutbox) and the mesh that may hear, acknowledge or refuse them.   *)
(*                                                                         *)
(* Every await of the tick that another process can slip into is a step    *)
(* boundary here: the worker acts on what it read (its snapshot of the     *)
(* rows, the configuration, the channel utilisation) while the table       *)
(* moves on.                                                               *)
(*                                                                         *)
(* A name with an underscore (Verdict_NakFirst) is a deliberately wrong    *)
(* variant of the operator it is named after; no specification uses it.    *)
(***************************************************************************)
EXTENDS Integers, FiniteSets

CONSTANTS
    Row,          \* ids of the rows that may ever be queued
    Pid,          \* mesh packet ids
    NoPid,        \* packet_id IS NULL
    NoRow,        \* the worker has claimed no row
    Worker,       \* worker processes; the deployment runs one
    Targeted,     \* rows that address a node (dm, traceroute, probes)
    WantAck,      \* rows queued with want_ack
    MaxAttempts,  \* MAX_ATTEMPTS
    Limit,        \* LIMIT of listPendingTx
    Cap,          \* tx.rate_limit: sends allowed per window
    Env,          \* environment events this instance lets happen
    MaxFaults     \* bound on crashes and database errors

EnvEvents == {"cancel", "enable", "arm", "dry", "mute", "busy", "hear",
              "ack", "nak", "crash", "dberr"}

ASSUME RowAssumption == Row \subseteq Nat /\ IsFiniteSet(Row)
ASSUME NoPidAssumption == NoPid \notin Pid
ASSUME NoRowAssumption == NoRow \notin Row
ASSUME SubsetAssumption == Targeted \subseteq Row /\ WantAck \subseteq Row
ASSUME BoundAssumption ==
    /\ MaxAttempts \in Nat \ {0} /\ Limit \in Nat \ {0} /\ Cap \in Nat
    /\ MaxFaults \in Nat
ASSUME EnvAssumption == Env \subseteq EnvEvents

VARIABLES
    \* the tx_outbox table
    st,        \* state; "none" until the row is inserted
    pid,       \* packet_id
    att,       \* attempts
    cooling,   \* rows whose last_attempt_at is younger than their backoff
    inHour,    \* rows whose sent_at lies in the rate limiter's window
    inWatch,   \* rows whose sent_at lies in the confirmation window
    \* settings and telemetry the tick reads
    cfg, muted, busy,
    \* a worker: its place in the tick, and what it holds in memory
    pc, tcfg, todo, snap, cool, recent, util, cur, out,
    \* the mesh: <<row, packet id>> that aired, and what came back about ids
    air, heard, acks, naks,
    \* history: airings per row, airings in the window (saturating just above
    \* Cap); faults so far
    airCount, hourAir, faults

dbVars   == <<st, pid, att, cooling, inHour, inWatch>>
setVars  == <<cfg, muted, busy>>
memVars  == <<tcfg, todo, snap, cool, recent, util, cur, out>>
meshVars == <<air, heard, acks, naks, airCount, hourAir>>
vars     == <<dbVars, setVars, pc, memVars, meshVars, faults>>

TxState == {"queued", "held", "sending", "dry_run", "sent", "heard", "acked",
            "failed", "cancelled"}
Pending   == {"queued", "held"}
Watchable == {"sent", "heard"}
Counted   == {"sent", "heard", "acked", "dry_run"}
Transmit  == {"claimed", "encoded", "aired", "record"}
PC        == {"down", "idle", "watch", "reconcile", "loop"} \cup Transmit

Config   == [enabled : BOOLEAN, armed : BOOLEAN, dry : BOOLEAN]
Off      == [enabled |-> FALSE, armed |-> FALSE, dry |-> FALSE]
Snapshot == [st : TxState \cup {"none"}, pid : Pid \cup {NoPid}, att : Nat]
Blank    == [r \in Row |-> [st |-> "none", pid |-> NoPid, att |-> 0]]

\* The rows, the workers' snapshots and the mesh are well formed; attempts are
\* counted up from 0.
TypeOK ==
    /\ st \in [Row -> TxState \cup {"none"}]
    /\ pid \in [Row -> Pid \cup {NoPid}]
    /\ att \in [Row -> Nat]
    /\ cooling \subseteq Row /\ inHour \subseteq Row /\ inWatch \subseteq Row
    /\ cfg \in Config /\ muted \in BOOLEAN /\ busy \in BOOLEAN
    /\ pc \in [Worker -> PC]
    /\ tcfg \in [Worker -> Config]
    /\ todo \in [Worker -> SUBSET Row]
    /\ snap \in [Worker -> [Row -> Snapshot]]
    /\ cool \in [Worker -> SUBSET Row]
    /\ recent \in [Worker -> Nat]
    /\ util \in [Worker -> BOOLEAN]
    /\ cur \in [Worker -> Row \cup {NoRow}]
    /\ out \in [Worker -> Pid \cup {NoPid}]
    /\ air \subseteq Row \X Pid
    /\ heard \subseteq Pid /\ acks \subseteq Pid /\ naks \subseteq Pid
    /\ airCount \in [Row -> Nat] /\ hourAir \in Nat /\ faults \in Nat

Init ==
    /\ st = [r \in Row |-> "none"]
    /\ pid = [r \in Row |-> NoPid]
    /\ att = [r \in Row |-> 0]
    /\ cooling = {} /\ inHour = {} /\ inWatch = {}
    /\ cfg = [enabled |-> TRUE, armed |-> TRUE, dry |-> FALSE]
    /\ muted = FALSE /\ busy = FALSE
    /\ pc = [w \in Worker |-> "down"]
    /\ tcfg = [w \in Worker |-> Off]
    /\ todo = [w \in Worker |-> {}]
    /\ snap = [w \in Worker |-> Blank]
    /\ cool = [w \in Worker |-> {}]
    /\ recent = [w \in Worker |-> 0]
    /\ util = [w \in Worker |-> FALSE]
    /\ cur = [w \in Worker |-> NoRow]
    /\ out = [w \in Worker |-> NoPid]
    /\ air = {} /\ heard = {} /\ acks = {} /\ naks = {}
    /\ airCount = [r \in Row |-> 0] /\ hourAir = 0 /\ faults = 0

-----------------------------------------------------------------------------
(* The web process and the administrator. *)

enqueueTx(r) ==
    /\ st[r] = "none"
    /\ \A q \in Row : q < r => st[q] # "none"
    /\ st' = [st EXCEPT ![r] = "queued"]
    /\ UNCHANGED <<pid, att, cooling, inHour, inWatch, setVars, pc, memVars,
                   meshVars, faults>>

cancelOutbox(r) ==
    /\ "cancel" \in Env
    /\ st[r] \in Pending
    /\ st' = [st EXCEPT ![r] = "cancelled"]
    /\ UNCHANGED <<pid, att, cooling, inHour, inWatch, setVars, pc, memVars,
                   meshVars, faults>>

ChangeSettings ==
    /\ \/ "enable" \in Env /\ cfg' = [cfg EXCEPT !.enabled = ~@]
       \/ "arm" \in Env /\ cfg' = [cfg EXCEPT !.armed = ~@]
       \/ "dry" \in Env /\ cfg' = [cfg EXCEPT !.dry = ~@]
    /\ UNCHANGED <<dbVars, muted, busy, pc, memVars, meshVars, faults>>

MuteTarget ==
    /\ "mute" \in Env
    /\ muted' = ~muted
    /\ UNCHANGED <<dbVars, cfg, busy, pc, memVars, meshVars, faults>>

ChannelUtil ==
    /\ "busy" \in Env
    /\ busy' = ~busy
    /\ UNCHANGED <<dbVars, cfg, muted, pc, memVars, meshVars, faults>>

-----------------------------------------------------------------------------
(* The mesh: what comes back about a packet id that aired. *)

OnAir(p) == \E r \in Row : <<r, p>> \in air

MeshHears(p) ==
    /\ "hear" \in Env
    /\ OnAir(p) /\ p \notin heard
    /\ heard' = heard \cup {p}
    /\ UNCHANGED <<dbVars, setVars, pc, memVars, air, acks, naks, airCount,
                   hourAir, faults>>

MeshAcks(p) ==
    /\ "ack" \in Env
    /\ OnAir(p) /\ p \notin acks
    /\ acks' = acks \cup {p}
    /\ UNCHANGED <<dbVars, setVars, pc, memVars, air, heard, naks, airCount,
                   hourAir, faults>>

MeshNaks(p) ==
    /\ "nak" \in Env
    /\ OnAir(p) /\ p \notin naks
    /\ naks' = naks \cup {p}
    /\ UNCHANGED <<dbVars, setVars, pc, memVars, air, heard, acks, airCount,
                   hourAir, faults>>

-----------------------------------------------------------------------------
(* Time. A worker re-evaluates its snapshot's timestamps against the clock, *)
(* so what has elapsed has elapsed in its snapshot too.                     *)

BackoffElapses(r) ==
    /\ r \in cooling
    /\ cooling' = cooling \ {r}
    /\ cool' = [w \in Worker |-> cool[w] \ {r}]
    /\ UNCHANGED <<st, pid, att, inHour, inWatch, setVars, pc, tcfg, todo, snap,
                   recent, util, cur, out, meshVars, faults>>

WatchElapses(r) ==
    /\ r \in inWatch
    /\ inWatch' = inWatch \ {r}
    /\ UNCHANGED <<st, pid, att, cooling, inHour, setVars, pc, memVars,
                   meshVars, faults>>

\* Nothing sent before this moment is younger than the rate limiter's window.
\* sent_at is stamped before publish(): a send in progress is taken to fit into
\* the window.
WindowElapses ==
    /\ \A w \in Worker : pc[w] \notin {"encoded", "aired", "record"}
    /\ inHour # {} \/ hourAir # 0
    /\ inHour' = {} /\ inWatch' = {} /\ hourAir' = 0
    /\ recent' = [w \in Worker |-> 0]
    /\ UNCHANGED <<st, pid, att, cooling, setVars, pc, tcfg, todo, snap, cool,
                   util, cur, out, air, heard, acks, naks, airCount, faults>>

-----------------------------------------------------------------------------
(* The worker process. *)

\* Leaving the tick drops everything it held in memory.
Forget(w) ==
    /\ tcfg' = [tcfg EXCEPT ![w] = Off]
    /\ todo' = [todo EXCEPT ![w] = {}]
    /\ snap' = [snap EXCEPT ![w] = Blank]
    /\ cool' = [cool EXCEPT ![w] = {}]
    /\ recent' = [recent EXCEPT ![w] = 0]
    /\ util' = [util EXCEPT ![w] = FALSE]
    /\ cur' = [cur EXCEPT ![w] = NoRow]
    /\ out' = [out EXCEPT ![w] = NoPid]

failInterruptedSends_Requeues(w) ==
    /\ pc[w] = "down"
    /\ st' = [r \in Row |-> IF st[r] = "sending" THEN "queued" ELSE st[r]]
    /\ pc' = [pc EXCEPT ![w] = "idle"]
    /\ UNCHANGED <<pid, att, cooling, inHour, inWatch, setVars, memVars,
                   meshVars, faults>>

\* Startup: failInterruptedSends runs before the first tick.
failInterruptedSends(w) ==
    /\ pc[w] = "down"
    /\ st' = [r \in Row |-> IF st[r] = "sending" THEN "failed" ELSE st[r]]
    /\ pc' = [pc EXCEPT ![w] = "idle"]
    /\ UNCHANGED <<pid, att, cooling, inHour, inWatch, setVars, memVars,
                   meshVars, faults>>

\* Startup goes on when that statement throws (safe("tx-reconcile", ...)).
StartUnreconciled(w) ==
    /\ "dberr" \in Env /\ faults < MaxFaults
    /\ pc[w] = "down"
    /\ pc' = [pc EXCEPT ![w] = "idle"]
    /\ faults' = faults + 1
    /\ UNCHANGED <<dbVars, setVars, memVars, meshVars>>

Crash(w) ==
    /\ "crash" \in Env /\ faults < MaxFaults
    /\ pc[w] # "down"
    /\ pc' = [pc EXCEPT ![w] = "down"]
    /\ Forget(w)
    /\ faults' = faults + 1
    /\ UNCHANGED <<dbVars, setVars, meshVars>>

\* A statement outside the tick's own try blocks throws: the tick ends, the
\* claimed row (if any) stays as it is.
TickAborts(w) ==
    /\ "dberr" \in Env /\ faults < MaxFaults
    /\ pc[w] \notin {"down", "idle", "record"}
    /\ pc' = [pc EXCEPT ![w] = "idle"]
    /\ Forget(w)
    /\ faults' = faults + 1
    /\ UNCHANGED <<dbVars, setVars, meshVars>>

EndTick(w) ==
    /\ pc' = [pc EXCEPT ![w] = "idle"]
    /\ Forget(w)
    /\ UNCHANGED <<dbVars, setVars, meshVars, faults>>

\* effectiveConfig() is read once, before the jobs that precede the drain.
ReadConfig(w) ==
    /\ pc[w] = "idle"
    /\ pc' = [pc EXCEPT ![w] = "watch"]
    /\ tcfg' = [tcfg EXCEPT ![w] = cfg]
    /\ UNCHANGED <<dbVars, setVars, todo, snap, cool, recent, util, cur, out,
                   meshVars, faults>>

TakeSnapshot(w) ==
    snap' = [snap EXCEPT ![w] =
                [r \in Row |-> [st |-> st[r], pid |-> pid[r], att |-> att[r]]]]

ListWatchable(w) ==
    /\ pc[w] = "watch" /\ tcfg[w].enabled
    /\ todo' = [todo EXCEPT ![w] =
                   {r \in inWatch : st[r] \in Watchable /\ pid[r] # NoPid}]
    /\ TakeSnapshot(w)
    /\ pc' = [pc EXCEPT ![w] = "reconcile"]
    /\ UNCHANGED <<dbVars, setVars, tcfg, cool, recent, util, cur, out,
                   meshVars, faults>>

promote(state, isHeard, isAcked) ==
    IF isAcked THEN "acked" ELSE IF isHeard THEN "heard" ELSE state

Verdict_AnyAck(r, row) ==
    LET acked == r \in WantAck /\ acks # {}
    IN  promote(row.st, row.pid \in heard, acked)

Verdict_NakFirst(r, row) ==
    IF r \in WantAck /\ row.pid \in naks THEN "failed"
    ELSE promote(row.st, row.pid \in heard, r \in WantAck /\ row.pid \in acks)

\* What reconcileConfirmations makes of a watched row; an ack outranks a NAK.
Verdict(r, row) ==
    LET acked == r \in WantAck /\ row.pid \in acks
        nak   == r \in WantAck /\ row.pid \in naks /\ ~acked
    IN  IF nak THEN "failed" ELSE promote(row.st, row.pid \in heard, acked)

\* One watched row. The state is written only when it differs from the one read.
reconcileConfirmations(w) ==
    /\ pc[w] = "reconcile"
    /\ \E r \in todo[w] :
          /\ todo' = [todo EXCEPT ![w] = @ \ {r}]
          /\ st' = IF Verdict(r, snap[w][r]) # snap[w][r].st
                     THEN [st EXCEPT ![r] = Verdict(r, snap[w][r])]
                     ELSE st
    /\ UNCHANGED <<pid, att, cooling, inHour, inWatch, setVars, pc, tcfg, snap,
                   cool, recent, util, cur, out, meshVars, faults>>

\* The rows of listPendingTx: the oldest Limit of those waiting.
PendingRows ==
    {r \in Row : /\ st[r] \in Pending
                 /\ Cardinality({q \in Row : q < r /\ st[q] \in Pending}) < Limit}

\* Disabled, disarmed, or nothing queued: the tick is over.
GateClosed(w) ==
    /\ \/ pc[w] = "watch" /\ ~tcfg[w].enabled
       \/ /\ pc[w] = "reconcile" /\ todo[w] = {}
          /\ ~tcfg[w].armed \/ PendingRows = {}
    /\ EndTick(w)

\* recentSentAtMs: only rows in a counted state.
RecentSent == Cardinality({r \in inHour : st[r] \in Counted})

ListPending(w) ==
    /\ pc[w] = "reconcile" /\ todo[w] = {} /\ tcfg[w].armed
    /\ PendingRows # {}
    /\ todo' = [todo EXCEPT ![w] = PendingRows]
    /\ TakeSnapshot(w)
    /\ cool' = [cool EXCEPT ![w] = cooling]
    /\ recent' = [recent EXCEPT ![w] = RecentSent]
    /\ util' = [util EXCEPT ![w] = busy]
    /\ pc' = [pc EXCEPT ![w] = "loop"]
    /\ UNCHANGED <<dbVars, setVars, tcfg, cur, out, meshVars, faults>>

-----------------------------------------------------------------------------
(* The loop over the snapshot, oldest id first. *)

At(w, r) ==
    /\ pc[w] = "loop"
    /\ r \in todo[w] /\ \A q \in todo[w] : r <= q

Skip(w, r) == todo' = [todo EXCEPT ![w] = @ \ {r}]

rateAllowed(w) == recent[w] < Cap
Refused(r)     == r \in Targeted /\ muted

SkipCooling(w, r) ==
    /\ At(w, r) /\ r \in cool[w]
    /\ Skip(w, r)
    /\ UNCHANGED <<dbVars, setVars, pc, tcfg, snap, cool, recent, util, cur,
                   out, meshVars, faults>>

StopAtRateLimit(w, r) ==
    /\ At(w, r) /\ r \notin cool[w] /\ ~rateAllowed(w)
    /\ EndTick(w)

Ready(w, r) == At(w, r) /\ r \notin cool[w] /\ rateAllowed(w)

\* The two guards write the state whatever it has become since the snapshot.
RefuseMuted(w, r) ==
    /\ Ready(w, r) /\ Refused(r)
    /\ st' = [st EXCEPT ![r] = "failed"]
    /\ Skip(w, r)
    /\ UNCHANGED <<pid, att, cooling, inHour, inWatch, setVars, pc, tcfg, snap,
                   cool, recent, util, cur, out, meshVars, faults>>

HoldBusy(w, r) ==
    /\ Ready(w, r) /\ ~Refused(r) /\ util[w]
    /\ st' = [st EXCEPT ![r] = "held"]
    /\ Skip(w, r)
    /\ UNCHANGED <<pid, att, cooling, inHour, inWatch, setVars, pc, tcfg, snap,
                   cool, recent, util, cur, out, meshVars, faults>>

Sendable(w, r) == Ready(w, r) /\ ~Refused(r) /\ ~util[w]

claimForSend_Unguarded(w, r) ==
    /\ Sendable(w, r)
    /\ st' = [st EXCEPT ![r] = "sending"]
    /\ cooling' = cooling \cup {r}
    /\ cur' = [cur EXCEPT ![w] = r]
    /\ Skip(w, r)
    /\ pc' = [pc EXCEPT ![w] = "claimed"]
    /\ UNCHANGED <<pid, att, inHour, inWatch, setVars, tcfg, snap, cool, recent,
                   util, out, meshVars, faults>>

claimForSend(w, r) ==
    /\ Sendable(w, r) /\ st[r] \in Pending
    /\ st' = [st EXCEPT ![r] = "sending"]
    /\ cooling' = cooling \cup {r}
    /\ cur' = [cur EXCEPT ![w] = r]
    /\ Skip(w, r)
    /\ pc' = [pc EXCEPT ![w] = "claimed"]
    /\ UNCHANGED <<pid, att, inHour, inWatch, setVars, tcfg, snap, cool, recent,
                   util, out, meshVars, faults>>

ClaimLost(w, r) ==
    /\ Sendable(w, r) /\ st[r] \notin Pending
    /\ Skip(w, r)
    /\ UNCHANGED <<dbVars, setVars, pc, tcfg, snap, cool, recent, util, cur,
                   out, meshVars, faults>>

LoopDone(w) ==
    /\ pc[w] = "loop" /\ todo[w] = {}
    /\ EndTick(w)

-----------------------------------------------------------------------------
(* A claimed row: encode, persist the packet id, publish, record. *)

NextRow(w) ==
    /\ pc' = [pc EXCEPT ![w] = "loop"]
    /\ cur' = [cur EXCEPT ![w] = NoRow]
    /\ out' = [out EXCEPT ![w] = NoPid]

failWith(w, state, n) ==
    /\ st' = [st EXCEPT ![cur[w]] = state]
    /\ att' = [att EXCEPT ![cur[w]] = n]
    /\ cooling' = cooling \cup {cur[w]}
    /\ NextRow(w)
    /\ UNCHANGED <<pid, inHour, inWatch, setVars, tcfg, todo, snap, cool,
                   recent, util, meshVars, faults>>

fail_CountsDown(w) == failWith(w, "queued", snap[w][cur[w]].att - 1)
fail_OneTooMany(w) ==
    LET n == snap[w][cur[w]].att + 1
    IN  failWith(w, IF n > MaxAttempts THEN "failed" ELSE "queued", n)
fail_StaysSending(w) == failWith(w, "sending", snap[w][cur[w]].att + 1)

\* fail(): back to the queue, or given up at the attempt cap.
fail(w) ==
    LET n == snap[w][cur[w]].att + 1
    IN  failWith(w, IF n >= MaxAttempts THEN "failed" ELSE "queued", n)

\* No channel key, unknown node channel, no topic root, or encode threw.
EncodeFails(w) ==
    /\ pc[w] = "claimed"
    /\ fail(w)

\* A random id that no row, airing or worker holds stands for a fresh one.
FreshPid(p) ==
    /\ \A r \in Row : pid[r] # p
    /\ \A w \in Worker : out[w] # p
    /\ ~OnAir(p)

PacketId_AlwaysFresh(w, p) == FreshPid(p)

PacketId(w, p) ==
    LET row == snap[w][cur[w]] IN
    IF row.pid # NoPid THEN p = row.pid ELSE FreshPid(p)

Encode_MarksSent(w) ==
    /\ pc[w] = "claimed"
    /\ \E p \in Pid :
          /\ PacketId(w, p)
          /\ out' = [out EXCEPT ![w] = p]
          /\ pid' = [pid EXCEPT ![cur[w]] = p]
    /\ st' = [st EXCEPT ![cur[w]] = "sent"]
    /\ pc' = [pc EXCEPT ![w] = "encoded"]
    /\ UNCHANGED <<att, cooling, inHour, inWatch, setVars, tcfg, todo, snap,
                   cool, recent, util, cur, meshVars, faults>>

Encode(w) ==
    /\ pc[w] = "claimed"
    /\ \E p \in Pid :
          /\ PacketId(w, p)
          /\ out' = [out EXCEPT ![w] = p]
          /\ pid' = IF snap[w][cur[w]].pid # p THEN [pid EXCEPT ![cur[w]] = p]
                                               ELSE pid
    /\ pc' = [pc EXCEPT ![w] = "encoded"]
    /\ UNCHANGED <<st, att, cooling, inHour, inWatch, setVars, tcfg, todo, snap,
                   cool, recent, util, cur, meshVars, faults>>

\* The column map `common` plus the state.
Record(w, state) ==
    LET r == cur[w] IN
    /\ st' = [st EXCEPT ![r] = state]
    /\ pid' = [pid EXCEPT ![r] = out[w]]
    /\ att' = [att EXCEPT ![r] = snap[w][r].att + 1]
    /\ inHour' = inHour \cup {r} /\ inWatch' = inWatch \cup {r}
    /\ cooling' = cooling \cup {r}
    /\ NextRow(w)
    /\ UNCHANGED <<setVars, tcfg, todo, snap, cool, util, meshVars, faults>>

DryRun(w) ==
    /\ pc[w] = "encoded" /\ tcfg[w].dry
    /\ recent' = [recent EXCEPT ![w] = @ + 1]
    /\ Record(w, "dry_run")

\* The bytes leave: the broker or the station node may now transmit them.
Airs(w) ==
    /\ pc[w] = "encoded" /\ ~tcfg[w].dry
    /\ air' = air \cup {<<cur[w], out[w]>>}
    /\ airCount' = [airCount EXCEPT ![cur[w]] = @ + 1]
    /\ hourAir' = IF hourAir > Cap THEN hourAir ELSE hourAir + 1
    /\ pc' = [pc EXCEPT ![w] = "aired"]
    /\ UNCHANGED <<dbVars, setVars, memVars, heard, acks, naks, faults>>

\* publish() throws before the bytes left, or after.
PublishFails(w) ==
    /\ \/ pc[w] = "encoded" /\ ~tcfg[w].dry
       \/ pc[w] = "aired"
    /\ fail(w)

PublishSucceeds_Uncounted(w) ==
    /\ pc[w] = "aired"
    /\ pc' = [pc EXCEPT ![w] = "record"]
    /\ UNCHANGED <<dbVars, setVars, memVars, meshVars, faults>>

PublishSucceeds(w) ==
    /\ pc[w] = "aired"
    /\ recent' = [recent EXCEPT ![w] = @ + 1]
    /\ pc' = [pc EXCEPT ![w] = "record"]
    /\ UNCHANGED <<dbVars, setVars, tcfg, todo, snap, cool, util, cur, out,
                   meshVars, faults>>

RecordSent(w) ==
    /\ pc[w] = "record"
    /\ UNCHANGED recent
    /\ Record(w, "sent")

\* The update throws: the row is left in 'sending' and the loop goes on.
RecordLost(w) ==
    /\ "dberr" \in Env /\ faults < MaxFaults
    /\ pc[w] = "record"
    /\ NextRow(w)
    /\ faults' = faults + 1
    /\ UNCHANGED <<dbVars, setVars, tcfg, todo, snap, cool, recent, util,
                   meshVars>>

-----------------------------------------------------------------------------
Loop(w) ==
    \/ \E r \in Row : \/ SkipCooling(w, r) \/ StopAtRateLimit(w, r)
                      \/ RefuseMuted(w, r) \/ HoldBusy(w, r)
                      \/ claimForSend(w, r) \/ ClaimLost(w, r)
    \/ LoopDone(w)

Send(w) ==
    \/ EncodeFails(w) \/ Encode(w) \/ DryRun(w) \/ Airs(w)
    \/ PublishFails(w) \/ PublishSucceeds(w) \/ RecordSent(w)

runTxOutbox(w) ==
    \/ ReadConfig(w) \/ ListWatchable(w) \/ reconcileConfirmations(w)
    \/ GateClosed(w) \/ ListPending(w) \/ Loop(w) \/ Send(w)

Fault(w) == StartUnreconciled(w) \/ Crash(w) \/ TickAborts(w) \/ RecordLost(w)

WebStep  == \/ \E r \in Row : enqueueTx(r) \/ cancelOutbox(r)
            \/ ChangeSettings \/ MuteTarget \/ ChannelUtil
MeshStep == \E p \in Pid : MeshHears(p) \/ MeshAcks(p) \/ MeshNaks(p)
TimeStep == (\E r \in Row : BackoffElapses(r) \/ WatchElapses(r)) \/ WindowElapses

Next ==
    \/ WebStep \/ MeshStep \/ TimeStep
    \/ \E w \in Worker : failInterruptedSends(w) \/ runTxOutbox(w) \/ Fault(w)

Spec == Init /\ [][Next]_vars

\* The process is restarted by its supervisor, its timers keep firing, a
\* publish attempt ends, and time passes. Users, the mesh, the administrator and
\* faults owe nothing.
Fairness ==
    /\ \A w \in Worker : WF_vars(failInterruptedSends(w)) /\ WF_vars(runTxOutbox(w))
    /\ \A r \in Row : WF_vars(BackoffElapses(r))
    /\ WF_vars(WindowElapses)

FairSpec == Spec /\ Fairness

-----------------------------------------------------------------------------
(* Properties. *)

\* Every copy of a message that leaves, on whatever attempt, carries the same
\* packet id, so the mesh's own dedup absorbs a resend of a packet that had
\* already aired when publish() threw (runTxOutbox reuses row.packet_id).
OnePacketPerRow == \A a, b \in air : a[1] = b[1] => a[2] = b[2]

\* However crashes, database errors, holds, cancels and failed publishes are
\* mixed, a row costs at most MAX_ATTEMPTS airings.
AirtimeBounded == \A r \in Row : airCount[r] <= MaxAttempts

\* No two workers transmit the same row at the same time (claimForSend).
ClaimExclusive ==
    \A v, w \in Worker :
        v # w /\ pc[v] \in Transmit /\ pc[w] \in Transmit => cur[v] # cur[w]

\* A row is shown heard or acked only on evidence about the very packet that
\* aired for it; one node's ack used to promote every row in flight.
EvidenceBacked ==
    \A r \in Row :
        /\ st[r] \in Watchable \cup {"acked"} => <<r, pid[r]>> \in air
        /\ st[r] = "heard" => pid[r] \in heard
        /\ st[r] = "acked" => r \in WantAck /\ pid[r] \in acks

\* The sends the rate limiter can see never exceed the cap, over any number of
\* ticks, attempts and restarts inside one window.
CountedWithinCap == RecentSent <= Cap

\* A packet that was handed over counts against the limit whatever becomes of
\* its row (the comment at the in-tick counter).
AiringsWithinCap == hourAir <= Cap

\* A row left in 'sending' by a crash or a database error is never transmitted
\* again and never goes back to the queue: we cannot know whether it aired.
OrphanNeverResent ==
    [][\A r \in Row :
          st[r] = "sending" /\ (\A w \in Worker : cur[w] # r)
              => st'[r] \in {"sending", "failed"} /\ airCount'[r] = airCount[r]]_vars

\* Rehearsed, acked and failed rows stay so: nothing resends or re-judges them.
SettledIsFinal ==
    [][\A r \in Row : st[r] \in {"dry_run", "acked", "failed"} => st'[r] = st[r]]_vars

\* A sent row is declared failed only on a NAK for its own packet that no ack
\* contradicts.
NakRefutes ==
    [][\A r \in Row : st[r] \in Watchable /\ st'[r] = "failed"
           => r \in WantAck /\ pid[r] \in naks \ acks]_vars

\* A row the user has cancelled stays cancelled.
CancelIsFinal ==
    [][\A r \in Row : st[r] = "cancelled" => st'[r] = "cancelled"]_vars

\* No worker is in a tick that may transmit, and the settings forbid another.
Halted ==
    /\ ~(cfg.enabled /\ cfg.armed /\ ~cfg.dry)
    /\ \A w \in Worker : \/ pc[w] \in {"down", "idle"}
                         \/ ~(tcfg[w].enabled /\ tcfg[w].armed /\ ~tcfg[w].dry)

\* Disarm is the kill switch: once the tick in progress is over, nothing airs
\* until an administrator arms the queue again.
KillSwitch ==
    [][Halted => air' = air /\ airCount' = airCount /\ (Halted' \/ cfg' # cfg)]_vars

\* Nothing airs that nobody asked for any more: no row that an interrupted tick
\* left behind, nothing after a disarm, and, as long as no guard writes its
\* refusal, no cancelled row (failInterruptedSends, runTxOutbox, claimForSend).
NothingAirsUnasked == OrphanNeverResent /\ KillSwitch /\ CancelIsFinal

\* A verdict stands: a sent row fails only on a NAK for its own packet that no
\* ack contradicts, and a settled row is not judged again
\* (reconcileConfirmations).
VerdictsStand == NakRefutes /\ SettledIsFinal

-----------------------------------------------------------------------------
(* The outbox implements TxPromise. *)

Verdicts(s) ==
    CASE s \in Pending \cup {"sending"} -> "open"
      [] s = "cancelled"                -> "withdrawn"
      [] s = "dry_run"                  -> "rehearsed"
      [] s \in {"heard", "acked"}       -> "delivered"
      [] OTHER                          -> s

Promise == INSTANCE TxPromise WITH
    outcome <- [r \in Row |-> Verdicts(st[r])],
    message <- [r \in Row |-> {p \in Pid : <<r, p>> \in air}]

\* However a tick, the web process and the mesh interleave, each row keeps the
\* promise of TxPromise: one message, final verdicts, delivery only after airing.
PromiseKept == Promise!Spec

=============================================================================
