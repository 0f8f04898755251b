------------------------------- MODULE Ingest -------------------------------
(* The ingest daemon: MQTT and RF copies of mesh packets pass the in-process  *)
(* dedup cache (src/ingest/dedup.ts) into the batch queue                     *)
(* (src/ingest/batch.ts), which commits them in transactions of maxBatch and  *)
(* falls back to one transaction per message when a batch fails.              *)
(*                                                                            *)
(* Copies are numbered in the order they arrive; copies[n] is the n-th and    *)
(* fate[n] what became of it:                                                 *)
(*   "suppressed"  dropped by the dedup cache                                 *)
(*   "shed"        dropped and counted because the queue was full             *)
(*   "queued"      accepted: in the queue or in a running flush               *)
(*   "written"     reported committed                                         *)
(*   "logged"      its individual retry failed; "dropped message" was logged  *)
(*   "lost"        gone from memory without any of the above                  *)
EXTENDS PacketStore, Sequences

CONSTANTS
    Kind,        \* the forms a copy takes: [via, parsed, named, bad]
    Station,     \* the gateway that is the operator's own station node
    Clocks,      \* how gateway clocks behave: subset of {"ok", "unset", "future"}
    Spread,      \* how far apart working clocks hear one transmission
    maxBatch, maxQueue, maxEntries,
    Faults,      \* what may fail: subset of {"connect", "statement", "commit", "kill"}
    MaxFaults,
    MaxCopies,   \* bound: copies delivered
    MaxTime      \* bound: the clock

ASSUME IngestAssumption ==
    /\ Kind \subseteq [via: Via, parsed: BOOLEAN, named: BOOLEAN, bad: BOOLEAN]
    /\ maxBatch \in Nat \ {0}
    /\ maxQueue \in Nat \ {0}
    /\ maxEntries \in Nat \ {0}
    /\ MaxCopies \in Nat /\ MaxTime \in Nat /\ MaxFaults \in Nat
    /\ Plausible <= MaxTime /\ Spread \in Nat

VARIABLES
    now,      \* the wall clock
    heard,    \* the rx time each gateway stamps on each mid
    copies, fate,
    dedup,    \* DedupCache.map in insertion order: [key, exp, rank]
    queue,    \* BatchIngestor.queue
    timer,    \* BatchIngestor.timer is set
    pc,       \* the flush: "idle", "connect", "apply" or "retry"
    viaDrain, \* the running flush was called by drain()
    drained,  \* its items that no chunk has taken yet
    chunk,    \* the items of the current chunk
    done,     \* how many of them the loop has passed
    txn,      \* the chunk's open transaction
    db,       \* what is committed
    mode,     \* "up", "draining" (shutdown) or "down"
    faults    \* faults spent

flushVars == <<queue, timer, pc, viaDrain, drained, chunk, done, txn>>
vars == <<now, heard, copies, fate, dedup, flushVars, db, mode, faults>>

Unheard == -1
Future  == MaxTime + Skew + 1   \* beyond the tolerated skew, always

Init ==
    /\ now = Plausible
    /\ heard = [m \in Mid |-> [g \in Gateway |-> Unheard]]
    /\ copies = <<>> /\ fate = <<>>
    /\ dedup = <<>>
    /\ queue = <<>> /\ timer = FALSE
    /\ pc = "idle" /\ viaDrain = FALSE
    /\ drained = <<>> /\ chunk = <<>> /\ done = 0
    /\ db = EmptyStore /\ txn = EmptyStore
    /\ mode = "up" /\ faults = 0

-----------------------------------------------------------------------------
(* The environment: time, and what gateways report.                          *)

Tick ==
    /\ now < MaxTime
    /\ now' = now + 1
    /\ UNCHANGED <<heard, copies, fate, dedup, flushVars, db, mode, faults>>

\* The rx times gateway g may stamp on m: once stamped, the same on each copy.
Stamps(m, g) ==
    IF heard[m][g] # Unheard THEN {heard[m][g]}
    ELSE (IF "unset" \in Clocks THEN {0} ELSE {})
         \union (IF "future" \in Clocks THEN {Future} ELSE {})
         \union (IF "ok" \notin Clocks THEN {} ELSE
                 {t \in Plausible .. now : \A h \in Gateway :
                     heard[m][h] \in Plausible .. now
                        => (heard[m][h] - t <= Spread /\ t - heard[m][h] <= Spread)})

\* A JSON copy is parsed unless the packet is a traceroute, and only the
\* station node delivers over RF.
Copies ==
    {c \in [mid: Mid, gw: Gateway, kind: Kind] :
        /\ c.kind.via = "rf" => c.gw = Station
        /\ c.kind.via = "json" => (c.kind.parsed <=> c.mid \notin Traced)}

Copy(c, rx) == [mid |-> c.mid, gw |-> c.gw, rx |-> rx, via |-> c.kind.via,
                parsed |-> c.kind.parsed, named |-> c.kind.named,
                bad |-> c.kind.bad]

-----------------------------------------------------------------------------
(* DedupCache                                                                *)

Rank == [json |-> 0, protobuf |-> 1, rf |-> 2]

At(d, key) == {i \in DOMAIN d : d[i].key = key}

\* Variant: no ranks, the first copy of any fidelity wins.
seen_AnyRank(d, key, rank) == \E i \in At(d, key) : d[i].exp > now

\* A live claim of equal or better fidelity: this copy is a duplicate.
seen(d, key, rank) ==
    \E i \in At(d, key) : d[i].exp > now /\ rank <= d[i].rank

\* The map over its cap by one: drop the first expired entry, else the oldest.
evict(d) ==
    IF Len(d) <= maxEntries THEN d
    ELSE LET expired == {i \in DOMAIN d : d[i].exp <= now}
             victim  == IF expired = {} THEN 1
                        ELSE CHOOSE i \in expired : \A j \in expired : i <= j
         IN  SubSeq(d, 1, victim - 1) \o SubSeq(d, victim + 1, Len(d))

\* The map after seen() on key: unchanged for a duplicate; a known key keeps
\* its place, a new one is inserted last.
Claim(d, key, rank) ==
    LET entry == [key |-> key, exp |-> now + Window, rank |-> rank]
    IN  IF seen(d, key, rank) THEN d
        ELSE IF At(d, key) # {}
        THEN [i \in DOMAIN d |-> IF d[i].key = key THEN entry ELSE d[i]]
        ELSE evict(Append(d, entry))

Key(space, c) == <<space, c.mid, c.gw>>

\* MQTT copies share one key; RF is checked against RF only, and then claims
\* the shared key as well.
Duplicate(c) ==
    /\ c.mid # NoId
    /\ IF c.via = "rf" THEN seen(dedup, Key("rf", c), Rank.rf)
                       ELSE seen(dedup, Key("shared", c), Rank[c.via])

Claimed(c) ==
    IF c.mid = NoId \/ Duplicate(c) THEN dedup
    ELSE IF c.via = "rf"
    THEN Claim(Claim(dedup, Key("rf", c), Rank.rf), Key("shared", c), Rank.rf)
    ELSE Claim(dedup, Key("shared", c), Rank[c.via])

-----------------------------------------------------------------------------
(* BatchIngestor                                                             *)

\* The synchronous head of flush(), on the queue q: the timer is cleared even
\* when a flush is running or the queue is empty.
Flush(q, drain) ==
    /\ timer' = FALSE
    /\ IF pc # "idle" \/ q = <<>>
       THEN /\ queue' = q
            /\ UNCHANGED <<pc, viaDrain, drained>>
       ELSE /\ queue' = <<>> /\ drained' = q
            /\ pc' = "connect" /\ viaDrain' = drain

\* A copy that passed the dedup cache is put on the queue.
enqueue(n) ==
    /\ UNCHANGED <<chunk, done, txn>>
    /\ IF Len(queue) >= maxQueue
       THEN /\ fate' = Append(fate, "shed")
            /\ UNCHANGED <<queue, timer, pc, viaDrain, drained>>
       ELSE /\ fate' = Append(fate, "queued")
            /\ IF Len(queue) + 1 >= maxBatch
               THEN Flush(Append(queue, n), FALSE)
               ELSE /\ queue' = Append(queue, n) /\ timer' = TRUE
                    /\ UNCHANGED <<pc, viaDrain, drained>>

\* makeHandler and onNodePacket: dedup and enqueue, in one turn of the loop.
Receive(c) ==
    /\ copies' = Append(copies, c)
    /\ heard' = [heard EXCEPT ![c.mid][c.gw] = c.rx]
    /\ dedup' = Claimed(c)
    /\ IF Duplicate(c)
       THEN fate' = Append(fate, "suppressed") /\ UNCHANGED flushVars
       ELSE enqueue(Len(copies) + 1)
    /\ UNCHANGED <<now, db, mode, faults>>

Deliver ==
    /\ mode = "up" /\ Len(copies) < MaxCopies
    /\ \E c \in Copies : \E rx \in Stamps(c.mid, c.gw) : Receive(Copy(c, rx))

TimerFires ==
    /\ mode # "down" /\ timer
    /\ Flush(queue, FALSE)
    /\ UNCHANGED <<now, heard, copies, fate, dedup, chunk, done, txn, db, mode, faults>>

\* Every accepted copy in S meets the end e.
Settle(S, e) == fate' = [n \in DOMAIN fate |-> IF n \in S THEN e ELSE fate[n]]

\* Variant: the finally that does not schedule what arrived meanwhile.
NextChunk_NoRearm ==
    /\ chunk' = <<>> /\ done' = 0 /\ txn' = db'
    /\ IF drained # <<>>
       THEN pc' = "connect" /\ UNCHANGED <<viaDrain, timer>>
       ELSE pc' = "idle" /\ viaDrain' = FALSE /\ UNCHANGED timer

\* After a chunk: the next one, or the end of the flush and its finally.
NextChunk ==
    /\ chunk' = <<>> /\ done' = 0 /\ txn' = db'
    /\ IF drained # <<>>
       THEN pc' = "connect" /\ UNCHANGED <<viaDrain, timer>>
       ELSE /\ pc' = "idle" /\ viaDrain' = FALSE
            /\ timer' = (timer \/ queue # <<>>)

\* getConnection and beginTransaction.
Connect ==
    LET k == IF Len(drained) < maxBatch THEN Len(drained) ELSE maxBatch
    IN  /\ pc = "connect"
        /\ chunk' = SubSeq(drained, 1, k)
        /\ drained' = SubSeq(drained, k + 1, Len(drained))
        /\ pc' = "apply" /\ done' = 0 /\ txn' = db
        /\ UNCHANGED <<now, heard, copies, fate, dedup, queue, timer, viaDrain, db, mode, faults>>

Fault(f) == f \in Faults /\ faults < MaxFaults /\ faults' = faults + 1

Elements(s) == {s[i] : i \in DOMAIN s}

\* The process is gone, and with it all it held in memory.
Die ==
    /\ mode' = "down"
    /\ fate' = [n \in DOMAIN fate |-> IF fate[n] = "queued" THEN "lost" ELSE fate[n]]
    /\ dedup' = <<>> /\ queue' = <<>> /\ timer' = FALSE
    /\ pc' = "idle" /\ viaDrain' = FALSE
    /\ drained' = <<>> /\ chunk' = <<>> /\ done' = 0 /\ txn' = db'

\* getConnection rejects outside the inner try, so the loop is left. Called by
\* drain(), the rejection is swallowed; called by the timer or by enqueue()
\* ("void this.flush()"), nothing handles it and Node ends the process.
ConnectFails ==
    /\ pc = "connect" /\ Fault("connect")
    /\ UNCHANGED <<now, heard, copies, db>>
    /\ IF viaDrain
       THEN /\ Settle(Elements(drained), "lost")
            /\ drained' = <<>> /\ pc' = "idle" /\ viaDrain' = FALSE
            /\ timer' = (timer \/ queue # <<>>)
            /\ UNCHANGED <<queue, chunk, done, txn, dedup, mode>>
       ELSE Die

Applying == pc = "apply" /\ done < Len(chunk)
Retrying == pc = "retry" /\ done < Len(chunk)
Item     == copies[chunk[done + 1]]

ApplyItem ==
    /\ Applying /\ ~Item.bad
    /\ txn' = applyEnvelope(txn, Item, now)
    /\ done' = done + 1
    /\ UNCHANGED <<now, heard, copies, fate, dedup, queue, timer, pc, viaDrain, drained, chunk, db, mode, faults>>

\* Variant: the traceroute fold runs on a pooled connection, in autocommit.
BatchFails_FoldSurvives ==
    /\ Applying
    /\ IF Item.bad THEN UNCHANGED faults ELSE Fault("statement")
    /\ db' = [db EXCEPT !.folds = txn.folds]
    /\ pc' = "retry" /\ done' = 0 /\ txn' = db'
    /\ UNCHANGED <<now, heard, copies, fate, dedup, queue, timer, viaDrain, drained, chunk, mode>>

\* A statement of the batch fails: roll back, start the individual retries.
BatchFails ==
    /\ Applying
    /\ IF Item.bad THEN UNCHANGED faults ELSE Fault("statement")
    /\ pc' = "retry" /\ done' = 0 /\ txn' = db
    /\ UNCHANGED <<now, heard, copies, fate, dedup, queue, timer, viaDrain, drained, chunk, db, mode>>

Commit ==
    /\ pc = "apply" /\ done = Len(chunk)
    /\ db' = txn
    /\ Settle(Elements(chunk), "written")
    /\ NextChunk
    /\ UNCHANGED <<now, heard, copies, dedup, queue, drained, mode, faults>>

\* The commit is reported failed, whether or not the server had done it.
CommitFails ==
    /\ pc = "apply" /\ done = Len(chunk) /\ Fault("commit")
    /\ db' \in {db, txn}
    /\ pc' = "retry" /\ done' = 0 /\ txn' = db'
    /\ UNCHANGED <<now, heard, copies, fate, dedup, queue, timer, viaDrain, drained, chunk, mode>>

\* processEnvelope on the next item, in a transaction of its own.
RetryItem ==
    /\ Retrying /\ ~Item.bad
    /\ db' = applyEnvelope(db, Item, now)
    /\ Settle({chunk[done + 1]}, "written")
    /\ done' = done + 1 /\ txn' = db'
    /\ UNCHANGED <<now, heard, copies, dedup, queue, timer, pc, viaDrain, drained, chunk, mode, faults>>

RetryFails ==
    /\ Retrying
    /\ IF Item.bad
       THEN UNCHANGED <<faults, db>>
       ELSE \/ Fault("statement") /\ UNCHANGED db
            \/ Fault("commit") /\ db' \in {db, applyEnvelope(db, Item, now)}
    /\ Settle({chunk[done + 1]}, "logged")
    /\ done' = done + 1 /\ txn' = db'
    /\ UNCHANGED <<now, heard, copies, dedup, queue, timer, pc, viaDrain, drained, chunk, mode>>

RetriesDone ==
    /\ pc = "retry" /\ done = Len(chunk)
    /\ db' = db
    /\ NextChunk
    /\ UNCHANGED <<now, heard, copies, fate, dedup, queue, drained, mode, faults>>

-----------------------------------------------------------------------------
(* Shutdown, crash and restart                                               *)

\* SIGTERM: the connectors are stopped, then drain() is awaited.
Shutdown ==
    /\ mode = "up" /\ mode' = "draining"
    /\ UNCHANGED <<now, heard, copies, fate, dedup, flushVars, db, faults>>

\* Variant: the shutdown clears the timer and only waits.
drain_OnlyWaits ==
    /\ mode = "draining" /\ pc = "idle"
    /\ UNCHANGED <<now, heard, copies, db, faults>>
    /\ IF queue = <<>>
       THEN Die
       ELSE timer' = FALSE /\ UNCHANGED <<fate, dedup, queue, pc, viaDrain, drained, chunk, done, txn, mode>>

\* One turn of drain()'s loop: wait for the flush in flight, return when the
\* queue is empty (the pool is closed and the process exits), else flush.
drain ==
    /\ mode = "draining" /\ pc = "idle"
    /\ UNCHANGED <<now, heard, copies, db, faults>>
    /\ IF queue = <<>>
       THEN Die
       ELSE Flush(queue, TRUE) /\ UNCHANGED <<fate, dedup, chunk, done, txn, mode>>

\* SIGKILL or power loss; a commit on its way may or may not have been done.
Kill ==
    /\ mode # "down" /\ Fault("kill")
    /\ db' \in {db} \union (IF pc = "apply" /\ done = Len(chunk) THEN {txn} ELSE {})
    /\ Die
    /\ UNCHANGED <<now, heard, copies>>

Restart ==
    /\ mode = "down" /\ mode' = "up"
    /\ UNCHANGED <<now, heard, copies, fate, dedup, flushVars, db, faults>>

FlushStep ==
    \/ Connect \/ ConnectFails \/ ApplyItem \/ BatchFails
    \/ Commit \/ CommitFails \/ RetryItem \/ RetryFails \/ RetriesDone

Next ==
    \/ Tick \/ Deliver \/ TimerFires \/ FlushStep
    \/ Shutdown \/ drain \/ Kill \/ Restart

\* The event loop runs what is due: an armed timer, the running flush, drain().
Fairness ==
    WF_vars(TimerFires) /\ WF_vars(FlushStep) /\ WF_vars(drain)

Spec == Init /\ [][Next]_vars
FairSpec == Spec /\ Fairness

-----------------------------------------------------------------------------
(* Properties                                                                *)

\* Types of the variables.
TypeOK ==
    /\ now \in Plausible .. MaxTime
    /\ heard \in [Mid -> [Gateway -> Int]]
    /\ \A n \in DOMAIN copies : copies[n].mid \in Mid /\ copies[n].gw \in Gateway
    /\ DOMAIN fate = DOMAIN copies
    /\ \A n \in DOMAIN fate :
           fate[n] \in {"suppressed", "shed", "queued", "written", "logged", "lost"}
    /\ Len(dedup) <= maxEntries
    /\ Len(queue) <= maxQueue
    /\ \A n \in Elements(queue) \union Elements(drained) \union Elements(chunk) :
           n \in DOMAIN copies
    /\ timer \in BOOLEAN /\ viaDrain \in BOOLEAN
    /\ pc \in {"idle", "connect", "apply", "retry"}
    /\ done \in 0 .. Len(chunk)
    /\ \A k \in DOMAIN db.pkt : db.pkt[k] \in Row
    /\ mode \in {"up", "draining", "down"}
    /\ faults \in 0 .. MaxFaults

\* Copies of one logical packet never land on two rows a window or less apart
\* (applyEnvelope, the rolling lookup around bucket boundaries).
RowsStayApart == RowsApart(db)

\* One transmission, heard by gateways whose clocks agree to within a window,
\* is one packets row, in whatever order its copies are written.
OneLogicalPacket ==
    \A m \in DOMAIN heard \ {NoId} :
        (\A g \in DOMAIN heard[m] : heard[m][g] \in {Unheard} \cup (Plausible .. now))
            => Cardinality({k \in DOMAIN db.pkt : k[1] = m}) <= 1

\* Counters equal the rows they count after rollbacks, retries, lost commit
\* replies and crashes (batch.ts: "Correctness is unchanged").
CountersMatch == CountersExact(db)

\* Side tables are written once per logical packet, by the first copy that
\* decodes, whichever path that copy takes through applyEnvelope.
SideTablesMatch == SideTablesOnce(db)

\* A gateway's reception of a packet is one row, although it is delivered as
\* JSON, as protobuf and over RF, repeated and retried.
OneReception == ReceptionOnce(db)

\* A copy reported committed is in the database, as RF if it was heard on RF.
WrittenIsStored ==
    \A n \in DOMAIN fate : fate[n] = "written" =>
        \E r \in DOMAIN db.rx :
            /\ r[1][1] = copies[n].mid /\ r[2] = copies[n].gw
            /\ copies[n].via = "rf" => db.rx[r] = "rf"

\* One transmission is one packets row, and one gateway's reception of it one
\* row, in whatever order and over whatever path its copies are written
\* (applyEnvelope, upsertReception).
OneOfEach == OneReception /\ OneLogicalPacket

\* The counters, the side tables and what flush() reports as written are in
\* step with the rows after rollbacks, retries, lost replies and crashes
\* (batch.ts, "Correctness is unchanged").
StoredAddsUp == CountersMatch /\ SideTablesMatch /\ WrittenIsStored

\* No accepted copy disappears: it is queued, written, or logged as dropped
\* (batch.ts, drain and the individual retries; the design promises buffering
\* through a database outage).
NothingLost == \A n \in DOMAIN fate : fate[n] # "lost"

\* Copies vanish without a trace only in the very step in which the process is
\* killed or refused a connection: never in a shutdown, however it interleaves
\* with a running flush, and never in a rollback (batch.ts, drain).
LossNeedsFault ==
    [][(\E n \in DOMAIN fate : fate[n] # "lost" /\ fate'[n] = "lost")
           => faults' > faults]_vars

\* A message that cannot be written costs no other message of its batch: good
\* copies are dropped at most one per fault of the database (batch.ts: "one bad
\* message cannot drop a whole batch").
BadMessageAlone ==
    Cardinality({n \in DOMAIN fate : fate[n] = "logged" /\ ~copies[n].bad}) <= faults

\* A copy the dedup cache drops was preceded by an accepted or shed copy of
\* the same reception with at least its fidelity (dedup.ts, the ranks).
SuppressedIsCovered ==
    \A n \in DOMAIN fate : fate[n] = "suppressed" =>
        \E e \in 1 .. n - 1 :
            /\ fate[e] # "suppressed"
            /\ copies[e].mid = copies[n].mid /\ copies[e].gw = copies[n].gw
            /\ Rank[copies[e].via] >= Rank[copies[n].via]

\* Whatever waits in the queue has a timer or a flush that will take it.
QueueNeverStranded == queue # <<>> => (timer \/ pc # "idle")

\* Every accepted copy is eventually written, logged or lost with the process.
EveryCopySettles ==
    \A n \in 1 .. MaxCopies :
        (n \in DOMAIN fate /\ fate[n] = "queued")
            ~> (n \in DOMAIN fate /\ fate[n] # "queued")

\* A shutdown drains and ends.
ShutdownEnds == (mode = "draining") ~> (mode = "down")

\* A traceroute some copy of which was decoded is in the topology, once per
\* logical packet (pipeline.ts:312).
TracerouteFolded ==
    \A k \in DOMAIN db.pkt :
        (k[1] \in Traced /\ db.pkt[k].claimed) => db.folds[k[1]] >= 1

\* The side row knows the channel when the packets row does (pipeline.ts:140).
TextKnowsChannel ==
    \A k \in DOMAIN db.pkt :
        (db.pkt[k].claimed /\ db.pkt[k].named) => db.pkt[k].textNamed
=============================================================================
