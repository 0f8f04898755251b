---------------------------- MODULE IngestProofs ----------------------------
(* Theorems about Ingest, for every number of gateways, packets, copies and   *)
(* faults, every window and every size of the queue and the cache.            *)
EXTENDS Ingest, SequenceTheorems, WellFoundedInduction, TLAPS, FiniteSetTheorems

-----------------------------------------------------------------------------
(* The rolling lookup.                                                       *)

\* A time lies in the bucket that dedupBucket assigns it.
LEMMA BucketFacts ==
    ASSUME NEW t \in Int
    PROVE  /\ BucketStart(t) \in Int
           /\ BucketStart(t) <= t
           /\ t < BucketStart(t) + Window
  BY PacketStoreAssumption, SMTT(30) DEF BucketStart, dedupBucket

\* Every key of packets is a pair of a mid and a first_seen_at.
Keyed(d) == \A k \in DOMAIN d.pkt : k \in Mid \X Int

StoreOK(d) == Keyed(d) /\ RowsApart(d)

Envelope == [mid: Mid, gw: Gateway, rx: Int, via: Via,
             parsed: BOOLEAN, named: BOOLEAN, bad: BOOLEAN]

\* Rows a window apart leave at most three within reach, so one is the latest.
LEMMA LatestExists ==
    ASSUME NEW d, StoreOK(d), NEW m \in Mid, m # NoId, NEW t \in Int,
           Matches(d, m, t) # {}
    PROVE  Latest(Matches(d, m, t)) \in Matches(d, m, t)
<1> DEFINE S == Matches(d, m, t)
<1>1. \A f \in S : /\ f \in Int /\ t - 2 * Window <= f /\ f <= t + Window
                   /\ <<m, f>> \in DOMAIN d.pkt
  BY PacketStoreAssumption DEF Matches, dedupLookupRange
<1>2. \A f, g \in S : g > f => g - f > Window
  <2> SUFFICES ASSUME NEW f \in S, NEW g \in S, g > f PROVE g - f > Window
    OBVIOUS
  <2>0. f \in Int /\ g \in Int
    BY <1>1
  <2>1. <<m, f>> # <<m, g>>
    BY <2>0
  <2>2. f - g > Window \/ g - f > Window
    BY <1>1, <2>1 DEF StoreOK, RowsApart
  <2> QED
    BY <2>0, <2>2, PacketStoreAssumption
<1>3. \E f \in S : \A g \in S : g <= f
  <2> SUFFICES ASSUME \A f \in S : \E g \in S : ~(g <= f) PROVE FALSE
    OBVIOUS
  <2>0. \A f \in S : \E g \in S : g > f
    <3> SUFFICES ASSUME NEW f \in S PROVE \E g \in S : g > f
      OBVIOUS
    <3>1. PICK g \in S : ~(g <= f)
      OBVIOUS
    <3>2. f \in Int /\ g \in Int
      BY <1>1
    <3> QED
      BY <3>1, <3>2
  <2>1. PICK a \in S : TRUE
    OBVIOUS
  <2>2. PICK b \in S : b > a
    BY <2>0
  <2>3. PICK c \in S : c > b
    BY <2>0
  <2>4. PICK e \in S : e > c
    BY <2>0
  <2>5. b - a > Window /\ c - b > Window /\ e - c > Window
    BY <1>2, <2>2, <2>3, <2>4
  <2>6. /\ a \in Int /\ b \in Int /\ c \in Int /\ e \in Int
        /\ t - 2 * Window <= a /\ e <= t + Window
    BY <1>1
  <2>7. Window \in Int
    BY PacketStoreAssumption
  <2> QED
    BY <2>5, <2>6, <2>7
<1> QED
  BY <1>3 DEF Latest

\* The row a copy goes to is one the store has, or one more than a window from
\* every row of its mid.
LEMMA KeyApart ==
    ASSUME NEW d, StoreOK(d), NEW c \in Envelope, NEW t \in Int
    PROVE  /\ FirstSeen(d, c.mid, t) \in Int
           /\ \A k \in DOMAIN d.pkt :
                 (k[1] = c.mid /\ c.mid # NoId /\ k # <<c.mid, FirstSeen(d, c.mid, t)>>)
                 => (k[2] - FirstSeen(d, c.mid, t) > Window
                     \/ FirstSeen(d, c.mid, t) - k[2] > Window)
<1> DEFINE f == FirstSeen(d, c.mid, t)
<1>0. c.mid \in Mid
  BY DEF Envelope
<1>1. CASE c.mid = NoId
  BY <1>1 DEF FirstSeen
<1>2. CASE c.mid # NoId /\ Matches(d, c.mid, t) = {}
  <2>1. f = BucketStart(t)
    BY <1>2 DEF FirstSeen
  <2>2. f \in Int /\ f <= t /\ t < f + Window
    BY <2>1, BucketFacts
  <2> SUFFICES ASSUME NEW k \in DOMAIN d.pkt, k[1] = c.mid
               PROVE  k[2] - f > Window \/ f - k[2] > Window
    BY <2>2
  <2>3. k = <<c.mid, k[2]>> /\ k[2] \in Int
    BY DEF StoreOK, Keyed
  <2>4. k[2] \notin dedupLookupRange(t)
    BY <1>2, <2>3 DEF Matches
  <2>5. k[2] < t - 2 * Window \/ k[2] > t + Window
    BY <2>3, <2>4, PacketStoreAssumption DEF dedupLookupRange
  <2> QED
    BY <2>2, <2>3, <2>5, PacketStoreAssumption
<1>3. CASE c.mid # NoId /\ Matches(d, c.mid, t) # {}
  <2>1. f \in Matches(d, c.mid, t)
    BY <1>0, <1>3, LatestExists DEF FirstSeen
  <2>2. f \in Int /\ <<c.mid, f>> \in DOMAIN d.pkt
    BY <2>1, PacketStoreAssumption DEF Matches, dedupLookupRange
  <2>3. \A k \in DOMAIN d.pkt : (k[1] = c.mid /\ k # <<c.mid, f>>)
            => (k[2] - f > Window \/ f - k[2] > Window)
    BY <2>2, <1>3 DEF StoreOK, RowsApart
  <2> QED
    BY <2>2, <2>3
<1> QED
  BY <1>1, <1>2, <1>3

\* applyEnvelope keeps the rows of a mid more than a window apart.
LEMMA ApplyApart ==
    ASSUME NEW d, StoreOK(d), NEW c \in Envelope, NEW t \in Int
    PROVE  StoreOK(applyEnvelope(d, c, t))
<1> DEFINE u == RxTime(c, t)
           f == FirstSeen(d, c.mid, u)
           k == <<c.mid, f>>
<1>1. c.mid \in Mid /\ u \in Int
  BY DEF RxTime, Envelope
<1>2. f \in Int
  BY <1>1, KeyApart
<1>3. DOMAIN applyEnvelope(d, c, t).pkt = DOMAIN d.pkt \union {k}
  BY DEF applyEnvelope, With, PacketKey
<1>4. Keyed(applyEnvelope(d, c, t))
  BY <1>1, <1>2, <1>3 DEF StoreOK, Keyed
<1>5. RowsApart(applyEnvelope(d, c, t))
  <2> SUFFICES ASSUME NEW k1 \in DOMAIN d.pkt \union {k},
                      NEW k2 \in DOMAIN d.pkt \union {k},
                      k1 # k2, k1[1] = k2[1], k1[1] # NoId
               PROVE  k1[2] - k2[2] > Window \/ k2[2] - k1[2] > Window
    BY <1>3 DEF RowsApart
  <2>1. CASE k1 \in DOMAIN d.pkt /\ k2 \in DOMAIN d.pkt
    BY <2>1 DEF StoreOK, RowsApart
  <2>2. CASE k1 = k /\ k2 \in DOMAIN d.pkt
    BY <1>1, <2>2, KeyApart
  <2>3. CASE k2 = k /\ k1 \in DOMAIN d.pkt
    BY <1>1, <2>3, KeyApart
  <2> QED
    BY <2>1, <2>2, <2>3
<1> QED
  BY <1>4, <1>5 DEF StoreOK

-----------------------------------------------------------------------------
(* The daemon: every write goes through applyEnvelope on a typed copy.       *)

\* Everything in memory names a delivered copy, and both what is committed and
\* what the open transaction sees keep their rows apart.
StoreInv ==
    /\ now \in Int
    /\ heard \in [Mid -> [Gateway -> Int]]
    /\ copies \in Seq(Envelope)
    /\ queue \in Seq(DOMAIN copies)
    /\ drained \in Seq(DOMAIN copies)
    /\ chunk \in Seq(DOMAIN copies)
    /\ done \in 0 .. Len(chunk)
    /\ StoreOK(db)
    /\ StoreOK(txn)

LEMMA SeqGrows ==
    ASSUME NEW S, NEW T, S \subseteq T, NEW s \in Seq(S)
    PROVE  s \in Seq(T)
  OBVIOUS

\* A delivered copy is an envelope.
LEMMA CopyTyped ==
    ASSUME StoreInv, NEW c \in Copies, NEW rx \in Stamps(c.mid, c.gw)
    PROVE  Copy(c, rx) \in Envelope
<1>1. c.mid \in Mid /\ c.gw \in Gateway /\ c.kind \in [via: Via, parsed: BOOLEAN, named: BOOLEAN, bad: BOOLEAN]
  BY IngestAssumption DEF Copies
<1>2. heard[c.mid][c.gw] \in Int
  BY <1>1 DEF StoreInv
<1>3. rx \in Int
  BY <1>2, IngestAssumption, PacketStoreAssumption DEF Stamps, Future
<1> QED
  BY <1>1, <1>3 DEF Copy, Envelope

\* flush() moves the queue it is given, whole, and nothing else.
LEMMA FlushTyped ==
    ASSUME NEW S, NEW q \in Seq(S), drained \in Seq(S), NEW b, Flush(q, b)
    PROVE  queue' \in Seq(S) /\ drained' \in Seq(S)
<1>1. CASE pc # "idle" \/ q = <<>>
  BY <1>1 DEF Flush
<1>2. CASE ~(pc # "idle" \/ q = <<>>)
  <2>1. queue' = <<>> /\ drained' = q
    BY <1>2 DEF Flush
  <2> QED
    BY <2>1
<1> QED
  BY <1>1, <1>2

LEMMA StoreInit == Init => StoreInv
<1> SUFFICES ASSUME Init PROVE StoreInv
  OBVIOUS
<1>1. StoreOK(EmptyStore)
  BY DEF StoreOK, Keyed, RowsApart, EmptyStore
<1> QED
  BY <1>1, PacketStoreAssumption DEF Init, StoreInv, Unheard

\* A delivery puts at most the new copy on the queue.
LEMMA StoreDeliver == StoreInv /\ Deliver => StoreInv'
<1> SUFFICES ASSUME StoreInv, Deliver PROVE StoreInv'
  OBVIOUS
<1>1. PICK c0 \in Copies : \E rx \in Stamps(c0.mid, c0.gw) : Receive(Copy(c0, rx))
  BY DEF Deliver
<1>2. PICK rx \in Stamps(c0.mid, c0.gw) : Receive(Copy(c0, rx))
  BY <1>1
<1> DEFINE c == Copy(c0, rx)
<1>3. c \in Envelope
  BY CopyTyped
<1> HIDE DEF c
<1>4. Receive(c)
  BY <1>2 DEF c
<1>5. /\ copies' \in Seq(Envelope)
      /\ DOMAIN copies \subseteq DOMAIN copies'
      /\ Len(copies) + 1 \in DOMAIN copies'
  BY <1>3, <1>4 DEF Receive, StoreInv
<1>6. heard' \in [Mid -> [Gateway -> Int]]
  BY <1>3, <1>4 DEF Receive, StoreInv, Envelope
<1>7. /\ queue \in Seq(DOMAIN copies') /\ drained \in Seq(DOMAIN copies')
      /\ chunk \in Seq(DOMAIN copies')
  BY <1>5, SeqGrows DEF StoreInv
<1>8. Append(queue, Len(copies) + 1) \in Seq(DOMAIN copies')
  BY <1>5, <1>7
<1>9. chunk' = chunk /\ done' = done /\ txn' = txn
  BY <1>4 DEF Receive, enqueue, flushVars
<1>10. queue' \in Seq(DOMAIN copies') /\ drained' \in Seq(DOMAIN copies')
  <2>1. CASE Duplicate(c)
    BY <1>4, <1>7, <2>1 DEF Receive, flushVars
  <2>2. CASE ~Duplicate(c)
    <3>1. enqueue(Len(copies) + 1)
      BY <1>4, <2>2 DEF Receive
    <3>2. CASE Flush(Append(queue, Len(copies) + 1), FALSE)
      BY <1>7, <1>8, <3>2, FlushTyped
    <3> QED
      BY <1>7, <1>8, <3>1, <3>2 DEF enqueue
  <2> QED
    BY <2>1, <2>2
<1> QED
  BY <1>4, <1>5, <1>6, <1>7, <1>9, <1>10 DEF Receive, StoreInv

\* The item the flush is at is an envelope.
LEMMA ItemTyped ==
    ASSUME StoreInv, done < Len(chunk)
    PROVE  Item \in Envelope
<1>1. done + 1 \in DOMAIN chunk
  BY DEF StoreInv
<1>2. chunk[done + 1] \in DOMAIN copies
  BY <1>1 DEF StoreInv
<1> QED
  BY <1>2 DEF Item, StoreInv

\* The process ends with nothing in memory.
LEMMA StoreDie ==
    ASSUME StoreInv, Die, UNCHANGED <<now, heard, copies>>, StoreOK(db)'
    PROVE  StoreInv'
<1>1. /\ queue' \in Seq(DOMAIN copies') /\ drained' \in Seq(DOMAIN copies')
      /\ chunk' \in Seq(DOMAIN copies') /\ done' \in 0 .. Len(chunk')
  BY DEF Die
<1>2. StoreOK(txn)'
  BY DEF Die
<1> QED
  BY <1>1, <1>2 DEF StoreInv

\* A step of the flush leaves the stores as they are, swaps them, or applies
\* the item it is at.
LEMMA StoreFlush == StoreInv /\ FlushStep => StoreInv'
<1> SUFFICES ASSUME StoreInv, FlushStep PROVE StoreInv'
  OBVIOUS
<1> USE DEF StoreInv
<1>1. CASE Connect
  <2> DEFINE n == IF Len(drained) < maxBatch THEN Len(drained) ELSE maxBatch
  <2>1. n \in 0 .. Len(drained)
    BY IngestAssumption
  <2>2. /\ SubSeq(drained, 1, n) \in Seq(DOMAIN copies)
        /\ SubSeq(drained, n + 1, Len(drained)) \in Seq(DOMAIN copies)
    BY <2>1, SubSeqProperties
  <2> QED
    BY <1>1, <2>2 DEF Connect
<1>2. CASE ConnectFails
  <2>1. CASE viaDrain
    BY <1>2, <2>1 DEF ConnectFails
  <2>2. CASE ~viaDrain
    <3>1. Die /\ UNCHANGED <<now, heard, copies>> /\ StoreOK(db)'
      BY <1>2, <2>2 DEF ConnectFails
    <3> QED
      BY <3>1, StoreDie
  <2> QED
    BY <2>1, <2>2
<1>3. CASE ApplyItem
  BY <1>3, ItemTyped, ApplyApart DEF ApplyItem, Applying
<1>4. CASE BatchFails
  BY <1>4 DEF BatchFails
<1>5. CASE Commit
  BY <1>5 DEF Commit, NextChunk
<1>6. CASE CommitFails
  BY <1>6 DEF CommitFails
<1>7. CASE RetryItem
  BY <1>7, ItemTyped, ApplyApart DEF RetryItem, Retrying
<1>8. CASE RetryFails
  BY <1>8, ItemTyped, ApplyApart DEF RetryFails, Retrying
<1>9. CASE RetriesDone
  BY <1>9 DEF RetriesDone, NextChunk
<1> QED
  BY <1>1, <1>2, <1>3, <1>4, <1>5, <1>6, <1>7, <1>8, <1>9 DEF FlushStep

LEMMA StoreStep == StoreInv /\ [Next]_vars => StoreInv'
<1> SUFFICES ASSUME StoreInv, [Next]_vars PROVE StoreInv'
  OBVIOUS
<1>1. CASE Tick
  BY <1>1 DEF Tick, flushVars, StoreInv
<1>2. CASE Deliver
  BY <1>2, StoreDeliver
<1>3. CASE TimerFires
  BY <1>3, FlushTyped DEF TimerFires, StoreInv
<1>4. CASE FlushStep
  BY <1>4, StoreFlush
<1>5. CASE Shutdown
  BY <1>5 DEF Shutdown, flushVars, StoreInv
<1>6. CASE drain
  <2>1. CASE queue = <<>>
    <3>1. Die /\ UNCHANGED <<now, heard, copies>> /\ StoreOK(db)'
      BY <1>6, <2>1 DEF drain, StoreInv
    <3> QED
      BY <3>1, StoreDie
  <2>2. CASE queue # <<>>
    BY <1>6, <2>2, FlushTyped DEF drain, StoreInv
  <2> QED
    BY <2>1, <2>2
<1>7. CASE Kill
  <2>1. Die /\ UNCHANGED <<now, heard, copies>> /\ StoreOK(db)'
    BY <1>7 DEF Kill, StoreInv
  <2> QED
    BY <2>1, StoreDie
<1>8. CASE Restart
  BY <1>8 DEF Restart, flushVars, StoreInv
<1>9. CASE UNCHANGED vars
  BY <1>9 DEF vars, flushVars, StoreInv
<1> QED
  BY <1>1, <1>2, <1>3, <1>4, <1>5, <1>6, <1>7, <1>8, <1>9 DEF Next

\* Copies of one logical packet are never split over two packets rows a window
\* or less apart, whatever arrives, in whatever order it is written, and
\* whatever fails (pipeline.ts, the rolling lookup).
THEOREM IngestRowsStayApart == Spec => []RowsStayApart
<1>1. StoreInv => RowsStayApart
  BY DEF StoreInv, StoreOK, RowsStayApart
<1> QED
  BY <1>1, StoreInit, StoreStep, PTL DEF Spec

-----------------------------------------------------------------------------
(* The queue always has somebody who will take it.                           *)

\* flush() empties the queue it is given or leaves it to a running flush, and
\* the finally of flush() rearms the timer for what arrived meanwhile, so no
\* accepted copy waits for a later one to be noticed (batch.ts:112).
THEOREM IngestQueueNeverStranded == Spec => []QueueNeverStranded
<1>1. Init => QueueNeverStranded
  BY DEF Init, QueueNeverStranded
<1>2. QueueNeverStranded /\ [Next]_vars => QueueNeverStranded'
  <2> SUFFICES ASSUME QueueNeverStranded, [Next]_vars
               PROVE  QueueNeverStranded'
    OBVIOUS
  <2> USE DEF QueueNeverStranded
  <2>1. ASSUME NEW q, NEW b, Flush(q, b)
        PROVE  queue' # <<>> => pc' # "idle"
    BY <2>1 DEF Flush
  <2>2. Die => queue' = <<>>
    BY DEF Die
  <2>3. NextChunk /\ queue' = queue => QueueNeverStranded'
    BY DEF NextChunk
  <2>4. CASE Deliver
    <3>1. PICK c : Receive(c)
      BY <2>4 DEF Deliver
    <3>2. CASE Duplicate(c)
      BY <3>1, <3>2 DEF Receive, flushVars
    <3>3. CASE ~Duplicate(c)
      <4>1. enqueue(Len(copies) + 1)
        BY <3>1, <3>3 DEF Receive
      <4> QED
        BY <4>1, <2>1 DEF enqueue
    <3> QED
      BY <3>2, <3>3
  <2>5. CASE TimerFires
    BY <2>1, <2>5 DEF TimerFires
  <2>6. CASE FlushStep
    <3>1. CASE Connect
      BY <3>1 DEF Connect
    <3>2. CASE ConnectFails
      BY <2>2, <3>2 DEF ConnectFails
    <3>3. CASE ApplyItem \/ BatchFails \/ CommitFails \/ RetryItem \/ RetryFails
      BY <3>3 DEF ApplyItem, BatchFails, CommitFails, RetryItem, RetryFails
    <3>4. CASE Commit \/ RetriesDone
      BY <2>3, <3>4 DEF Commit, RetriesDone
    <3> QED
      BY <2>6, <3>1, <3>2, <3>3, <3>4 DEF FlushStep
  <2>7. CASE drain
    BY <2>1, <2>2, <2>7 DEF drain
  <2>8. CASE Kill
    BY <2>2, <2>8 DEF Kill
  <2>9. CASE Tick \/ Shutdown \/ Restart \/ UNCHANGED vars
    BY <2>9 DEF Tick, Shutdown, Restart, vars, flushVars
  <2> QED
    BY <2>4, <2>5, <2>6, <2>7, <2>8, <2>9 DEF Next
<1> QED
  BY <1>1, <1>2, PTL DEF Spec

-----------------------------------------------------------------------------
(* The dedup cache.                                                          *)

Fates == {"suppressed", "shed", "queued", "written", "logged", "lost"}

\* A claim in the cache was made by a copy that was not suppressed and has at
\* least the claim's fidelity.
Claims(cs, fs) ==
    {x \in [key: {"rf", "shared"} \X Mid \X Gateway, exp: Int, rank: 0 .. 2] :
        \E e \in DOMAIN cs :
            /\ fs[e] # "suppressed"
            /\ cs[e].mid = x.key[2] /\ cs[e].gw = x.key[3]
            /\ Rank[cs[e].via] >= x.rank}

\* StoreInv, and the cache holds nothing but such claims.
DedupInv ==
    /\ StoreInv
    /\ fate \in Seq(Fates) /\ Len(fate) = Len(copies)
    /\ dedup \in Seq(Claims(copies, fate))
    /\ SuppressedIsCovered

\* Whatever set the entries of the map are from, they still are after a claim
\* of an entry of that set, evicted or not.
LEMMA ClaimTyped ==
    ASSUME NEW S, NEW d \in Seq(S), NEW key, NEW rank,
           [key |-> key, exp |-> now + Window, rank |-> rank] \in S
    PROVE  Claim(d, key, rank) \in Seq(S)
<1> DEFINE x == [key |-> key, exp |-> now + Window, rank |-> rank]
<1>1. CASE At(d, key) # {}
  <2>1. [i \in DOMAIN d |-> IF d[i].key = key THEN x ELSE d[i]] \in Seq(S)
    OBVIOUS
  <2> QED
    BY <1>1, <2>1 DEF Claim
<1>2. CASE At(d, key) = {}
  <2> DEFINE a == Append(d, x)
  <2>1. a \in Seq(S)
    OBVIOUS
  <2>2. \A v \in DOMAIN a : SubSeq(a, 1, v - 1) \o SubSeq(a, v + 1, Len(a)) \in Seq(S)
    <3> SUFFICES ASSUME NEW v \in DOMAIN a
                 PROVE  SubSeq(a, 1, v - 1) \o SubSeq(a, v + 1, Len(a)) \in Seq(S)
      OBVIOUS
    <3>1. v \in 1 .. Len(a) /\ \A i \in 1 .. Len(a) : a[i] \in S
      BY <2>1
    <3> HIDE DEF a
    <3>2. SubSeq(a, 1, v - 1) \in Seq(S)
      BY <2>1, <3>1, SubSeqProperties
    <3>3. SubSeq(a, v + 1, Len(a)) \in Seq(S)
      BY <2>1, <3>1, SubSeqProperties
    <3> QED
      BY <3>2, <3>3
  <2>3. evict(a) \in Seq(S)
    <3>1. CASE Len(a) <= maxEntries
      BY <2>1, <3>1 DEF evict
    <3>2. CASE ~(Len(a) <= maxEntries)
      <4> DEFINE expired == {i \in DOMAIN a : a[i].exp <= now}
                 victim  == IF expired = {} THEN 1
                            ELSE CHOOSE i \in expired : \A j \in expired : i <= j
      <4>1. victim \in DOMAIN a
        <5>1. 1 \in DOMAIN a
          BY <2>1
        <5>2. expired # {} => \E i \in expired : \A j \in expired : i <= j
          <6> SUFFICES ASSUME expired # {}
                       PROVE  \E i \in expired : \A j \in expired : i <= j
            OBVIOUS
          <6>1. expired \subseteq Nat
            BY <2>1
          <6> HIDE DEF expired
          <6> DEFINE R == OpToRel(<, Nat)
          <6>2. PICK i \in expired : \A j \in expired : ~(<<j, i>> \in R)
            <7>1. IsWellFoundedOn(R, Nat)
              BY NatLessThanWellFounded
            <7> HIDE DEF R
            <7> QED
              BY <6>1, <7>1, WFMin, Zenon
          <6>3. \A j \in expired : ~(j < i)
            BY <6>1, <6>2 DEF OpToRel
          <6> QED
            BY <6>1, <6>3
        <5> QED
          BY <5>1, <5>2
      <4> QED
        BY <2>2, <3>2, <4>1 DEF evict
    <3> QED
      BY <3>1, <3>2
  <2> QED
    BY <1>2, <2>3 DEF Claim
<1> QED
  BY <1>1, <1>2

\* A duplicate meets a claim, and the claim names the copy that covers it.
LEMMA DuplicateCovered ==
    ASSUME DedupInv, NEW c \in Envelope, Duplicate(c)
    PROVE  \E e \in DOMAIN copies :
              /\ fate[e] # "suppressed"
              /\ copies[e].mid = c.mid /\ copies[e].gw = c.gw
              /\ Rank[copies[e].via] >= Rank[c.via]
<1>1. PICK space \in {"rf", "shared"}, i \in DOMAIN dedup :
          dedup[i].key = Key(space, c) /\ Rank[c.via] <= dedup[i].rank
  BY DEF Duplicate, seen, At, Rank, Envelope, Via
<1>2. dedup[i] \in Claims(copies, fate)
  BY DEF DedupInv
<1>3. PICK e \in DOMAIN copies :
          /\ fate[e] # "suppressed"
          /\ copies[e].mid = c.mid /\ copies[e].gw = c.gw
          /\ Rank[copies[e].via] >= dedup[i].rank
  BY <1>1, <1>2 DEF Claims, Key
<1>4. Rank[copies[e].via] \in Int /\ Rank[c.via] \in Int /\ dedup[i].rank \in Int
  <2>1. copies[e] \in Envelope
    BY <1>3 DEF DedupInv, StoreInv
  <2>2. copies[e].via \in Via /\ c.via \in Via
    BY <2>1 DEF Envelope
  <2>3. dedup[i].rank \in 0 .. 2
    BY <1>2 DEF Claims
  <2> QED
    BY <2>2, <2>3 DEF Via, Rank
<1> QED
  BY <1>1, <1>3, <1>4

\* The claims a copy leaves behind are its own or were there before.
LEMMA ClaimedTyped ==
    ASSUME NEW S, dedup \in Seq(S), NEW c \in Envelope,
           \A space \in {"rf", "shared"} :
               [key |-> Key(space, c), exp |-> now + Window, rank |-> Rank[c.via]] \in S
    PROVE  Claimed(c) \in Seq(S)
<1>1. Claim(dedup, Key("rf", c), Rank[c.via]) \in Seq(S)
  BY ClaimTyped
<1>2. Claim(dedup, Key("shared", c), Rank[c.via]) \in Seq(S)
  BY ClaimTyped
<1> DEFINE d == Claim(dedup, Key("rf", c), Rank[c.via])
<1>3. Claim(d, Key("shared", c), Rank[c.via]) \in Seq(S)
  <2> HIDE DEF d
  <2>1. d \in Seq(S)
    BY <1>1 DEF d
  <2> QED
    BY <2>1, ClaimTyped
<1>4. c.via = "rf" => Rank[c.via] = Rank.rf
  OBVIOUS
<1> QED
  BY <1>2, <1>3, <1>4 DEF Claimed

\* A step that delivers nothing neither suppresses a copy nor adds a claim.
LEMMA DedupKeeps ==
    ASSUME DedupInv, StoreInv', copies' = copies,
           dedup' = dedup \/ dedup' = <<>>,
           fate' \in Seq(Fates), Len(fate') = Len(fate),
           \A n \in DOMAIN fate : fate'[n] = "suppressed" => fate[n] = "suppressed"
    PROVE  DedupInv'
<1>0. DOMAIN fate = DOMAIN copies /\ DOMAIN fate' = DOMAIN fate
  BY DEF DedupInv, StoreInv
<1>1. Claims(copies, fate) \subseteq Claims(copies', fate')
  BY <1>0 DEF Claims
<1>2. dedup' \in Seq(Claims(copies', fate'))
  <2>1. dedup \in Seq(Claims(copies', fate'))
    BY <1>1, SeqGrows DEF DedupInv
  <2>2. <<>> \in Seq(Claims(copies', fate'))
    BY EmptySeq
  <2>3. CASE dedup' = dedup
    BY <2>1, <2>3
  <2>4. CASE dedup' = <<>>
    BY <2>2, <2>4
  <2> QED
    BY <2>3, <2>4
<1>3. SuppressedIsCovered'
  <2> SUFFICES ASSUME NEW n \in DOMAIN fate, fate'[n] = "suppressed"
               PROVE  \E e \in 1 .. n - 1 :
                         /\ fate'[e] # "suppressed"
                         /\ copies[e].mid = copies[n].mid /\ copies[e].gw = copies[n].gw
                         /\ Rank[copies[e].via] >= Rank[copies[n].via]
    BY <1>0 DEF SuppressedIsCovered
  <2>1. PICK e \in 1 .. n - 1 :
            /\ fate[e] # "suppressed"
            /\ copies[e].mid = copies[n].mid /\ copies[e].gw = copies[n].gw
            /\ Rank[copies[e].via] >= Rank[copies[n].via]
    BY DEF DedupInv, SuppressedIsCovered
  <2>2. e \in DOMAIN fate
    BY DEF DedupInv
  <2> QED
    BY <2>1, <2>2
<1> QED
  BY <1>2, <1>3 DEF DedupInv

LEMMA DedupDeliver == DedupInv /\ Deliver => DedupInv'
<1> SUFFICES ASSUME DedupInv, Deliver PROVE DedupInv'
  OBVIOUS
<1>0. StoreInv /\ StoreInv'
  BY StoreDeliver DEF DedupInv
<1>1. PICK c0 \in Copies : \E rx \in Stamps(c0.mid, c0.gw) : Receive(Copy(c0, rx))
  BY DEF Deliver
<1>2. PICK rx \in Stamps(c0.mid, c0.gw) : Receive(Copy(c0, rx))
  BY <1>1
<1> DEFINE c == Copy(c0, rx)
           N == Len(copies) + 1
<1>3. c \in Envelope
  BY <1>0, CopyTyped
<1> HIDE DEF c
<1>4. Receive(c)
  BY <1>2 DEF c
<1>5. /\ copies \in Seq(Envelope) /\ fate \in Seq(Fates) /\ Len(fate) = Len(copies)
      /\ DOMAIN copies = 1 .. Len(copies) /\ DOMAIN fate = DOMAIN copies
  BY <1>0 DEF DedupInv, StoreInv
<1>6. \/ Duplicate(c) /\ fate' = Append(fate, "suppressed")
      \/ ~Duplicate(c) /\ fate' = Append(fate, "shed")
      \/ ~Duplicate(c) /\ fate' = Append(fate, "queued")
  <2>1. CASE Duplicate(c)
    BY <1>4, <2>1 DEF Receive
  <2>2. CASE ~Duplicate(c)
    <3>1. enqueue(N)
      BY <1>4, <2>2 DEF Receive
    <3> QED
      BY <2>2, <3>1 DEF enqueue
  <2> QED
    BY <2>1, <2>2
<1>7. /\ copies' = Append(copies, c) /\ copies'[N] = c
      /\ ~Duplicate(c) => fate'[N] # "suppressed"
      /\ fate'[N] = "suppressed" => Duplicate(c)
      /\ DOMAIN copies' = DOMAIN copies \union {N} /\ DOMAIN fate' = DOMAIN copies'
      /\ \A n \in DOMAIN copies : copies'[n] = copies[n] /\ fate'[n] = fate[n]
      /\ fate' \in Seq(Fates) /\ Len(fate') = Len(copies')
  <2>1. copies' = Append(copies, c)
    BY <1>4 DEF Receive
  <2>2. /\ copies'[N] = c /\ DOMAIN copies' = DOMAIN copies \union {N}
        /\ Len(copies') = N
        /\ \A n \in DOMAIN copies : copies'[n] = copies[n]
    BY <1>3, <1>5, <2>1
  <2>3. PICK f \in {"suppressed", "shed", "queued"} :
            /\ fate' = Append(fate, f)
            /\ f = "suppressed" => Duplicate(c)
            /\ ~Duplicate(c) => f # "suppressed"
    BY <1>6, Zenon
  <2>4. f \in Fates
    BY DEF Fates
  <2>5. /\ fate' \in Seq(Fates) /\ Len(fate') = N /\ fate'[N] = f
        /\ DOMAIN fate' = DOMAIN fate \union {N}
        /\ \A n \in DOMAIN fate : fate'[n] = fate[n]
    BY <1>5, <2>3, <2>4
  <2> QED
    BY <1>5, <2>1, <2>2, <2>3, <2>5
<1>8. dedup \in Seq(Claims(copies', fate'))
  <2>1. Claims(copies, fate) \subseteq Claims(copies', fate')
    BY <1>7 DEF Claims
  <2> QED
    BY <2>1, SeqGrows DEF DedupInv
<1>9. dedup' \in Seq(Claims(copies', fate'))
  <2>1. CASE Duplicate(c)
    BY <1>4, <1>8, <2>1 DEF Receive, Claimed
  <2>2. CASE ~Duplicate(c)
    <3>1. ASSUME NEW space \in {"rf", "shared"}
          PROVE  [key |-> Key(space, c), exp |-> now + Window, rank |-> Rank[c.via]]
                    \in Claims(copies', fate')
      <4> DEFINE x == [key |-> Key(space, c), exp |-> now + Window, rank |-> Rank[c.via]]
      <4>1. /\ Rank[c.via] \in 0 .. 2
            /\ now + Window \in Int
            /\ Key(space, c) \in {"rf", "shared"} \X Mid \X Gateway
        BY <1>0, <1>3, PacketStoreAssumption DEF StoreInv, Envelope, Via, Rank, Key
      <4>2. /\ N \in DOMAIN copies' /\ fate'[N] # "suppressed"
            /\ copies'[N].mid = x.key[2] /\ copies'[N].gw = x.key[3]
            /\ Rank[copies'[N].via] >= x.rank
        BY <1>6, <1>7, <2>2, <4>1 DEF Key
      <4> QED
        BY <4>1, <4>2 DEF Claims
    <3>2. Claimed(c) \in Seq(Claims(copies', fate'))
      BY <1>3, <1>8, <3>1, ClaimedTyped
    <3> QED
      BY <1>4, <3>2 DEF Receive
  <2> QED
    BY <2>1, <2>2
<1>10. SuppressedIsCovered'
  <2> SUFFICES ASSUME NEW n \in DOMAIN copies', fate'[n] = "suppressed"
               PROVE  \E e \in 1 .. n - 1 :
                         /\ fate'[e] # "suppressed"
                         /\ copies'[e].mid = copies'[n].mid
                         /\ copies'[e].gw = copies'[n].gw
                         /\ Rank[copies'[e].via] >= Rank[copies'[n].via]
    BY <1>7 DEF SuppressedIsCovered
  <2>1. CASE n = N
    BY <1>3, <1>5, <1>6, <1>7, <2>1, DuplicateCovered
  <2>2. CASE n \in DOMAIN copies
    <3>1. PICK e \in 1 .. n - 1 :
              /\ fate[e] # "suppressed"
              /\ copies[e].mid = copies[n].mid /\ copies[e].gw = copies[n].gw
              /\ Rank[copies[e].via] >= Rank[copies[n].via]
      BY <1>5, <1>7, <2>2 DEF DedupInv, SuppressedIsCovered
    <3>2. e \in DOMAIN copies
      BY <1>5, <2>2
    <3> QED
      BY <1>7, <2>2, <3>1, <3>2
  <2> QED
    BY <1>7, <2>1, <2>2
<1> QED
  BY <1>0, <1>7, <1>9, <1>10 DEF DedupInv

LEMMA DedupStep == DedupInv /\ [Next]_vars => DedupInv'
<1> SUFFICES ASSUME DedupInv, [Next]_vars PROVE DedupInv'
  OBVIOUS
<1>0. StoreInv' /\ fate \in Seq(Fates)
  BY StoreStep DEF DedupInv
<1> DEFINE Kept == /\ copies' = copies
                   /\ dedup' = dedup \/ dedup' = <<>>
                   /\ fate' \in Seq(Fates) /\ Len(fate') = Len(fate)
                   /\ \A n \in DOMAIN fate :
                         fate'[n] = "suppressed" => fate[n] = "suppressed"
<1>1. Kept => DedupInv'
  BY <1>0, DedupKeeps
<1>2. ASSUME NEW S, NEW e \in {"written", "logged", "lost"}, Settle(S, e)
      PROVE  /\ fate' \in Seq(Fates) /\ Len(fate') = Len(fate)
             /\ \A n \in DOMAIN fate : fate'[n] = "suppressed" => fate[n] = "suppressed"
  <2>1. \A n \in DOMAIN fate : fate[n] \in Fates
    BY <1>0
  <2>2. e \in Fates /\ e # "suppressed"
    BY DEF Fates
  <2> DEFINE g == [n \in DOMAIN fate |-> IF n \in S THEN e ELSE fate[n]]
  <2>3. DOMAIN g = 1 .. Len(fate) /\ \A n \in 1 .. Len(fate) : g[n] \in Fates
    BY <1>0, <2>1, <2>2
  <2>4. g \in Seq(Fates) /\ Len(g) = Len(fate)
    BY <1>0, <2>3
  <2>5. fate' = g
    BY <1>2 DEF Settle
  <2> QED
    BY <2>2, <2>4, <2>5
<1>3. UNCHANGED fate =>
        /\ fate' \in Seq(Fates) /\ Len(fate') = Len(fate)
        /\ \A n \in DOMAIN fate : fate'[n] = "suppressed" => fate[n] = "suppressed"
  BY <1>0
<1>4. Die =>
        /\ fate' \in Seq(Fates) /\ Len(fate') = Len(fate) /\ dedup' = <<>>
        /\ \A n \in DOMAIN fate : fate'[n] = "suppressed" => fate[n] = "suppressed"
  <2> DEFINE S == {n \in DOMAIN fate : fate[n] = "queued"}
  <2>1. Die => Settle(S, "lost") /\ dedup' = <<>>
    <3> SUFFICES ASSUME Die PROVE Settle(S, "lost") /\ dedup' = <<>>
      OBVIOUS
    <3>1. [n \in DOMAIN fate |-> IF n \in S THEN "lost" ELSE fate[n]]
          = [n \in DOMAIN fate |-> IF fate[n] = "queued" THEN "lost" ELSE fate[n]]
      OBVIOUS
    <3> QED
      BY <3>1 DEF Die, Settle
  <2> HIDE DEF S
  <2> QED
    BY <1>2, <2>1
<1>5. CASE Deliver
  BY <1>5, DedupDeliver
<1>6. CASE Tick \/ TimerFires \/ Shutdown \/ Restart \/ UNCHANGED vars
  BY <1>1, <1>3, <1>6 DEF Tick, TimerFires, Shutdown, Restart, vars, flushVars
<1>7. CASE FlushStep
  <2>1. CASE Connect \/ ApplyItem \/ BatchFails \/ CommitFails \/ RetriesDone
    BY <1>1, <1>3, <2>1 DEF Connect, ApplyItem, BatchFails, CommitFails, RetriesDone
  <2>2. CASE ConnectFails
    BY <1>1, <1>2, <1>4, <2>2 DEF ConnectFails
  <2>3. CASE Commit \/ RetryItem \/ RetryFails
    BY <1>1, <1>2, <2>3 DEF Commit, RetryItem, RetryFails
  <2> QED
    BY <1>7, <2>1, <2>2, <2>3 DEF FlushStep
<1>8. CASE drain
  BY <1>1, <1>3, <1>4, <1>8 DEF drain
<1>9. CASE Kill
  BY <1>1, <1>4, <1>9 DEF Kill
<1> QED
  BY <1>5, <1>6, <1>7, <1>8, <1>9 DEF Next

\* A copy is dropped by the dedup cache only when an earlier copy of the same
\* reception, of at least its fidelity, was handed to the batch (dedup.ts:50):
\* ranks, expiry and eviction never make a worse copy displace a better one.
THEOREM IngestSuppressedIsCovered == Spec => []SuppressedIsCovered
<1>1. Init => DedupInv
  <2> SUFFICES ASSUME Init PROVE DedupInv
    OBVIOUS
  <2> QED
    BY StoreInit DEF Init, DedupInv, SuppressedIsCovered
<1>2. DedupInv => SuppressedIsCovered
  BY DEF DedupInv
<1> QED
  BY <1>1, <1>2, DedupStep, PTL DEF Spec

-----------------------------------------------------------------------------
(* What applyEnvelope keeps of a store.                                      *)

\* The columns of the packets rows, and the receptions point at one of them.
Rows(d) ==
    /\ IsFiniteSet(DOMAIN d.pkt) /\ IsFiniteSet(DOMAIN d.rx)
    /\ \A k \in DOMAIN d.pkt : d.pkt[k] \in Row
    /\ \A r \in DOMAIN d.rx : r[1] \in DOMAIN d.pkt /\ d.rx[r] \in {"mqtt", "rf"}
    /\ d.folds \in [Mid -> Nat]

\* What is parsed of a JSON copy depends on its packet alone.
Parsed(c) == c.via = "json" => (c.parsed <=> c.mid \notin Traced)

\* The gateway's reception of the copy is there, as RF if it came over RF.
Stored(d, c) ==
    \E r \in DOMAIN d.rx :
        r[1][1] = c.mid /\ r[2] = c.gw /\ (c.via = "rf" => d.rx[r] = "rf")

\* No reception of d is missing or worse in e.
Keeps(d, e) ==
    \A r \in DOMAIN d.rx : r \in DOMAIN e.rx /\ (d.rx[r] = "rf" => e.rx[r] = "rf")

LEMMA OneMore ==
    ASSUME NEW S, IsFiniteSet(S), NEW x
    PROVE  /\ IsFiniteSet(S \union {x}) /\ Cardinality(S) \in Nat
           /\ Cardinality(S \union {x}) = Cardinality(S) + One(x \notin S)
<1>1. IsFiniteSet(S \union {x}) /\ Cardinality(S) \in Nat
  BY FS_AddElement, FS_CardinalityType
<1>2. CASE x \in S
  <2>1. S \union {x} = S
    BY <1>2
  <2> QED
    BY <1>1, <1>2, <2>1 DEF One
<1>3. CASE x \notin S
  BY <1>1, <1>3, FS_AddElement DEF One
<1> QED
  BY <1>1, <1>2, <1>3

LEMMA SomeOf ==
    ASSUME NEW S, IsFiniteSet(S), NEW T, T \subseteq S
    PROVE  IsFiniteSet(T) /\ Cardinality(T) \in Nat
  BY FS_Subset, FS_CardinalityType

\* A copy that is no new reception belongs to a row that is there.
LEMMA NotFirst ==
    ASSUME NEW d, Rows(d), NEW c \in Envelope, NEW t \in Int,
           PacketKey(d, c, t) \notin DOMAIN d.pkt
    PROVE  NewReception(d, c, t)
<1> DEFINE k == PacketKey(d, c, t)
<1>1. \A r \in DOMAIN d.rx : r[1] # k
  BY DEF Rows
<1>2. ~Upgrades(d, c, t)
  BY <1>1 DEF Upgrades, Upgradable
<1>3. ReceptionKey(d, c, t)[1] = k
  BY DEF ReceptionKey
<1> QED
  BY <1>1, <1>2, <1>3 DEF NewReception

\* The row a copy leaves behind.
After(d, c, t) ==
    LET k == PacketKey(d, c, t)
    IN  ClaimSide([Upsert(d.pkt, k, c) EXCEPT !.count = @ + One(NewReception(d, c, t))], c)

\* The store e after the copy, and its receptions, with the keys k and rk.
Applies(d, c, t, e, k) ==
    /\ DOMAIN e.pkt = DOMAIN d.pkt \union {k}
    /\ e.pkt[k] = After(d, c, t)
    /\ \A j \in DOMAIN d.pkt : j # k => e.pkt[j] = d.pkt[j]
    /\ e.rx = Received(d, c, t)
    /\ e.folds = [d.folds EXCEPT ![c.mid] =
         @ + One(NewReception(d, c, t) /\ k \notin DOMAIN d.pkt
                   /\ c.parsed /\ c.mid \in Traced)]
    /\ e.packets = d.packets + One(NewReception(d, c, t) /\ k \notin DOMAIN d.pkt)
    /\ e.heard = d.heard + One(NewReception(d, c, t))

Receives(d, c, t, rx, rk) ==
    /\ NewReception(d, c, t) =>
         /\ DOMAIN rx = DOMAIN d.rx \union {rk} /\ rk \notin DOMAIN d.rx
         /\ rx[rk] = Transport(c)
         /\ \A r \in DOMAIN d.rx : rx[r] = d.rx[r]
    /\ ~NewReception(d, c, t) => DOMAIN rx = DOMAIN d.rx
    /\ ~NewReception(d, c, t) /\ ~Upgrades(d, c, t) => rx = d.rx
    /\ Upgrades(d, c, t) =>
         \A r \in DOMAIN d.rx :
            rx[r] = IF r \in Upgradable(d, PacketKey(d, c, t), c) THEN "rf" ELSE d.rx[r]

LEMMA Applied ==
    ASSUME NEW d, NEW c, NEW t
    PROVE  /\ Applies(d, c, t, applyEnvelope(d, c, t), PacketKey(d, c, t))
           /\ Receives(d, c, t, Received(d, c, t), ReceptionKey(d, c, t))
<1>1. Applies(d, c, t, applyEnvelope(d, c, t), PacketKey(d, c, t))
  BY DEF Applies, applyEnvelope, With, After
<1>2. Receives(d, c, t, Received(d, c, t), ReceptionKey(d, c, t))
  BY DEF Receives, Received, NewReception, With
<1> QED
  BY <1>1, <1>2

\* What the copy finds of its row.
Found(d, k) == IF k \in DOMAIN d.pkt THEN d.pkt[k] ELSE NewRow

LEMMA AfterRow ==
    ASSUME NEW d, Rows(d), NEW c \in Envelope, NEW t \in Int
    PROVE  LET k == PacketKey(d, c, t)
               old == Found(d, k)
               row == After(d, c, t)
           IN  /\ old \in Row /\ row \in Row
               /\ row.count = old.count + One(NewReception(d, c, t))
               /\ row.decoded = (old.decoded \/ Decoded(c))
               /\ row.claimed = (old.claimed \/ c.parsed)
               /\ row.writes = old.writes + One(c.parsed /\ ~old.claimed)
<1> DEFINE k == PacketKey(d, c, t)
           old == Found(d, k)
           n == One(NewReception(d, c, t))
           up == [Upsert(d.pkt, k, c) EXCEPT !.count = @ + n]
<1>1. old \in Row
  BY DEF Rows, Row, NewRow, Found
<1>2. n \in Nat
  BY DEF One
<1>3. c.parsed \in BOOLEAN /\ c.named \in BOOLEAN /\ Decoded(c) \in BOOLEAN
  BY DEF Envelope, Decoded
<1>4. Upsert(d.pkt, k, c) = [old EXCEPT !.decoded = @ \/ Decoded(c),
                    !.named = @ \/ c.named,
                    !.textNamed = @ \/ (c.named /\ old.writes > 0)]
  BY DEF Upsert, Found
<1> HIDE DEF old, n, k
<1>5. PICK o \in Row : o = old
  BY <1>1
<1>6. up = [decoded |-> o.decoded \/ Decoded(c), named |-> o.named \/ c.named,
            claimed |-> o.claimed, count |-> o.count + n, writes |-> o.writes,
            textNamed |-> o.textNamed \/ (c.named /\ o.writes > 0)]
  <2>1. o = [decoded |-> o.decoded, named |-> o.named, claimed |-> o.claimed,
             count |-> o.count, writes |-> o.writes, textNamed |-> o.textNamed]
    BY DEF Row
  <2>2. Upsert(d.pkt, k, c) =
            [decoded |-> o.decoded \/ Decoded(c), named |-> o.named \/ c.named,
             claimed |-> o.claimed, count |-> o.count, writes |-> o.writes,
             textNamed |-> o.textNamed \/ (c.named /\ o.writes > 0)]
    <3>1. Upsert(d.pkt, k, c) = [o EXCEPT !.decoded = @ \/ Decoded(c),
                    !.named = @ \/ c.named,
                    !.textNamed = @ \/ (c.named /\ o.writes > 0)]
      BY <1>4, <1>5
    <3> QED
      BY <2>1, <3>1
  <2>3. up = [Upsert(d.pkt, k, c) EXCEPT !.count = @ + n]
    OBVIOUS
  <2> QED
    BY <2>2, <2>3
<1>7. After(d, c, t) = ClaimSide(up, c)
  BY DEF After, n, k
<1> HIDE DEF up
<1>8. /\ o.count \in Nat /\ o.writes \in Nat /\ o.decoded \in BOOLEAN /\ o.named \in BOOLEAN
      /\ o.claimed \in BOOLEAN /\ o.textNamed \in BOOLEAN
  BY DEF Row
<1>9. CASE c.parsed /\ ~o.claimed
  <2>1. After(d, c, t) = [decoded |-> o.decoded \/ Decoded(c), named |-> o.named \/ c.named,
            claimed |-> TRUE, count |-> o.count + n, writes |-> o.writes + 1,
            textNamed |-> c.named]
    BY <1>6, <1>7, <1>9 DEF ClaimSide
  <2>2. After(d, c, t) \in Row
    BY <1>2, <1>3, <1>8, <2>1 DEF Row
  <2>3. /\ After(d, c, t).count = o.count + n /\ After(d, c, t).writes = o.writes + 1
        /\ After(d, c, t).decoded = (o.decoded \/ Decoded(c)) /\ After(d, c, t).claimed = TRUE
    BY <2>1
  <2> QED
    BY <1>1, <1>3, <1>5, <1>8, <1>9, <2>2, <2>3 DEF old, n, k, One
<1>10. CASE ~(c.parsed /\ ~o.claimed)
  <2>1. After(d, c, t) = up
    BY <1>6, <1>7, <1>10 DEF ClaimSide
  <2>2. After(d, c, t) \in Row
    BY <1>2, <1>3, <1>6, <1>8, <2>1 DEF Row
  <2> QED
    BY <1>1, <1>3, <1>5, <1>6, <1>8, <1>10, <2>1, <2>2 DEF old, n, k, One
<1> QED
  BY <1>9, <1>10

LEMMA ApplyRows ==
    ASSUME NEW d, Rows(d), NEW c \in Envelope, NEW t \in Int
    PROVE  Rows(applyEnvelope(d, c, t)) /\ Keeps(d, applyEnvelope(d, c, t))
<1> PICK e, k, rk, new : /\ e = applyEnvelope(d, c, t) /\ k = PacketKey(d, c, t)
                         /\ rk = ReceptionKey(d, c, t) /\ new = NewReception(d, c, t)
  OBVIOUS
<1>a. Applies(d, c, t, e, k) /\ Receives(d, c, t, e.rx, rk)
  <2>1. Applies(d, c, t, e, k)
    BY Applied
  <2>2. e.rx = Received(d, c, t)
    BY <2>1 DEF Applies
  <2> QED
    BY <2>1, <2>2, Applied
<1>0. c.mid \in Mid /\ rk[1] = k /\ Transport(c) \in {"mqtt", "rf"}
  BY DEF Envelope, ReceptionKey, Transport
<1>1. /\ DOMAIN e.pkt = DOMAIN d.pkt \union {k} /\ e.pkt[k] = After(d, c, t)
      /\ \A j \in DOMAIN d.pkt : j # k => e.pkt[j] = d.pkt[j]
      /\ e.rx = Received(d, c, t)
  BY <1>a DEF Applies
<1>2. e.folds \in [Mid -> Nat]
  <2>1. \E n \in Nat : e.folds = [d.folds EXCEPT ![c.mid] = @ + n]
    BY <1>a DEF Applies, One
  <2> QED
    BY <1>0, <2>1 DEF Rows
<1>3. IsFiniteSet(DOMAIN e.pkt) /\ \A j \in DOMAIN e.pkt : e.pkt[j] \in Row
  <2>1. IsFiniteSet(DOMAIN e.pkt)
    BY <1>1, OneMore DEF Rows
  <2>2. After(d, c, t) \in Row
    BY AfterRow
  <2> QED
    BY <1>1, <2>1, <2>2 DEF Rows
<1>4. CASE NewReception(d, c, t)
  <2>1. /\ DOMAIN e.rx = DOMAIN d.rx \union {rk} /\ e.rx[rk] = Transport(c)
        /\ rk \notin DOMAIN d.rx /\ \A r \in DOMAIN d.rx : e.rx[r] = d.rx[r]
    BY <1>a, <1>1, <1>4 DEF Receives
  <2>2. IsFiniteSet(DOMAIN e.rx)
    BY <2>1, OneMore DEF Rows
  <2> QED
    BY <1>0, <1>1, <1>2, <1>3, <2>1, <2>2 DEF Rows, Keeps
<1>5. CASE ~NewReception(d, c, t)
  <2>1. DOMAIN e.rx = DOMAIN d.rx
    BY <1>a, <1>1, <1>5 DEF Receives
  <2>2. \A r \in DOMAIN d.rx : e.rx[r] = d.rx[r] \/ e.rx[r] = "rf"
    BY <1>a, <1>1, <1>5 DEF Receives
  <2> QED
    BY <1>1, <1>2, <1>3, <2>1, <2>2 DEF Rows, Keeps
<1> QED
  BY <1>4, <1>5

LEMMA ApplyCounts ==
    ASSUME NEW d, Rows(d), CountersExact(d), NEW c \in Envelope, NEW t \in Int
    PROVE  CountersExact(applyEnvelope(d, c, t))
<1> PICK e, k, rk, new : /\ e = applyEnvelope(d, c, t) /\ k = PacketKey(d, c, t)
                         /\ rk = ReceptionKey(d, c, t) /\ new = NewReception(d, c, t)
  OBVIOUS
<1>a. Applies(d, c, t, e, k) /\ Receives(d, c, t, e.rx, rk)
  <2>1. Applies(d, c, t, e, k)
    BY Applied
  <2>2. e.rx = Received(d, c, t)
    BY <2>1 DEF Applies
  <2> QED
    BY <2>1, <2>2, Applied
<1> DEFINE Of(rx, j) == {r \in DOMAIN rx : r[1] = j}
           With1(pkt, m) == {j \in DOMAIN pkt : j[1] = m}
<1>0. c.mid \in Mid /\ rk[1] = k /\ k[1] = c.mid
  BY DEF Envelope, ReceptionKey, PacketKey
<1>1. /\ DOMAIN e.pkt = DOMAIN d.pkt \union {k} /\ e.pkt[k] = After(d, c, t)
      /\ \A j \in DOMAIN d.pkt : j # k => e.pkt[j] = d.pkt[j]
      /\ e.rx = Received(d, c, t)
      /\ e.folds = [d.folds EXCEPT ![c.mid] =
           @ + One(new /\ k \notin DOMAIN d.pkt /\ c.parsed /\ c.mid \in Traced)]
      /\ e.packets = d.packets + One(new /\ k \notin DOMAIN d.pkt)
      /\ e.heard = d.heard + One(new)
  BY <1>a DEF Applies
<1>2. k \notin DOMAIN d.pkt => new
  BY NotFirst
<1>3. /\ new => DOMAIN e.rx = DOMAIN d.rx \union {rk} /\ rk \notin DOMAIN d.rx
      /\ ~new => DOMAIN e.rx = DOMAIN d.rx
  BY <1>a, <1>1 DEF Receives
<1>4. e.pkt[k].count = Found(d, k).count + One(new) /\ Found(d, k) \in Row
  BY <1>1, AfterRow
<1>5. e.packets = Cardinality(DOMAIN e.pkt)
  <2>1. One(new /\ k \notin DOMAIN d.pkt) = One(k \notin DOMAIN d.pkt)
    BY <1>2 DEF One
  <2>2. Cardinality(DOMAIN d.pkt \union {k}) = Cardinality(DOMAIN d.pkt) + One(k \notin DOMAIN d.pkt)
    BY OneMore DEF Rows
  <2>3. d.packets = Cardinality(DOMAIN d.pkt)
    BY DEF CountersExact
  <2> QED
    BY <1>1, <2>1, <2>2, <2>3
<1>6. e.heard = Cardinality(DOMAIN e.rx)
  <2>1. CASE new
    BY <1>1, <1>3, <2>1, OneMore DEF Rows, CountersExact, One
  <2>2. CASE ~new
    <3>1. d.heard \in Nat
      BY OneMore DEF Rows, CountersExact
    <3> QED
      BY <1>1, <1>3, <2>2, <3>1 DEF CountersExact, One
  <2> QED
    BY <2>1, <2>2
<1>7. ASSUME NEW j \in DOMAIN e.pkt PROVE e.pkt[j].count = Cardinality(Of(e.rx, j))
  <2>0. IsFiniteSet(Of(d.rx, j)) /\ Cardinality(Of(d.rx, j)) \in Nat
    BY SomeOf DEF Rows
  <2>1. CASE j # k
    <3>1. Of(e.rx, j) = Of(d.rx, j)
      BY <1>0, <1>3, <2>1
    <3>2. j \in DOMAIN d.pkt /\ e.pkt[j] = d.pkt[j]
      BY <1>1, <2>1
    <3> QED
      BY <3>1, <3>2 DEF CountersExact
  <2>2. CASE j = k
    <3>1. Found(d, k).count = Cardinality(Of(d.rx, k))
      <4>1. CASE k \in DOMAIN d.pkt
        BY <4>1 DEF Found, CountersExact
      <4>2. CASE k \notin DOMAIN d.pkt
        <5>1. Of(d.rx, k) = {}
          BY <4>2 DEF Rows
        <5> QED
          BY <4>2, <5>1, FS_EmptySet DEF Found, NewRow
      <4> QED
        BY <4>1, <4>2
    <3>2. CASE new
      <4>1. Of(e.rx, k) = Of(d.rx, k) \union {rk} /\ rk \notin Of(d.rx, k)
        BY <1>0, <1>3, <3>2
      <4>2. Cardinality(Of(e.rx, k)) = Cardinality(Of(d.rx, k)) + 1
        BY <2>0, <2>2, <4>1, OneMore DEF One
      <4> QED
        BY <1>4, <2>2, <3>1, <3>2, <4>2 DEF One
    <3>3. CASE ~new
      <4>1. Of(e.rx, k) = Of(d.rx, k)
        BY <1>3, <3>3
      <4>2. One(new) = 0
        BY <3>3 DEF One
      <4>3. Found(d, k).count \in Nat
        BY <2>0, <2>2, <3>1
      <4>4. e.pkt[k].count = Found(d, k).count
        BY <1>4, <4>2, <4>3
      <4>5. e.pkt[k].count = Cardinality(Of(e.rx, k))
        BY <3>1, <4>1, <4>4, Zenon
      <4> QED
        BY <2>2, <4>5, Zenon
    <3> QED
      BY <3>2, <3>3
  <2> QED
    BY <2>1, <2>2
<1>8. ASSUME NEW m \in Mid PROVE e.folds[m] <= Cardinality(With1(e.pkt, m))
  <2>0. /\ IsFiniteSet(With1(d.pkt, m)) /\ Cardinality(With1(d.pkt, m)) \in Nat
        /\ d.folds[m] <= Cardinality(With1(d.pkt, m)) /\ d.folds[m] \in Nat
    BY SomeOf DEF Rows, CountersExact
  <2>1. CASE k \notin DOMAIN d.pkt /\ m = c.mid
    <3>1. With1(e.pkt, m) = With1(d.pkt, m) \union {k} /\ k \notin With1(d.pkt, m)
      BY <1>0, <1>1, <2>1
    <3>2. Cardinality(With1(e.pkt, m)) = Cardinality(With1(d.pkt, m)) + 1
      BY <2>0, <3>1, OneMore DEF One
    <3>3. PICK n \in {0, 1} : e.folds = [d.folds EXCEPT ![c.mid] = @ + n]
      BY <1>1 DEF One
    <3>4. e.folds[m] = d.folds[m] + n
      BY <1>0, <2>1, <3>3 DEF Rows
    <3> QED
      BY <2>0, <3>2, <3>4
  <2>2. CASE k \in DOMAIN d.pkt \/ m # c.mid
    <3>1. With1(e.pkt, m) = With1(d.pkt, m)
      BY <1>0, <1>1, <2>2
    <3>2. e.folds[m] = d.folds[m]
      <4>1. CASE m # c.mid
        BY <1>0, <1>1, <4>1 DEF Rows
      <4>2. CASE k \in DOMAIN d.pkt
        <5>1. e.folds = [d.folds EXCEPT ![c.mid] = @ + 0]
          BY <1>1, <4>2 DEF One
        <5> QED
          BY <1>0, <5>1 DEF Rows
      <4> QED
        BY <2>2, <4>1, <4>2
    <3> QED
      BY <2>0, <3>1, <3>2
  <2> QED
    BY <2>1, <2>2
<1> QED
  BY <1>5, <1>6, <1>7, <1>8 DEF CountersExact

LEMMA ApplySide ==
    ASSUME NEW d, Rows(d), SideTablesOnce(d), NEW c \in Envelope, Parsed(c), NEW t \in Int
    PROVE  SideTablesOnce(applyEnvelope(d, c, t))
<1> PICK e, k, rk, new : /\ e = applyEnvelope(d, c, t) /\ k = PacketKey(d, c, t)
                         /\ rk = ReceptionKey(d, c, t) /\ new = NewReception(d, c, t)
  OBVIOUS
<1>a. Applies(d, c, t, e, k) /\ Receives(d, c, t, e.rx, rk)
  <2>1. Applies(d, c, t, e, k)
    BY Applied
  <2>2. e.rx = Received(d, c, t)
    BY <2>1 DEF Applies
  <2> QED
    BY <2>1, <2>2, Applied
<1>1. /\ DOMAIN e.pkt = DOMAIN d.pkt \union {k} /\ e.pkt[k] = After(d, c, t)
      /\ \A j \in DOMAIN d.pkt : j # k => e.pkt[j] = d.pkt[j]
  BY <1>a DEF Applies
<1>2. /\ Found(d, k) \in Row /\ e.pkt[k] \in Row
      /\ e.pkt[k].decoded = (Found(d, k).decoded \/ Decoded(c))
      /\ e.pkt[k].claimed = (Found(d, k).claimed \/ c.parsed)
      /\ e.pkt[k].writes = Found(d, k).writes + One(c.parsed /\ ~Found(d, k).claimed)
  BY <1>1, AfterRow
<1>3. /\ Found(d, k).writes = One(Found(d, k).claimed)
      /\ (Found(d, k).decoded /\ k[1] \notin Traced) => Found(d, k).claimed
  BY DEF SideTablesOnce, Found, NewRow, One
<1>4. k[1] = c.mid /\ (Decoded(c) /\ k[1] \notin Traced => c.parsed)
  BY DEF PacketKey, Parsed, Decoded
<1>5. c.parsed \in BOOLEAN /\ Found(d, k).claimed \in BOOLEAN /\ Found(d, k).decoded \in BOOLEAN
  BY <1>2 DEF Envelope, Row
<1>6. e.pkt[k].writes = One(e.pkt[k].claimed)
  BY <1>2, <1>3, <1>5 DEF One
<1>7. (e.pkt[k].decoded /\ k[1] \notin Traced) => e.pkt[k].claimed
  BY <1>2, <1>3, <1>4, <1>5
<1> QED
  BY <1>1, <1>6, <1>7 DEF SideTablesOnce

\* A copy that was applied is stored.
LEMMA ApplyStores ==
    ASSUME NEW d, Rows(d), NEW c \in Envelope, NEW t \in Int
    PROVE  Stored(applyEnvelope(d, c, t), c)
<1> PICK e, k, rk, new : /\ e = applyEnvelope(d, c, t) /\ k = PacketKey(d, c, t)
                         /\ rk = ReceptionKey(d, c, t) /\ new = NewReception(d, c, t)
  OBVIOUS
<1>a. Applies(d, c, t, e, k) /\ Receives(d, c, t, e.rx, rk)
  <2>1. Applies(d, c, t, e, k)
    BY Applied
  <2>2. e.rx = Received(d, c, t)
    BY <2>1 DEF Applies
  <2> QED
    BY <2>1, <2>2, Applied
<1>0. /\ rk[1] = k /\ rk[2] = c.gw /\ k[1] = c.mid /\ e.rx = Received(d, c, t)
      /\ c.via = "rf" => Transport(c) = "rf"
  BY <1>a DEF Applies, ReceptionKey, PacketKey, Transport
<1>1. CASE NewReception(d, c, t)
  <2>1. rk \in DOMAIN e.rx /\ e.rx[rk] = Transport(c)
    BY <1>a, <1>0, <1>1 DEF Receives
  <2> QED
    BY <1>0, <2>1 DEF Stored
<1>2. CASE Upgrades(d, c, t)
  <2>1. PICK r \in DOMAIN d.rx : r[1] = k /\ r[2] = c.gw /\ r \in Upgradable(d, k, c)
    BY <1>2 DEF Upgrades, Upgradable
  <2>2. DOMAIN e.rx = DOMAIN d.rx /\ e.rx[r] = "rf"
    BY <1>a, <1>0, <1>2, <2>1 DEF Receives, NewReception
  <2> QED
    BY <1>0, <2>1, <2>2 DEF Stored
<1>3. CASE ~NewReception(d, c, t) /\ ~Upgrades(d, c, t)
  <2>1. rk \in DOMAIN d.rx /\ e.rx = d.rx
    BY <1>a, <1>0, <1>3 DEF Receives, NewReception
  <2>2. c.via = "rf" => d.rx[rk] = "rf"
    BY <1>0, <1>3, <2>1 DEF Upgrades, Upgradable, Rows
  <2> QED
    BY <1>0, <2>1, <2>2 DEF Stored
<1> QED
  BY <1>1, <1>2, <1>3

LEMMA KeepsStored ==
    ASSUME NEW d, NEW e, Keeps(d, e), NEW c, Stored(d, c) PROVE Stored(e, c)
  BY DEF Keeps, Stored

-----------------------------------------------------------------------------
(* The gateways' stamps: a reception is found again, and copies of one       *)
(* transmission find the row that the first of them made.                    *)

\* A stamp of a clock that works.
Good(x) == Plausible <= x /\ x <= MaxTime

\* What the gateways hd may have stamped by the time t: working clocks agree.
Stamped(hd, t) ==
    /\ hd \in [Mid -> [Gateway -> Int]]
    /\ t \in Int /\ Plausible <= t /\ t <= MaxTime
    /\ \A m \in Mid : \A g \in Gateway :
         \/ hd[m][g] \in {Unheard, 0, Future}
         \/ Plausible <= hd[m][g] /\ hd[m][g] <= t
    /\ \A m \in Mid : \A g, h \in Gateway :
         Good(hd[m][g]) /\ Good(hd[m][h]) => hd[m][g] - hd[m][h] <= Spread

\* A row's rx_time is the gateway's stamp, or the packet's when that is no good.
RxTrue(d, hd) ==
    \A r \in DOMAIN d.rx :
        /\ r = <<r[1], r[2], r[3]>> /\ r[2] \in Gateway
        /\ hd[r[1][1]][r[2]] # Unheard
        /\ r[3] = IF Good(hd[r[1][1]][r[2]]) THEN hd[r[1][1]][r[2]] ELSE r[1][2]

\* One row for a transmission heard by working clocks only, at the start of the
\* bucket of one of the stamps.
Heard(hd, m) == \A g \in Gateway : hd[m][g] = Unheard \/ Good(hd[m][g])
OneRow(d, hd) ==
    \A m \in Mid \ {NoId} : Heard(hd, m) =>
        \A j \in DOMAIN d.pkt : j[1] = m =>
            /\ \E g \in Gateway : Good(hd[m][g]) /\ j[2] = BucketStart(hd[m][g])
            /\ \A i \in DOMAIN d.pkt : i[1] = m => i = j

LEMMA TimesAreInt ==
    /\ Plausible \in Nat /\ Plausible > 0 /\ MaxTime \in Nat /\ Skew \in Nat
    /\ Window \in Nat /\ Window > 0 /\ Spread \in Nat
    /\ Unheard \in Int /\ Unheard < Plausible /\ Unheard < 0
    /\ Future \in Int /\ Future = MaxTime + Skew + 1 /\ Future > MaxTime
  BY PacketStoreAssumption, IngestAssumption DEF Unheard, Future

LEMMA GoodStamps ==
    ASSUME NEW hd, NEW t, Stamped(hd, t), NEW m \in Mid, NEW g \in Gateway
    PROVE  /\ hd[m][g] \in Int
           /\ ClockOk(hd[m][g], t) <=> Good(hd[m][g])
           /\ hd[m][g] \in Plausible .. t <=> Good(hd[m][g])
           /\ Good(hd[m][g]) => hd[m][g] # Unheard
<1>1. hd[m][g] \in Int /\ t \in Int /\ Plausible <= t /\ t <= MaxTime
  BY DEF Stamped
<1>2. \/ hd[m][g] \in {Unheard, 0, Future}
      \/ Plausible <= hd[m][g] /\ hd[m][g] <= t
  BY DEF Stamped
<1> QED
  BY <1>1, <1>2, TimesAreInt DEF ClockOk, Good

LEMMA ReceptionsApart ==
    ASSUME NEW d, NEW hd, RxTrue(d, hd) PROVE ReceptionOnce(d)
  BY DEF RxTrue, ReceptionOnce

LEMMA ApplyTrue ==
    ASSUME NEW d, StoreOK(d), Rows(d), NEW hd, NEW t, Stamped(hd, t), RxTrue(d, hd),
           NEW c \in Envelope, c.rx = hd[c.mid][c.gw], c.rx # Unheard
    PROVE  RxTrue(applyEnvelope(d, c, t), hd)
<1> PICK e, k, rk : /\ e = applyEnvelope(d, c, t) /\ k = PacketKey(d, c, t)
                    /\ rk = ReceptionKey(d, c, t)
  OBVIOUS
<1>1. Applies(d, c, t, e, k) /\ Receives(d, c, t, e.rx, rk)
  <2>1. Applies(d, c, t, e, k)
    BY Applied
  <2>2. e.rx = Received(d, c, t)
    BY <2>1 DEF Applies
  <2> QED
    BY <2>1, <2>2, Applied
<1>2. c.mid \in Mid /\ c.gw \in Gateway
  BY DEF Envelope
<1>3. k[1] = c.mid /\ rk = <<k, c.gw, IF Good(c.rx) THEN c.rx ELSE k[2]>>
  <2>1. ClockOk(c.rx, t) <=> Good(c.rx)
    BY <1>2, GoodStamps
  <2> QED
    BY <2>1 DEF PacketKey, ReceptionKey
<1>4. DOMAIN e.rx \subseteq DOMAIN d.rx \union {rk}
  BY <1>1 DEF Receives
<1>5. ASSUME NEW r \in DOMAIN e.rx
      PROVE  /\ r = <<r[1], r[2], r[3]>> /\ r[2] \in Gateway
             /\ hd[r[1][1]][r[2]] # Unheard
             /\ r[3] = IF Good(hd[r[1][1]][r[2]]) THEN hd[r[1][1]][r[2]] ELSE r[1][2]
  <2>1. CASE r = rk
    <3>1. r[1] = k /\ r[2] = c.gw /\ r[3] = IF Good(c.rx) THEN c.rx ELSE k[2]
      BY <1>3, <2>1
    <3> QED
      BY <1>2, <1>3, <2>1, <3>1
  <2>2. CASE r \in DOMAIN d.rx
    BY <2>2 DEF RxTrue
  <2> QED
    BY <1>4, <2>1, <2>2
<1> QED
  BY <1>5 DEF RxTrue

\* Stamps at most a window apart lie within the lookup range around each other's
\* bucket starts.
LEMMA ApplyOneRow ==
    ASSUME NEW d, StoreOK(d), NEW hd, NEW t, Stamped(hd, t), OneRow(d, hd), Spread <= Window,
           NEW c \in Envelope, c.rx = hd[c.mid][c.gw], c.rx # Unheard
    PROVE  OneRow(applyEnvelope(d, c, t), hd)
<1> PICK e, k : e = applyEnvelope(d, c, t) /\ k = PacketKey(d, c, t)
  OBVIOUS
<1>1. DOMAIN e.pkt = DOMAIN d.pkt \union {k}
  <2>1. Applies(d, c, t, e, k)
    BY Applied
  <2> QED
    BY <2>1 DEF Applies
<1>2. c.mid \in Mid /\ c.gw \in Gateway /\ k = <<c.mid, FirstSeen(d, c.mid, RxTime(c, t))>>
  BY DEF Envelope, PacketKey
<1>3. ASSUME c.mid # NoId, Heard(hd, c.mid)
      PROVE  \A j \in DOMAIN e.pkt : j[1] = c.mid =>
               /\ \E g \in Gateway : Good(hd[c.mid][g]) /\ j[2] = BucketStart(hd[c.mid][g])
               /\ \A i \in DOMAIN e.pkt : i[1] = c.mid => i = j
  <2>1. Good(c.rx) /\ c.rx \in Int /\ RxTime(c, t) = c.rx
    <3>1. Good(c.rx) /\ c.rx \in Int
      BY <1>2, <1>3, GoodStamps DEF Heard
    <3>2. ClockOk(c.rx, t)
      BY <1>2, <3>1, GoodStamps
    <3> QED
      BY <3>1, <3>2 DEF RxTime
  <2>2. \A j \in DOMAIN d.pkt : j[1] = c.mid =>
          /\ \E g \in Gateway : Good(hd[c.mid][g]) /\ j[2] = BucketStart(hd[c.mid][g])
          /\ \A i \in DOMAIN d.pkt : i[1] = c.mid => i = j
    BY <1>2, <1>3 DEF OneRow
  <2>3. CASE \E j \in DOMAIN d.pkt : j[1] = c.mid
    <3>1. PICK j \in DOMAIN d.pkt : j[1] = c.mid
      BY <2>3
    <3>2. PICK g \in Gateway : Good(hd[c.mid][g]) /\ j[2] = BucketStart(hd[c.mid][g])
      BY <2>2, <3>1
    <3>3. /\ hd[c.mid][g] - c.rx <= Spread /\ c.rx - hd[c.mid][g] <= Spread
          /\ hd[c.mid][g] \in Int
      BY <1>2, <2>1, <3>2, GoodStamps DEF Stamped
    <3>4. /\ j[2] \in Int /\ j[2] <= hd[c.mid][g] /\ hd[c.mid][g] < j[2] + Window
      BY <3>2, <3>3, BucketFacts
    <3>5. j[2] \in dedupLookupRange(c.rx)
      BY <2>1, <3>3, <3>4, TimesAreInt DEF dedupLookupRange
    <3>6. j = <<c.mid, j[2]>>
      BY <3>1 DEF StoreOK, Keyed
    <3>7. Matches(d, c.mid, c.rx) # {}
      BY <3>5, <3>6 DEF Matches
    <3>8. Latest(Matches(d, c.mid, c.rx)) \in Matches(d, c.mid, c.rx)
      BY <1>2, <1>3, <2>1, <3>7, LatestExists
    <3>9. k \in DOMAIN d.pkt
      BY <1>2, <1>3, <2>1, <3>7, <3>8 DEF FirstSeen, Matches
    <3>10. DOMAIN e.pkt = DOMAIN d.pkt
      BY <1>1, <3>9
    <3> QED
      BY <2>2, <3>10
  <2>4. CASE ~\E j \in DOMAIN d.pkt : j[1] = c.mid
    <3>1. Matches(d, c.mid, c.rx) = {}
      BY <2>4 DEF Matches
    <3>2. k = <<c.mid, BucketStart(hd[c.mid][c.gw])>>
      BY <1>2, <1>3, <2>1, <3>1 DEF FirstSeen
    <3>3. \A j \in DOMAIN e.pkt : j[1] = c.mid => j = k
      BY <1>1, <2>4
    <3> QED
      BY <1>2, <2>1, <3>2, <3>3
  <2> QED
    BY <2>3, <2>4
<1>4. ASSUME NEW m \in Mid \ {NoId}, m # c.mid, Heard(hd, m)
      PROVE  \A j \in DOMAIN e.pkt : j[1] = m =>
               /\ \E g \in Gateway : Good(hd[m][g]) /\ j[2] = BucketStart(hd[m][g])
               /\ \A i \in DOMAIN e.pkt : i[1] = m => i = j
  <2>1. \A j \in DOMAIN e.pkt : j[1] = m => j \in DOMAIN d.pkt
    BY <1>1, <1>2, <1>4
  <2> QED
    BY <1>4, <2>1 DEF OneRow
<1> QED
  BY <1>3, <1>4 DEF OneRow

\* What holds of a store, whatever was written to it.
Sound(d, hd) ==
    /\ StoreOK(d) /\ Rows(d) /\ CountersExact(d) /\ SideTablesOnce(d)
    /\ RxTrue(d, hd)
    /\ Spread <= Window => OneRow(d, hd)

\* A copy as the gateway sends it: its stamp is the gateway's.
Sent(c, hd) == c \in Envelope /\ Parsed(c) /\ c.rx = hd[c.mid][c.gw] /\ c.rx # Unheard

LEMMA SoundStart == ASSUME NEW hd PROVE Sound(EmptyStore, hd)
<1>1. /\ DOMAIN EmptyStore.pkt = {} /\ DOMAIN EmptyStore.rx = {}
      /\ EmptyStore.folds = [m \in Mid |-> 0]
      /\ EmptyStore.packets = 0 /\ EmptyStore.heard = 0
  BY DEF EmptyStore
<1>2. IsFiniteSet({}) /\ Cardinality({}) = 0
  BY FS_EmptySet
<1>3. /\ {k \in DOMAIN EmptyStore.pkt : TRUE} = {}
      /\ \A m \in Mid : {k \in DOMAIN EmptyStore.pkt : k[1] = m} = {}
  BY <1>1
<1>4. StoreOK(EmptyStore)
  BY <1>1 DEF StoreOK, Keyed, RowsApart
<1>5. Rows(EmptyStore) /\ SideTablesOnce(EmptyStore)
  BY <1>1, <1>2 DEF Rows, SideTablesOnce
<1>6. CountersExact(EmptyStore)
  <2>1. EmptyStore.packets = Cardinality(DOMAIN EmptyStore.pkt)
    BY <1>1, <1>2
  <2>2. EmptyStore.heard = Cardinality(DOMAIN EmptyStore.rx)
    BY <1>1, <1>2
  <2>3. \A m \in Mid : EmptyStore.folds[m] = 0
    BY <1>1
  <2>4. \A m \in Mid : Cardinality({k \in DOMAIN EmptyStore.pkt : k[1] = m}) = 0
    BY <1>2, <1>3
  <2> QED
    BY <1>1, <2>1, <2>2, <2>3, <2>4 DEF CountersExact
<1>7. RxTrue(EmptyStore, hd) /\ OneRow(EmptyStore, hd)
  BY <1>1 DEF RxTrue, OneRow
<1> QED
  BY <1>4, <1>5, <1>6, <1>7 DEF Sound

LEMMA SoundApply ==
    ASSUME NEW d, NEW hd, NEW t, Stamped(hd, t), Sound(d, hd), NEW c, Sent(c, hd)
    PROVE  /\ Sound(applyEnvelope(d, c, t), hd)
           /\ Keeps(d, applyEnvelope(d, c, t))
           /\ Stored(applyEnvelope(d, c, t), c)
<1>1. t \in Int
  BY DEF Stamped
<1> QED
  BY <1>1, ApplyApart, ApplyRows, ApplyCounts, ApplySide, ApplyTrue, ApplyOneRow, ApplyStores
  DEF Sound, Sent

\* A new stamp says nothing of the rows that are there.
LEMMA SoundGrows ==
    ASSUME NEW d, NEW hd, NEW t, Stamped(hd, t), Sound(d, hd), NEW hn, NEW u, Stamped(hn, u),
           \A m \in Mid : \A g \in Gateway : hd[m][g] # Unheard => hn[m][g] = hd[m][g]
    PROVE  Sound(d, hn)
<1>1. RxTrue(d, hn)
  <2> SUFFICES ASSUME NEW r \in DOMAIN d.rx
               PROVE  hn[r[1][1]][r[2]] = hd[r[1][1]][r[2]]
    BY DEF Sound, RxTrue
  <2>1. r[1] \in Mid \X Int
    BY DEF Sound, Rows, StoreOK, Keyed
  <2> QED
    BY <2>1 DEF Sound, RxTrue
<1>2. ASSUME OneRow(d, hd) PROVE OneRow(d, hn)
  <2> SUFFICES ASSUME NEW m \in Mid \ {NoId}, Heard(hn, m), NEW j \in DOMAIN d.pkt, j[1] = m
               PROVE  /\ \E g \in Gateway : Good(hn[m][g]) /\ j[2] = BucketStart(hn[m][g])
                      /\ \A i \in DOMAIN d.pkt : i[1] = m => i = j
    BY DEF OneRow
  <2>1. Heard(hd, m)
    BY DEF Heard
  <2>2. PICK g \in Gateway : Good(hd[m][g]) /\ j[2] = BucketStart(hd[m][g])
    BY <1>2, <2>1 DEF OneRow
  <2>3. hn[m][g] = hd[m][g]
    BY <2>2, GoodStamps
  <2> QED
    BY <1>2, <2>1, <2>2, <2>3 DEF OneRow
<1> QED
  BY <1>1, <1>2 DEF Sound

-----------------------------------------------------------------------------
(* The daemon: what is committed, what the open transaction sees, and what   *)
(* the flush has passed.                                                     *)

SoundInv ==
    /\ DedupInv
    /\ Stamped(heard, now)
    /\ \A n \in DOMAIN copies : Sent(copies[n], heard)
    /\ Sound(db, heard) /\ Sound(txn, heard)
    /\ Keeps(db, txn)
    /\ pc = "apply" => \A i \in 1 .. done : Stored(txn, copies[chunk[i]])
    /\ WrittenIsStored

LEMMA WrittenStored ==
    WrittenIsStored <=> \A n \in DOMAIN fate : fate[n] = "written" => Stored(db, copies[n])
  BY DEF WrittenIsStored, Stored

LEMMA KeepsItself == ASSUME NEW d PROVE Keeps(d, d)
  BY DEF Keeps

LEMMA KeepsOn ==
    ASSUME NEW d, NEW e, NEW f, Keeps(d, e), Keeps(e, f) PROVE Keeps(d, f)
  BY DEF Keeps

LEMMA SoundInit == Init => SoundInv
<1> SUFFICES ASSUME Init PROVE SoundInv
  OBVIOUS
<1>1. DedupInv
  BY StoreInit DEF Init, DedupInv, SuppressedIsCovered
<1>2. Stamped(heard, now)
  <2>1. heard = [m \in Mid |-> [g \in Gateway |-> Unheard]] /\ now = Plausible
    BY DEF Init
  <2>2. heard \in [Mid -> [Gateway -> Int]]
    BY <2>1, TimesAreInt
  <2>3. \A m \in Mid : \A g \in Gateway : heard[m][g] = Unheard /\ ~Good(heard[m][g])
    BY <2>1, TimesAreInt DEF Good
  <2>4. now \in Int /\ Plausible <= now /\ now <= MaxTime
    BY <2>1, IngestAssumption, TimesAreInt
  <2> QED
    BY <2>2, <2>3, <2>4 DEF Stamped
<1>3. Sound(db, heard) /\ Sound(txn, heard) /\ Keeps(db, txn)
  BY SoundStart, KeepsItself DEF Init
<1> QED
  BY <1>1, <1>2, <1>3 DEF Init, SoundInv, WrittenIsStored

\* A step that delivers nothing: what it writes is sound and loses nothing.
LEMMA SoundFrame ==
    ASSUME SoundInv, DedupInv', UNCHANGED <<now, heard, copies>>,
           Sound(db', heard), Sound(txn', heard), Keeps(db, db'), Keeps(db', txn'),
           pc' = "apply" => \A i \in 1 .. done' : Stored(txn', copies[chunk'[i]]),
           \A n \in DOMAIN copies : fate'[n] = "written" =>
               fate[n] = "written" \/ Stored(db', copies[n])
    PROVE  SoundInv'
<1>1. DOMAIN fate = DOMAIN copies /\ DOMAIN fate' = DOMAIN copies
  BY DEF SoundInv, DedupInv, StoreInv
<1>2. \A n \in DOMAIN fate' : fate'[n] = "written" => Stored(db', copies[n])
  BY <1>1, WrittenStored, KeepsStored DEF SoundInv
<1>3. WrittenIsStored'
  BY <1>1, <1>2 DEF WrittenIsStored, Stored
<1> QED
  BY <1>3 DEF SoundInv

LEMMA SoundItem ==
    ASSUME SoundInv, done < Len(chunk)
    PROVE  Sent(Item, heard) /\ chunk[done + 1] \in DOMAIN copies /\ done \in Nat
<1>1. done + 1 \in DOMAIN chunk /\ done \in Nat
  BY DEF SoundInv, DedupInv, StoreInv
<1>2. chunk[done + 1] \in DOMAIN copies
  BY <1>1 DEF SoundInv, DedupInv, StoreInv
<1> QED
  BY <1>1, <1>2 DEF Item, SoundInv

\* The stamp of a delivered copy is one of the gateway's.
LEMMA StampFits ==
    ASSUME Stamped(heard, now), NEW m \in Mid, NEW g \in Gateway, NEW x \in Stamps(m, g)
    PROVE  /\ x # Unheard /\ x \in Int
           /\ Stamped([heard EXCEPT ![m][g] = x], now)
           /\ heard[m][g] # Unheard => x = heard[m][g]
<1> DEFINE hn == [heard EXCEPT ![m][g] = x]
<1>1. heard \in [Mid -> [Gateway -> Int]]
  BY DEF Stamped
<1>2. CASE heard[m][g] # Unheard
  <2>1. x = heard[m][g]
    BY <1>2 DEF Stamps
  <2>2. hn = heard
    BY <1>1, <2>1
  <2>3. x \in Int
    BY <1>1, <2>1
  <2> QED
    BY <1>2, <2>1, <2>2, <2>3
<1>3. CASE heard[m][g] = Unheard
  <2>1. \/ x = 0 \/ x = Future
        \/ /\ x \in Plausible .. now
           /\ \A h \in Gateway : heard[m][h] \in Plausible .. now
                => heard[m][h] - x <= Spread /\ x - heard[m][h] <= Spread
    BY <1>3 DEF Stamps
  <2>2. now \in Int /\ Plausible <= now /\ now <= MaxTime
    BY DEF Stamped
  <2>3. x # Unheard /\ x \in Int
    BY <2>1, <2>2, TimesAreInt
  <2>4. /\ hn \in [Mid -> [Gateway -> Int]] /\ hn[m][g] = x
        /\ \A n \in Mid : \A h \in Gateway : n # m \/ h # g => hn[n][h] = heard[n][h]
    BY <1>1, <2>3
  <2> HIDE DEF hn
  <2>5. \A n \in Mid : \A h \in Gateway :
          \/ hn[n][h] \in {Unheard, 0, Future}
          \/ Plausible <= hn[n][h] /\ hn[n][h] <= now
    <3>1. x \in {Unheard, 0, Future} \/ (Plausible <= x /\ x <= now)
      BY <2>1, <2>2, TimesAreInt
    <3> QED
      BY <2>4, <3>1 DEF Stamped
  <2>6. ASSUME NEW h \in Gateway, Good(x), Good(heard[m][h])
        PROVE  heard[m][h] - x <= Spread /\ x - heard[m][h] <= Spread
    <3>1. x \in Plausible .. now
      BY <2>1, <2>2, <2>6, TimesAreInt DEF Good
    <3>2. heard[m][h] \in Plausible .. now
      BY <2>6, GoodStamps
    <3>3. x # 0 /\ x # Future
      BY <2>6, TimesAreInt DEF Good
    <3> QED
      BY <2>1, <3>2, <3>3
  <2>7. ASSUME NEW n \in Mid, NEW h \in Gateway, NEW i \in Gateway,
               Good(hn[n][h]), Good(hn[n][i])
        PROVE  hn[n][h] - hn[n][i] <= Spread
    <3>1. CASE n # m \/ (h # g /\ i # g)
      BY <2>4, <2>7, <3>1 DEF Stamped
    <3>2. CASE n = m /\ h = g /\ i # g
      BY <2>4, <2>6, <2>7, <3>2
    <3>3. CASE n = m /\ h # g /\ i = g
      BY <2>4, <2>6, <2>7, <3>3
    <3>4. CASE n = m /\ h = g /\ i = g
      BY <2>3, <2>4, <3>4, TimesAreInt
    <3> QED
      BY <3>1, <3>2, <3>3, <3>4
  <2>8. Stamped(hn, now)
    BY <2>2, <2>4, <2>5, <2>7 DEF Stamped
  <2> QED
    BY <1>3, <2>3, <2>8 DEF hn
<1> QED
  BY <1>2, <1>3

LEMMA SoundDeliver == SoundInv /\ Deliver => SoundInv'
<1> SUFFICES ASSUME SoundInv, Deliver PROVE SoundInv'
  OBVIOUS
<1>0. DedupInv /\ StoreInv /\ DedupInv' /\ StoreInv'
  BY DedupDeliver DEF SoundInv, DedupInv
<1>1. PICK c0 \in Copies : \E rx \in Stamps(c0.mid, c0.gw) : Receive(Copy(c0, rx))
  BY DEF Deliver
<1>2. PICK rx \in Stamps(c0.mid, c0.gw) : Receive(Copy(c0, rx))
  BY <1>1
<1> DEFINE c == Copy(c0, rx)
<1>3. c \in Envelope /\ Parsed(c) /\ c.rx = rx /\ rx \in Stamps(c.mid, c.gw)
  <2>1. c \in Envelope
    BY <1>0, CopyTyped
  <2>2. /\ c.mid = c0.mid /\ c.gw = c0.gw /\ c.rx = rx
        /\ c.via = c0.kind.via /\ c.parsed = c0.kind.parsed
    BY DEF Copy
  <2>3. c0.kind.via = "json" => (c0.kind.parsed <=> c0.mid \notin Traced)
    BY DEF Copies
  <2> QED
    BY <2>1, <2>2, <2>3 DEF Parsed
<1>4. Receive(c)
  BY <1>2
<1> HIDE DEF c
<1>5. /\ copies' = Append(copies, c) /\ heard' = [heard EXCEPT ![c.mid][c.gw] = c.rx]
      /\ now' = now /\ db' = db /\ txn' = txn /\ chunk' = chunk /\ done' = done
      /\ pc' = "apply" => pc = "apply"
  <2>1. CASE Duplicate(c)
    BY <1>4, <2>1 DEF Receive, flushVars
  <2>2. CASE ~Duplicate(c)
    <3>1. enqueue(Len(copies) + 1)
      BY <1>4, <2>2 DEF Receive
    <3>2. chunk' = chunk /\ done' = done /\ txn' = txn /\ (pc' = "apply" => pc = "apply")
      BY <3>1 DEF enqueue, Flush
    <3> QED
      BY <1>4, <3>2 DEF Receive
  <2> QED
    BY <2>1, <2>2
<1>6. \E f \in {"suppressed", "shed", "queued"} : fate' = Append(fate, f)
  <2>1. CASE Duplicate(c)
    BY <1>4, <2>1 DEF Receive
  <2>2. CASE ~Duplicate(c)
    <3>1. enqueue(Len(copies) + 1)
      BY <1>4, <2>2 DEF Receive
    <3> QED
      BY <3>1 DEF enqueue
  <2> QED
    BY <2>1, <2>2
<1>7. c.mid \in Mid /\ c.gw \in Gateway /\ heard \in [Mid -> [Gateway -> Int]]
  BY <1>0, <1>3 DEF Envelope, StoreInv
<1>8. /\ c.rx # Unheard /\ Stamped(heard', now')
      /\ heard[c.mid][c.gw] # Unheard => c.rx = heard[c.mid][c.gw]
  BY <1>3, <1>5, <1>7, StampFits DEF SoundInv
<1>9. /\ heard'[c.mid][c.gw] = c.rx
      /\ \A m \in Mid : \A g \in Gateway : heard[m][g] # Unheard => heard'[m][g] = heard[m][g]
  BY <1>5, <1>7, <1>8
<1>10. /\ \A n \in DOMAIN copies : copies'[n] = copies[n] /\ copies[n] \in Envelope
       /\ \A n \in DOMAIN copies' : n \in DOMAIN copies \/ copies'[n] = c
       /\ DOMAIN fate = DOMAIN copies /\ DOMAIN fate' = DOMAIN copies'
       /\ copies \in Seq(Envelope)
  BY <1>0, <1>3, <1>5 DEF DedupInv, StoreInv
<1>11. \A n \in DOMAIN copies' : Sent(copies'[n], heard')
  <2>1. Sent(c, heard')
    BY <1>3, <1>8, <1>9 DEF Sent
  <2>2. ASSUME NEW n \in DOMAIN copies PROVE Sent(copies'[n], heard')
    <3>1. copies'[n] = copies[n] /\ Sent(copies[n], heard)
      BY <1>10 DEF SoundInv
    <3>2. copies[n].mid \in Mid /\ copies[n].gw \in Gateway
      BY <1>10 DEF Envelope
    <3> QED
      BY <1>9, <3>1, <3>2 DEF Sent
  <2> QED
    BY <1>10, <2>1, <2>2
<1>12. Sound(db', heard') /\ Sound(txn', heard') /\ Keeps(db', txn')
  <2> PICK hn : hn = heard'
    OBVIOUS
  <2>1. Stamped(heard, now) /\ Sound(db, heard) /\ Sound(txn, heard) /\ Keeps(db, txn)
    BY DEF SoundInv
  <2>2. /\ Stamped(hn, now)
        /\ \A m \in Mid : \A g \in Gateway : heard[m][g] # Unheard => hn[m][g] = heard[m][g]
    BY <1>5, <1>8, <1>9
  <2>3. Sound(db, hn) /\ Sound(txn, hn)
    BY <2>1, <2>2, SoundGrows
  <2> QED
    BY <1>5, <2>1, <2>3
<1>13. pc' = "apply" => \A i \in 1 .. done' : Stored(txn', copies'[chunk'[i]])
  <2> SUFFICES ASSUME pc = "apply", NEW i \in 1 .. done PROVE Stored(txn, copies'[chunk[i]])
    BY <1>5
  <2>1. i \in DOMAIN chunk /\ chunk[i] \in DOMAIN copies
    BY <1>0 DEF StoreInv
  <2> QED
    BY <1>10, <2>1 DEF SoundInv
<1>14. WrittenIsStored'
  <2>1. ASSUME NEW n \in DOMAIN fate', fate'[n] = "written" PROVE Stored(db', copies'[n])
    <3>1. n \in DOMAIN fate /\ fate[n] = "written"
      BY <1>0, <1>6, <2>1 DEF DedupInv
    <3> QED
      BY <1>5, <1>10, <3>1, WrittenStored DEF SoundInv
  <2> QED
    BY <2>1 DEF WrittenIsStored, Stored
<1> QED
  BY <1>0, <1>8, <1>11, <1>12, <1>13, <1>14 DEF SoundInv

LEMMA SoundFlush == SoundInv /\ FlushStep => SoundInv'
<1> SUFFICES ASSUME SoundInv, FlushStep PROVE SoundInv'
  OBVIOUS
<1>0. DedupInv' /\ [Next]_vars
  BY DedupStep DEF SoundInv, Next
<1>1. /\ Stamped(heard, now) /\ Sound(db, heard) /\ Sound(txn, heard) /\ Keeps(db, txn)
      /\ Keeps(db, db) /\ Keeps(txn, txn)
  BY KeepsItself DEF SoundInv
<1>2. ASSUME NEW e, e \in {db, txn}, db' = e, txn' = e, UNCHANGED <<now, heard, copies>>,
             pc' # "apply",
             \A n \in DOMAIN copies : fate'[n] = "written" =>
                 fate[n] = "written" \/ Stored(e, copies[n])
      PROVE  SoundInv'
  BY <1>0, <1>1, <1>2, KeepsItself, SoundFrame
<1>3. DOMAIN fate = DOMAIN copies
  BY DEF SoundInv, DedupInv, StoreInv
<1>4. CASE Connect
  <2>1. /\ txn' = db /\ db' = db /\ done' = 0 /\ fate' = fate /\ UNCHANGED <<now, heard, copies>>
    BY <1>4 DEF Connect
  <2>2. \A i \in 1 .. done' : FALSE
    BY <2>1
  <2> QED
    BY <1>0, <1>1, <2>1, <2>2, SoundFrame
<1>5. CASE ConnectFails
  <2>1. CASE viaDrain
    <3>1. /\ UNCHANGED <<now, heard, copies, db, txn>> /\ pc' = "idle"
          /\ Settle(Elements(drained), "lost")
      BY <1>5, <2>1 DEF ConnectFails
    <3>2. \A n \in DOMAIN copies : fate'[n] = "written" => fate[n] = "written"
      BY <1>3, <3>1 DEF Settle
    <3> QED
      BY <1>0, <1>1, <3>1, <3>2, SoundFrame
  <2>2. CASE ~viaDrain
    <3>1. /\ UNCHANGED <<now, heard, copies, db>> /\ Die
      BY <1>5, <2>2 DEF ConnectFails
    <3>2. /\ txn' = db /\ pc' = "idle"
          /\ \A n \in DOMAIN copies : fate'[n] = "written" => fate[n] = "written"
      BY <1>3, <3>1 DEF Die
    <3> QED
      BY <1>2, <3>1, <3>2
  <2> QED
    BY <2>1, <2>2
<1>6. CASE ApplyItem
  <2>1. /\ txn' = applyEnvelope(txn, Item, now) /\ done' = done + 1 /\ done < Len(chunk)
        /\ pc = "apply" /\ UNCHANGED <<now, heard, copies, fate, db, chunk>>
    BY <1>6 DEF ApplyItem, Applying
  <2>2. Sent(Item, heard) /\ done \in Nat
    BY <2>1, SoundItem
  <2>3. Sound(txn', heard) /\ Keeps(txn, txn') /\ Stored(txn', Item)
    BY <1>1, <2>1, <2>2, SoundApply
  <2>4. Keeps(db, txn')
    BY <1>1, <2>3, KeepsOn
  <2>5. ASSUME NEW i \in 1 .. done' PROVE Stored(txn', copies[chunk[i]])
    <3>1. CASE i = done + 1
      BY <2>3, <3>1 DEF Item
    <3>2. CASE i \in 1 .. done
      BY <2>1, <2>3, <3>2, KeepsStored DEF SoundInv
    <3> QED
      BY <2>1, <2>2, <3>1, <3>2
  <2> QED
    BY <1>0, <1>1, <2>1, <2>3, <2>4, <2>5, SoundFrame
<1>7. CASE BatchFails
  BY <1>2, <1>7 DEF BatchFails
<1>8. CASE Commit
  <2>1. /\ pc = "apply" /\ done = Len(chunk) /\ db' = txn /\ txn' = txn /\ pc' # "apply"
        /\ Settle(Elements(chunk), "written") /\ UNCHANGED <<now, heard, copies>>
    BY <1>8 DEF Commit, NextChunk
  <2>2. ASSUME NEW n \in DOMAIN copies, fate'[n] = "written"
        PROVE  fate[n] = "written" \/ Stored(txn, copies[n])
    <3>1. CASE n \in Elements(chunk)
      <4>1. PICK i \in 1 .. Len(chunk) : n = chunk[i]
        BY <3>1 DEF Elements, SoundInv, DedupInv, StoreInv
      <4> QED
        BY <2>1, <4>1 DEF SoundInv
    <3>2. CASE n \notin Elements(chunk)
      BY <1>3, <2>1, <2>2, <3>2 DEF Settle
    <3> QED
      BY <3>1, <3>2
  <2> QED
    BY <1>2, <2>1, <2>2
<1>9. CASE CommitFails
  BY <1>2, <1>9 DEF CommitFails
<1>10. CASE RetryItem
  <2>1. /\ pc = "retry" /\ done < Len(chunk) /\ db' = applyEnvelope(db, Item, now) /\ txn' = db'
        /\ pc' = pc /\ Settle({chunk[done + 1]}, "written") /\ UNCHANGED <<now, heard, copies>>
    BY <1>10 DEF RetryItem, Retrying
  <2>2. Sent(Item, heard)
    BY <2>1, SoundItem
  <2>3. Sound(db', heard) /\ Keeps(db, db') /\ Stored(db', Item)
    BY <1>1, <2>1, <2>2, SoundApply
  <2>4. \A n \in DOMAIN copies : fate'[n] = "written" =>
            fate[n] = "written" \/ Stored(db', copies[n])
    BY <1>3, <2>1, <2>3 DEF Settle, Item
  <2> QED
    BY <1>0, <2>1, <2>3, <2>4, KeepsItself, SoundFrame
<1>11. CASE RetryFails
  <2>1. /\ pc = "retry" /\ done < Len(chunk) /\ txn' = db' /\ pc' = pc
        /\ db' = db \/ db' = applyEnvelope(db, Item, now)
        /\ Settle({chunk[done + 1]}, "logged") /\ UNCHANGED <<now, heard, copies>>
    BY <1>11 DEF RetryFails, Retrying
  <2>2. Sent(Item, heard)
    BY <2>1, SoundItem
  <2>3. Sound(db', heard) /\ Keeps(db, db')
    BY <1>1, <2>1, <2>2, SoundApply
  <2>4. \A n \in DOMAIN copies : fate'[n] = "written" => fate[n] = "written"
    BY <1>3, <2>1 DEF Settle
  <2> QED
    BY <1>0, <2>1, <2>3, <2>4, KeepsItself, SoundFrame
<1>12. CASE RetriesDone
  BY <1>2, <1>12 DEF RetriesDone, NextChunk
<1> QED
  BY <1>4, <1>5, <1>6, <1>7, <1>8, <1>9, <1>10, <1>11, <1>12 DEF FlushStep

LEMMA SoundStep == SoundInv /\ [Next]_vars => SoundInv'
<1> SUFFICES ASSUME SoundInv, [Next]_vars PROVE SoundInv'
  OBVIOUS
<1>0. DedupInv'
  BY DedupStep DEF SoundInv
<1>1. /\ Stamped(heard, now) /\ Sound(db, heard) /\ Sound(txn, heard) /\ Keeps(db, txn)
      /\ Keeps(db, db) /\ Keeps(txn, txn)
  BY KeepsItself DEF SoundInv
<1>2. DOMAIN fate = DOMAIN copies
  BY DEF SoundInv, DedupInv, StoreInv
<1>3. ASSUME UNCHANGED <<now, heard, copies, fate, chunk, done, txn, db>>, pc' = "apply" => pc = "apply"
      PROVE  SoundInv'
  <2>1. pc' = "apply" => \A i \in 1 .. done' : Stored(txn', copies[chunk'[i]])
    BY <1>3 DEF SoundInv
  <2> QED
    BY <1>0, <1>1, <1>3, <2>1, SoundFrame
<1>4. ASSUME Die, UNCHANGED <<now, heard, copies>>, db' \in {db, txn} PROVE SoundInv'
  <2>1. /\ txn' = db' /\ pc' = "idle"
        /\ \A n \in DOMAIN copies : fate'[n] = "written" => fate[n] = "written"
    BY <1>2, <1>4 DEF Die
  <2>2. Sound(db', heard) /\ Keeps(db, db')
    BY <1>1, <1>4
  <2> QED
    BY <1>0, <1>4, <2>1, <2>2, KeepsItself, SoundFrame
<1>5. ASSUME NEW q, NEW b, Flush(q, b) PROVE pc' = "apply" => pc = "apply"
  BY <1>5 DEF Flush
<1>6. CASE Tick
  <2>1. /\ now < MaxTime /\ now' = now + 1
        /\ UNCHANGED <<heard, copies, fate, chunk, done, txn, db, pc>>
    BY <1>6 DEF Tick, flushVars
  <2>2. Stamped(heard, now')
    <3>1. now' \in Int /\ Plausible <= now' /\ now' <= MaxTime
      BY <1>1, <2>1, TimesAreInt DEF Stamped
    <3>2. \A m \in Mid : \A g \in Gateway :
             heard[m][g] \in Int /\ (heard[m][g] <= now => heard[m][g] <= now')
      BY <1>1, <2>1, GoodStamps DEF Stamped
    <3> QED
      BY <1>1, <3>1, <3>2 DEF Stamped
  <2> QED
    BY <1>0, <1>1, <2>1, <2>2 DEF SoundInv, WrittenIsStored
<1>7. CASE Deliver
  BY <1>7, SoundDeliver
<1>8. CASE TimerFires
  BY <1>3, <1>5, <1>8 DEF TimerFires
<1>9. CASE FlushStep
  BY <1>9, SoundFlush
<1>10. CASE Shutdown \/ Restart \/ UNCHANGED vars
  BY <1>3, <1>10 DEF Shutdown, Restart, vars, flushVars
<1>11. CASE drain
  BY <1>3, <1>4, <1>5, <1>11 DEF drain
<1>12. CASE Kill
  BY <1>4, <1>12 DEF Kill
<1> QED
  BY <1>6, <1>7, <1>8, <1>9, <1>10, <1>11, <1>12 DEF Next

\* A set whose elements are all equal has at most one.
LEMMA AtMostOneElement ==
  ASSUME NEW S, \A i, j \in S : i = j
  PROVE  Cardinality(S) <= 1
<1>1. CASE S = {}
  <2>1. Cardinality(S) = 0
    BY <1>1, FS_EmptySet
  <2> QED
    BY <2>1
<1>2. CASE S # {}
  <2>1. PICK k \in S : TRUE
    BY <1>2
  <2>2. S = {k}
    BY <2>1
  <2>3. Cardinality(S) = 1
    BY <2>2, FS_Singleton
  <2> QED
    BY <2>3
<1> QED
  BY <1>1, <1>2

\* One transmission is one packets row, provided the gateways whose clocks work
\* agree to within a window, and a gateway's reception of it is one row: in
\* whatever order and over whatever path the copies are written, and whatever is
\* rolled back, retried or repeated after a crash (pipeline.ts, upsertReception).
THEOREM IngestOneOfEach == Spread <= Window => (Spec => []OneOfEach)
<1> SUFFICES ASSUME Spread <= Window PROVE Spec => []OneOfEach
  OBVIOUS
<1>1. SoundInv => OneOfEach
  <2> SUFFICES ASSUME SoundInv PROVE OneOfEach
    OBVIOUS
  <2>1. /\ Stamped(heard, now) /\ RxTrue(db, heard) /\ OneRow(db, heard)
        /\ DOMAIN heard = Mid /\ \A m \in Mid : DOMAIN heard[m] = Gateway
    BY DEF SoundInv, Sound, Stamped
  <2>2. OneReception
    BY <2>1, ReceptionsApart DEF OneReception
  <2>3. ASSUME NEW m \in Mid \ {NoId},
               \A g \in Gateway : heard[m][g] \in {Unheard} \cup (Plausible .. now)
        PROVE  Cardinality({k \in DOMAIN db.pkt : k[1] = m}) <= 1
    <3> PICK S : S = {k \in DOMAIN db.pkt : k[1] = m}
      OBVIOUS
    <3>1. Heard(heard, m)
      BY <2>1, <2>3, GoodStamps DEF Heard
    <3>2. \A i, j \in S : i = j
      BY <2>1, <3>1 DEF OneRow
    <3>3. Cardinality(S) <= 1
      BY <3>2, AtMostOneElement
    <3> QED
      BY <3>3, Zenon
  <2> QED
    BY <2>1, <2>2, <2>3 DEF OneOfEach, OneLogicalPacket
<1> QED
  BY <1>1, SoundInit, SoundStep, PTL DEF Spec

\* Counters equal the rows they count, side tables are written once and by the
\* first copy that decodes, and what flush() reports as written is stored, as RF
\* if it came over RF (batch.ts: "Correctness is unchanged"): whatever fails.
THEOREM IngestStoredAddsUp == Spec => []StoredAddsUp
<1>1. SoundInv => StoredAddsUp
  BY DEF SoundInv, Sound, StoredAddsUp, CountersMatch, SideTablesMatch
<1> QED
  BY <1>1, SoundInit, SoundStep, PTL DEF Spec
=============================================================================
