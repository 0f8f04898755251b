---------------------------- MODULE LiveHubProofs ----------------------------
(***************************************************************************)
(* The hub of live events, for every set of connections, every number of   *)
(* ids, every look-back and every limit of a poll: nobody stays subscribed *)
(* who has gone, and nobody is handed an event twice, or history.          *)
(***************************************************************************)
EXTENDS LiveHub, WellFoundedInduction, FiniteSetTheorems, TLAPS

\* How many ids there are, how many a transaction takes, how far a poll looks back.
Sizes == MaxId \in Nat /\ Batch \in Nat \ {0} /\ LOOKBACK_IDS \in Nat

-----------------------------------------------------------------------------
(* The first and the last of a set of ids.                                 *)

LEMMA LeastNat ==
    ASSUME NEW T \in SUBSET Nat, T # {}
    PROVE  \E x \in T : \A y \in T : x <= y
<1>1. PICK x \in T : \A y \in T : ~(<<y, x>> \in OpToRel(<, Nat))
  BY NatLessThanWellFounded, WFMin
<1>2. \A y \in T : ~(y < x)
  BY <1>1 DEF OpToRel
<1> QED
  BY <1>2

LEMMA MinIsFirst ==
    ASSUME NEW S \in SUBSET Nat, S # {}
    PROVE  Min(S) \in S /\ \A y \in S : Min(S) <= y
  BY LeastNat DEF Min

LEMMA MaxIsLast ==
    ASSUME NEW n \in Nat, NEW S \in SUBSET (0..n), S # {}
    PROVE  Max(S) \in S /\ \A y \in S : y <= Max(S)
<1> DEFINE T == {n - x : x \in S}
<1>1. T # {} /\ \A t \in T : t \in Nat
  <2>1. \A x \in S : n - x \in Nat
    OBVIOUS
  <2> QED
    BY <2>1
<1>2. PICK t \in T : \A u \in T : t <= u
  <2> HIDE DEF T
  <2> QED
    BY <1>1, LeastNat
<1>3. PICK x \in S : t = n - x
  BY <1>2
<1>4. \A y \in S : x >= y
  <2> SUFFICES ASSUME NEW y \in S PROVE x >= y
    OBVIOUS
  <2>1. n - y \in T
    OBVIOUS
  <2>2. t <= n - y
    BY <1>2, <2>1
  <2> HIDE DEF T
  <2> QED
    BY <1>3, <2>2
<1> QED
  BY <1>4 DEF Max

-----------------------------------------------------------------------------
(* The inductive invariant.                                                *)

\* Ids are taken in ascending order.
Ascending == \A i, j \in Id : row[i] = "free" /\ i <= j => row[j] = "free"

\* Connected is subscribed, and the interval runs while anybody is.
Subscribed ==
    /\ \A c \in Conn : conn[c] = "on" <=> c \in subs
    /\ timer <=> subs # {}

\* What is remembered is at most the cursor: the memory of ids is a window.
Remembered == \A e \in delivered : e <= cursor

HubBase == TypeOK /\ Ascending /\ Subscribed /\ Remembered

\* One viewer seeds the hub at a time, and before anybody is subscribed; the hub
\* is started while it is used.
Seeding ==
    /\ subs # {} => started
    /\ started /\ subs = {} => \E c \in Conn : conn[c] \in {"asking", "answered"}
    /\ \A c \in Conn : conn[c] \in {"asking", "answered"} =>
         /\ subs = {} /\ started
         /\ \A d \in Conn : conn[d] \in {"asking", "answered"} => d = c

\* Ids that the hub has given up remembering are ids that it does not read again,
\* whatever epoch the poll under way began in.
OutOfReach(e) == e <= Larger(floorId, cursor - LOOKBACK_IDS)
Reach ==
    /\ poll.at = "asked" => cursor - LOOKBACK_IDS <= Larger(poll.from, floorId)
    /\ poll.at = "answered" =>
          \A e \in poll.rows : e > floorId => e > cursor - LOOKBACK_IDS

\* What a connection was handed is above the floor, and remembered or out of reach.
Handed ==
    /\ \A c \in Conn, e \in Id : got[c][e] <= 1
    /\ \A c \in Conn : conn[c] \in {"new", "asking", "answered"} =>
          \A e \in Id : got[c][e] = 0
    /\ \A c \in subs, e \in Id : got[c][e] > 0 =>
          e > floorId /\ (e \in delivered \/ OutOfReach(e))

\* History lies at or below the floor, once the floor has been read.
Past ==
    /\ \A c \in Conn : conn[c] = "asking" => history \subseteq Visible /\ ~blind
    /\ \A c \in Conn : conn[c] = "answered" /\ ~blind => \A e \in history : e <= seed[c]
    /\ subs # {} /\ ~blind => \A e \in history : e <= floorId

HubInv == HubBase /\ Seeding /\ Reach /\ Handed /\ Past

LEMMA HubStart == ASSUME Sizes, Init PROVE HubInv
<1> USE DEF Sizes, Id
<1>1. TypeOK
  <2>1. Cardinality(delivered) <= 2 * LOOKBACK_IDS
    BY FS_EmptySet DEF Init
  <2>2. poll \in [at : {"idle", "asked", "answered"}, from : 0..MaxId, rows : SUBSET Id]
    BY DEF Init, Idle
  <2> QED
    <3>1. /\ row \in [Id -> {"free", "open", "in", "out"}] /\ seed \in [Conn -> 0..MaxId]
          /\ conn \in [Conn -> {"new", "asking", "answered", "on", "gone"}]
      BY DEF Init
    <3>2. got \in [Conn -> [Id -> 0..2]]
      BY DEF Init
    <3> QED
      BY <2>1, <2>2, <3>1, <3>2 DEF Init, TypeOK, Idle
<1>2. Ascending /\ Subscribed /\ Remembered /\ Seeding /\ Reach /\ Handed /\ Past
  BY DEF Init, Idle, Ascending, Subscribed, Remembered, Seeding, Reach, Handed, Past
<1> QED
  BY <1>1, <1>2 DEF HubInv, HubBase

\* What the writers and retention do to the table, and to nothing else.
Writers == InsertBatch \/ CommitBatch \/ RollbackBatch \/ emitTxState \/ TrimLiveEvents

LEMMA WritersWrite ==
    ASSUME Sizes, TypeOK, Ascending, Writers
    PROVE  /\ UNCHANGED <<hub, poll, viewers, got, history, blind>>
           /\ row' \in [Id -> {"free", "open", "in", "out"}] /\ Ascending'
           /\ \A c \in Conn : conn[c] = "asking" => Visible \subseteq Visible'
<1> USE DEF Sizes, Id, TypeOK, Ascending
<1>a. Free # {} => Min(Free) \in Free /\ \A i \in Free : Min(Free) <= i
  <2>1. Free \in SUBSET Nat
    BY DEF Free
  <2> QED
    BY <2>1, MinIsFirst
<1>1. CASE InsertBatch
  <2>1. Free # {}
    <3> SUFFICES ASSUME Free = {} PROVE FALSE
      OBVIOUS
    <3>1. Cardinality(Free) = 0
      BY FS_EmptySet
    <3> QED
      BY <1>1, <3>1 DEF InsertBatch
  <2>2. PICK n \in Free : \A i \in Free : n <= i
                          /\ row' = [j \in Id |-> IF j \in n..(n + Batch - 1)
                                                    THEN "open" ELSE row[j]]
    BY <1>a, <1>1, <2>1 DEF InsertBatch
  <2>3. n \in Id /\ row[n] = "free"
    BY DEF Free
  <2>4. row' = [j \in Id |-> IF j \in n..(n + Batch - 1) THEN "open" ELSE row[j]]
    BY <2>2
  <2>5. Ascending'
    BY <2>2, <2>3, <2>4 DEF Free
  <2>6. Visible \subseteq Visible'
    BY <2>3, <2>4 DEF Visible
  <2> QED
    BY <1>1, <2>4, <2>5, <2>6 DEF InsertBatch
<1>2. CASE emitTxState
  <2>1. PICK n \in Free : (\A i \in Free : n <= i) /\ row' = [row EXCEPT ![n] = "in"]
    BY <1>a, <1>2 DEF emitTxState
  <2>2. n \in Id /\ row[n] = "free"
    BY DEF Free
  <2>3. Ascending'
    BY <2>1, <2>2 DEF Free
  <2>4. Visible \subseteq Visible'
    BY <2>1, <2>2 DEF Visible
  <2> QED
    BY <1>2, <2>1, <2>3, <2>4 DEF emitTxState
<1>3. CASE CommitBatch \/ RollbackBatch
  <2>1. PICK s \in {"in", "out"} :
           row' = [i \in Id |-> IF i \in Open THEN s ELSE row[i]]
    BY <1>3 DEF CommitBatch, RollbackBatch
  <2>2. \A i \in Id : (row'[i] = "free" <=> row[i] = "free")
                    /\ (row[i] = "in" => row'[i] = "in")
    BY <2>1 DEF Open
  <2>3. row' \in [Id -> {"free", "open", "in", "out"}]
    BY <2>1
  <2>4. Ascending' /\ Visible \subseteq Visible'
    BY <2>2 DEF Visible
  <2> QED
    BY <1>3, <2>3, <2>4 DEF CommitBatch, RollbackBatch
<1>4. CASE TrimLiveEvents
  <2>1. PICK n \in Visible :
           row' = [i \in Id |-> IF i \in {j \in Visible : j <= n} THEN "out" ELSE row[i]]
    BY <1>4 DEF TrimLiveEvents
  <2>2. \A i \in Id : row'[i] = "free" <=> row[i] = "free"
    BY <2>1 DEF Visible
  <2>3. \A c \in Conn : conn[c] # "asking"
    BY <1>4 DEF TrimLiveEvents
  <2> QED
    BY <1>4, <2>1, <2>2, <2>3 DEF TrimLiveEvents
<1> QED
  BY <1>1, <1>2, <1>3, <1>4 DEF Writers


\* Forgetting ids: what goes is out of reach, and what stays is bounded.
LEMMA RetireForgets ==
    ASSUME Sizes, floorId \in Nat, NEW cur \in Nat, NEW ids \in SUBSET (1..cur)
    PROVE  /\ Retire(ids, cur) \subseteq ids
           /\ Cardinality(Retire(ids, cur)) <= 2 * LOOKBACK_IDS
           /\ \A e \in ids : \/ e \in Retire(ids, cur)
                             \/ e <= Larger(floorId, cur - LOOKBACK_IDS)
<1> USE DEF Sizes
<1>1. IsFiniteSet(ids)
  <2>1. IsFiniteSet(1..cur)
    BY FS_Interval
  <2> QED
    BY <2>1, FS_Subset
<1>2. Cardinality(ids) \in Nat
  BY <1>1, FS_CardinalityType
<1>3. CASE Cardinality(ids) > 2 * LOOKBACK_IDS
  <2> DEFINE kept == {i \in ids : i > Larger(floorId, cur - LOOKBACK_IDS)}
             window == (cur - LOOKBACK_IDS + 1)..cur
  <2>1. Retire(ids, cur) = kept
    BY <1>3 DEF Retire
  <2>2. kept \subseteq window
    <3>1. \A i \in ids : i \in Int /\ i <= cur
      OBVIOUS
    <3>2. \A i \in kept : i \in ids /\ i > cur - LOOKBACK_IDS
      BY <3>1 DEF Larger
    <3>3. cur - LOOKBACK_IDS \in Int /\ cur \in Int
      OBVIOUS
    <3> SUFFICES ASSUME NEW i \in kept PROVE i \in window
      OBVIOUS
    <3>4. i \in Int /\ i <= cur /\ i > cur - LOOKBACK_IDS
      BY <3>1, <3>2
    <3>5. cur - LOOKBACK_IDS + 1 <= i
      BY <3>3, <3>4
    <3> QED
      BY <3>3, <3>4, <3>5
  <2>3. IsFiniteSet(window) /\ Cardinality(window) <= LOOKBACK_IDS
    <3>1. cur - LOOKBACK_IDS + 1 \in Int /\ cur \in Int
      OBVIOUS
    <3>2. /\ IsFiniteSet(window)
          /\ Cardinality(window) = IF cur - LOOKBACK_IDS + 1 > cur THEN 0
                                   ELSE cur - (cur - LOOKBACK_IDS + 1) + 1
      BY <3>1, FS_Interval
    <3> QED
      BY <3>2
  <2>4. Cardinality(kept) <= Cardinality(window)
    BY <2>2, <2>3, FS_Subset
  <2>5. Cardinality(kept) \in Nat
    BY <2>2, <2>3, FS_Subset, FS_CardinalityType
  <2>6. Cardinality(window) \in Nat
    BY <2>3, FS_CardinalityType
  <2>7. Cardinality(kept) <= 2 * LOOKBACK_IDS
    <3> HIDE DEF kept, window
    <3> QED
      BY <2>3, <2>4, <2>5, <2>6
  <2>8. \A e \in ids : e \in kept \/ e <= Larger(floorId, cur - LOOKBACK_IDS)
    BY DEF Larger
  <2> QED
    BY <2>1, <2>7, <2>8
<1>4. CASE ~(Cardinality(ids) > 2 * LOOKBACK_IDS)
  BY <1>2, <1>4 DEF Retire
<1> QED
  BY <1>3, <1>4

\* What the loop of a poll does to the hub.
LEMMA FanOutMoves ==
    ASSUME Sizes, HubBase, FanOut
    PROVE  /\ cursor' \in 0..MaxId /\ cursor <= cursor'
           /\ \A e \in delivered \cup Fresh : e \in Id /\ e <= cursor'
           /\ delivered' \subseteq delivered \cup Fresh
           /\ Cardinality(delivered') <= 2 * LOOKBACK_IDS
           /\ \A e \in delivered \cup Fresh :
                 e \in delivered' \/ e <= Larger(floorId, cursor' - LOOKBACK_IDS)
<1> USE DEF Sizes, HubBase, TypeOK, Id
<1>1. Fresh \in SUBSET (0..MaxId) /\ Fresh \subseteq Id
  BY DEF Fresh
<1>2. Fresh # {} => Max(Fresh) \in Fresh /\ \A e \in Fresh : e <= Max(Fresh)
  BY <1>1, MaxIsLast
<1>3. cursor' = IF Fresh = {} THEN cursor ELSE Larger(cursor, Max(Fresh))
  BY DEF FanOut
<1>4. delivered' = Retire(delivered \cup Fresh, cursor')
  BY <1>3 DEF FanOut
<1>5. cursor' \in 0..MaxId /\ cursor <= cursor'
  BY <1>1, <1>2, <1>3 DEF Larger
<1>6. \A e \in Fresh : e <= cursor'
  <2> SUFFICES ASSUME NEW e \in Fresh PROVE e <= cursor'
    OBVIOUS
  <2>1. PICK m \in 0..MaxId : m = Max(Fresh) /\ e <= m
    BY <1>1, <1>2
  <2>2. cursor' = IF cursor > m THEN cursor ELSE m
    BY <1>3, <2>1 DEF Larger
  <2>3. e \in Int /\ cursor \in Int
    BY <1>1
  <2> QED
    BY <2>1, <2>2, <2>3
<1>7. \A e \in delivered \cup Fresh : e \in Id /\ e <= cursor'
  BY <1>1, <1>5, <1>6 DEF Remembered
<1>8. delivered \cup Fresh \in SUBSET (1..cursor')
  <2>1. cursor' \in Int /\ \A e \in Id : e \in Int /\ 1 <= e
    BY <1>5
  <2> HIDE DEF Id
  <2> QED
    BY <1>7, <2>1
<1> HIDE DEF TypeOK, Id
<1>9. floorId \in Nat /\ cursor' \in Nat
  BY <1>5 DEF TypeOK
<1> QED
  BY <1>4, <1>5, <1>7, <1>8, <1>9, RetireForgets


\* The interface of the hub: everybody but the poll.
Viewer(c) ==
    Connect(c) \/ maxLiveEventId(c) \/ SeedFails(c) \/ Seeded(c) \/ Close(c) \/ Saturate(c)
Reading == PollStarts \/ liveEventsSince \/ PollFails

LEMMA BaseStep ==
    ASSUME Sizes, HubBase, [Next]_vars PROVE HubBase'
<1> USE DEF Sizes
<1>1. ASSUME Writers PROVE HubBase'
  <2>1. /\ UNCHANGED <<hub, poll, viewers, got, history, blind>> /\ Ascending'
        /\ row' \in [Id -> {"free", "open", "in", "out"}]
    BY <1>1, WritersWrite DEF HubBase
  <2> QED
    BY <2>1 DEF HubBase, TypeOK, Subscribed, Remembered, hub, viewers
<1>2. ASSUME NEW c \in Conn, Viewer(c) PROVE HubBase'
  <2>1. UNCHANGED <<row, poll, got>> /\ Visible \subseteq Id
    BY <1>2 DEF Viewer, Connect, maxLiveEventId, SeedFails, Seeded, Close, Saturate, Visible
  <2>2. Ascending'
    BY <2>1 DEF HubBase, Ascending
  <2>3. Visible # {} => Max(Visible) \in Id
    <3>1. Visible \in SUBSET (0..MaxId)
      BY <2>1 DEF Id
    <3> QED
      BY <2>1, <3>1, MaxIsLast
  <2>4. Cardinality({}) = 0
    BY FS_EmptySet
  <2> USE DEF HubBase, TypeOK
  <2>5. CASE Connect(c)
    <3>1. TypeOK'
      <4>1. /\ subs' \subseteq Conn /\ timer' \in BOOLEAN /\ started' \in BOOLEAN
            /\ conn' \in [Conn -> {"new", "asking", "answered", "on", "gone"}]
        BY <2>5 DEF Connect, Join
      <4>2. history' \subseteq Id /\ blind' \in BOOLEAN
        BY <2>1, <2>5 DEF Connect
      <4>3. UNCHANGED <<cursor, floorId, delivered, closed, seed, slow>>
        BY <2>5 DEF Connect
      <4> QED
        BY <2>1, <4>1, <4>2, <4>3
    <3>2. Subscribed' /\ Remembered'
      BY <2>5 DEF Connect, Join, Subscribed, Remembered
    <3> QED
      BY <2>2, <3>1, <3>2
  <2>6. CASE maxLiveEventId(c) \/ SeedFails(c) \/ Saturate(c)
    <3>1. TypeOK'
      <4>1. CASE maxLiveEventId(c)
        <5>1. (IF Visible = {} THEN 0 ELSE Max(Visible)) \in 0..MaxId
          BY <2>3 DEF Id
        <5> QED
          BY <2>1, <4>1, <5>1 DEF maxLiveEventId, hub
      <4>2. CASE SeedFails(c)
        BY <2>1, <4>2 DEF SeedFails, hub
      <4>3. CASE Saturate(c)
        BY <2>1, <4>3 DEF Saturate, hub
      <4> QED
        BY <2>6, <4>1, <4>2, <4>3
    <3>2. Subscribed' /\ Remembered'
      BY <2>6 DEF maxLiveEventId, SeedFails, Saturate, hub, Subscribed, Remembered
    <3> QED
      BY <2>2, <3>1, <3>2
  <2>7. CASE Seeded(c)
    <3>1. /\ cursor' \in 0..MaxId /\ floorId' \in 0..MaxId /\ delivered' = {}
          /\ seed' \in [Conn -> 0..MaxId]
          /\ UNCHANGED <<closed, slow, history, blind>>
      BY <2>7 DEF Seeded
    <3>2. /\ subs' \subseteq Conn /\ timer' \in BOOLEAN /\ started' \in BOOLEAN
          /\ conn' \in [Conn -> {"new", "asking", "answered", "on", "gone"}]
          /\ Subscribed'
      <4>1. CASE c \in closed
        <5>1. /\ conn' = [conn EXCEPT ![c] = "gone"] /\ subs' = subs
              /\ timer' = (subs # {}) /\ started' = (started /\ subs # {})
          BY <2>7, <4>1 DEF Seeded
        <5>2. conn[c] = "answered"
          BY <2>7 DEF Seeded
        <5> QED
          BY <5>1, <5>2 DEF Subscribed
      <4>2. CASE c \notin closed
        <5>1. /\ conn' = [conn EXCEPT ![c] = "on"] /\ subs' = subs \union {c}
              /\ timer' = TRUE /\ started' = started
          BY <2>7, <4>2 DEF Seeded, Join
        <5> QED
          BY <5>1 DEF Subscribed
      <4> QED
        BY <4>1, <4>2
    <3>3. TypeOK'
      BY <2>1, <2>4, <3>1, <3>2
    <3>4. Remembered'
      BY <3>1 DEF Remembered
    <3> QED
      BY <2>2, <3>2, <3>3, <3>4
  <2>8. CASE Close(c)
    <3>1. TypeOK'
      BY <2>1, <2>8 DEF Close, Unsubscribe
    <3>2. Subscribed' /\ Remembered'
      BY <2>8 DEF Close, Unsubscribe, Subscribed, Remembered
    <3> QED
      BY <2>2, <3>1, <3>2
  <2> QED
    BY <1>2, <2>5, <2>6, <2>7, <2>8 DEF Viewer
<1>3. ASSUME Reading PROVE HubBase'
  <2>1. UNCHANGED <<row, hub, viewers, got, history, blind>>
    BY <1>3 DEF Reading, PollStarts, liveEventsSince, PollFails
  <2>2. poll' \in [at : {"idle", "asked", "answered"}, from : 0..MaxId, rows : SUBSET Id]
    <3>1. CASE PollStarts
      <4>1. From \in 0..MaxId
        BY DEF HubBase, TypeOK, From, Larger
      <4> QED
        BY <3>1, <4>1 DEF PollStarts
    <3>2. CASE liveEventsSince
      <4>1. Selected(poll.from) \in SUBSET Id
        BY DEF Selected, Visible
      <4>2. poll' = [at |-> "answered", from |-> 0, rows |-> Selected(poll.from)]
        BY <3>2 DEF liveEventsSince, HubBase, TypeOK
      <4> QED
        BY <4>1, <4>2
    <3>3. CASE PollFails
      BY <3>3 DEF PollFails, Idle
    <3> QED
      BY <1>3, <3>1, <3>2, <3>3 DEF Reading
  <2> QED
    BY <2>1, <2>2 DEF HubBase, TypeOK, Ascending, Subscribed, Remembered, hub, viewers
<1>4. ASSUME FanOut PROVE HubBase'
  <2>1. /\ cursor' \in 0..MaxId /\ delivered' \subseteq Id
        /\ Cardinality(delivered') <= 2 * LOOKBACK_IDS /\ Remembered'
    BY <1>4, FanOutMoves DEF Remembered
  <2>2. poll' = Idle /\ UNCHANGED <<row, floorId, seed, slow, history, blind>>
    BY <1>4 DEF FanOut
  <2>3. got' \in [Conn -> [Id -> 0..2]]
    <3>1. \A c \in Conn, e \in Id : got[c][e] \in 0..2
      BY DEF HubBase, TypeOK
    <3>2. \A c \in Conn, e \in Id : got[c][e] < 2 => got[c][e] + 1 \in 0..2
      BY <3>1
    <3> QED
      BY <1>4, <3>1, <3>2 DEF FanOut
  <2>4. PICK tooSlow \in SUBSET (subs \intersect slow) :
           /\ Unsubscribe(tooSlow)
           /\ closed' = closed \union tooSlow
           /\ conn' = [c \in Conn |-> IF c \in tooSlow THEN "gone" ELSE conn[c]]
    BY <1>4 DEF FanOut
  <2>5. poll' \in [at : {"idle", "asked", "answered"}, from : 0..MaxId, rows : SUBSET Id]
    BY <2>2 DEF Idle
  <2>6. TypeOK'
    BY <2>1, <2>2, <2>3, <2>4, <2>5 DEF HubBase, TypeOK, Unsubscribe
  <2>7. Subscribed'
    BY <2>4 DEF HubBase, TypeOK, Subscribed, Unsubscribe
  <2>8. Ascending'
    BY <2>2 DEF HubBase, Ascending
  <2> QED
    BY <2>1, <2>6, <2>7, <2>8 DEF HubBase
<1>5. CASE UNCHANGED vars
  BY <1>5 DEF vars, hub, viewers, HubBase, TypeOK, Ascending, Subscribed, Remembered
<1> QED
  BY <1>1, <1>2, <1>3, <1>4, <1>5 DEF Next, Done, Writers, Viewer, Reading

LEMMA BaseInvariant == Sizes => (Spec => []HubBase)
<1> SUFFICES ASSUME Sizes PROVE Spec => []HubBase
  OBVIOUS
<1>1. Init => HubBase
  BY HubStart DEF HubInv
<1>2. HubBase /\ [Next]_vars => HubBase'
  BY BaseStep
<1> QED
  BY <1>1, <1>2, PTL DEF Spec


LEMMA SeedingStep ==
    ASSUME Sizes, ~Overlap, HubInv, [Next]_vars PROVE Seeding'
<1> USE DEF HubInv, HubBase, Subscribed, Seeding
<1>t. conn \in [Conn -> {"new", "asking", "answered", "on", "gone"}]
  BY DEF TypeOK
<1>1. ASSUME Writers \/ Reading PROVE Seeding'
  <2>1. UNCHANGED <<hub, viewers>>
    BY <1>1, WritersWrite DEF Reading, PollStarts, liveEventsSince, PollFails
  <2> QED
    BY <2>1 DEF hub, viewers
<1>2. ASSUME NEW c \in Conn, Viewer(c) PROVE Seeding'
  <2>1. CASE Connect(c)
    BY <1>t, <2>1 DEF Connect, Join
  <2>2. CASE maxLiveEventId(c) \/ SeedFails(c)
    BY <1>t, <2>2 DEF maxLiveEventId, SeedFails, hub
  <2>3. CASE Seeded(c)
    <3>1. /\ conn[c] = "answered" /\ subs = {} /\ started
          /\ \A d \in Conn : d # c => conn'[d] \notin {"asking", "answered"}
          /\ conn'[c] \in {"gone", "on"}
      BY <1>t, <2>3 DEF Seeded
    <3>2. subs' # {} <=> started'
      BY <2>3, <3>1 DEF Seeded, Join
    <3> QED
      BY <3>1, <3>2
  <2>4. CASE Close(c)
    <3>1. CASE conn[c] = "on"
      BY <1>t, <2>4, <3>1 DEF Close, Unsubscribe
    <3>2. CASE conn[c] # "on"
      BY <2>4, <3>2 DEF Close
    <3> QED
      BY <3>1, <3>2
  <2>5. CASE Saturate(c)
    BY <2>5 DEF Saturate, hub
  <2> QED
    BY <1>2, <2>1, <2>2, <2>3, <2>4, <2>5 DEF Viewer
<1>3. ASSUME FanOut PROVE Seeding'
  <2>1. PICK tooSlow \in SUBSET (subs \intersect slow) :
           /\ Unsubscribe(tooSlow)
           /\ conn' = [c \in Conn |-> IF c \in tooSlow THEN "gone" ELSE conn[c]]
    BY <1>3 DEF FanOut
  <2> QED
    BY <2>1 DEF Unsubscribe
<1>4. CASE UNCHANGED vars
  BY <1>4 DEF vars, hub, viewers
<1> QED
  BY <1>1, <1>2, <1>3, <1>4 DEF Next, Done, Writers, Viewer, Reading

LEMMA ReachStep ==
    ASSUME Sizes, HubInv, [Next]_vars PROVE Reach'
<1> USE DEF HubInv, HubBase, Reach, Sizes
<1>t. /\ cursor \in 0..MaxId /\ floorId \in 0..MaxId
      /\ poll \in [at : {"idle", "asked", "answered"}, from : 0..MaxId, rows : SUBSET Id]
      /\ seed \in [Conn -> 0..MaxId]
  BY DEF TypeOK
<1>1. ASSUME NEW c \in Conn, Viewer(c) PROVE Reach'
  <2>1. CASE Seeded(c)
    <3>1. cursor' = seed[c] /\ floorId' = seed[c] /\ poll' = poll /\ seed[c] \in 0..MaxId
      BY <1>t, <2>1 DEF Seeded
    <3>2. \A e \in poll.rows : e > floorId' => e > cursor' - LOOKBACK_IDS
      BY <1>t, <3>1 DEF Id
    <3>3. cursor' - LOOKBACK_IDS <= Larger(poll.from, floorId')
      BY <1>t, <3>1 DEF Larger
    <3> QED
      BY <3>1, <3>2, <3>3
  <2>2. CASE Connect(c) \/ maxLiveEventId(c) \/ SeedFails(c) \/ Close(c) \/ Saturate(c)
    BY <2>2 DEF Connect, maxLiveEventId, SeedFails, Close, Saturate, hub
  <2> QED
    BY <1>1, <2>1, <2>2 DEF Viewer
<1>2. CASE Writers
  <2>1. UNCHANGED <<hub, poll>>
    BY <1>2, WritersWrite
  <2> QED
    BY <2>1 DEF hub
<1>3. CASE PollStarts
  <2>1. poll'.at = "asked" /\ poll'.from = Larger(floorId, cursor - LOOKBACK_IDS)
    BY <1>3 DEF PollStarts, From
  <2>2. UNCHANGED <<cursor, floorId>>
    BY <1>3 DEF PollStarts, hub
  <2>3. cursor - LOOKBACK_IDS <= Larger(Larger(floorId, cursor - LOOKBACK_IDS), floorId)
    BY <1>t DEF Larger
  <2> QED
    BY <2>1, <2>2, <2>3
<1>4. CASE liveEventsSince
  <2>1. /\ poll.at = "asked" /\ poll'.at = "answered" /\ poll'.rows = Selected(poll.from)
        /\ UNCHANGED <<cursor, floorId>>
    BY <1>t, <1>4 DEF liveEventsSince, hub
  <2>2. \A e \in Selected(poll.from) : e \in Id /\ e > poll.from
    BY DEF Selected, Visible
  <2>3. poll.from \in 0..MaxId
    BY <1>t
  <2>4. \A e \in Selected(poll.from) : e > floorId => e > cursor - LOOKBACK_IDS
    BY <1>t, <2>1, <2>2, <2>3 DEF Larger, Id
  <2> QED
    BY <2>1, <2>4
<1>5. CASE PollFails \/ FanOut
  <2>1. poll'.at = "idle"
    BY <1>5 DEF PollFails, FanOut, Idle
  <2> QED
    BY <2>1
<1>6. CASE UNCHANGED vars
  BY <1>6 DEF vars, hub
<1> QED
  BY <1>1, <1>2, <1>3, <1>4, <1>5, <1>6 DEF Next, Done, Writers, Viewer


LEMMA LargerGrows ==
    ASSUME NEW a \in Int, NEW b \in Int, NEW c \in Int, NEW e \in Int, NEW n \in Int,
           b <= c, e <= Larger(a, b - n)
    PROVE  e <= Larger(a, c - n)
  BY DEF Larger

LEMMA HandedStep ==
    ASSUME Sizes, HubInv, [Next]_vars PROVE Handed'
<1> USE DEF HubInv, HubBase, Sizes
<1>t. /\ cursor \in 0..MaxId /\ floorId \in 0..MaxId /\ subs \subseteq Conn
      /\ conn \in [Conn -> {"new", "asking", "answered", "on", "gone"}]
      /\ got \in [Conn -> [Id -> 0..2]]
      /\ \A e \in Id : e \in Int
  BY DEF TypeOK, Id
<1>1. ASSUME NEW c \in Conn, Viewer(c) PROVE Handed'
  <2>1. UNCHANGED got
    BY <1>1 DEF Viewer, Connect, maxLiveEventId, SeedFails, Seeded, Close, Saturate
  <2>2. \A d \in Conn : conn'[d] \in {"new", "asking", "answered"} =>
                          conn[d] \in {"new", "asking", "answered"}
    BY <1>t, <1>1 DEF Viewer, Connect, maxLiveEventId, SeedFails, Seeded, Close, Saturate
  <2>3. CASE Seeded(c)
    <3>1. subs = {} /\ conn[c] = "answered"
      BY <2>3 DEF Seeded, Seeding
    <3>2. subs' \subseteq {c}
      BY <2>3, <3>1 DEF Seeded, Join
    <3>3. \A e \in Id : got[c][e] = 0
      BY <3>1 DEF Handed
    <3> QED
      BY <2>1, <2>2, <3>2, <3>3 DEF Handed
  <2>4. CASE Connect(c)
    <3>1. conn[c] = "new" /\ subs' \subseteq subs \union {c}
          /\ UNCHANGED <<cursor, floorId, delivered>>
      BY <2>4 DEF Connect, Join
    <3>2. \A e \in Id : got[c][e] = 0
      BY <3>1 DEF Handed
    <3> QED
      BY <2>1, <2>2, <3>1, <3>2 DEF Handed, OutOfReach
  <2>5. CASE maxLiveEventId(c) \/ SeedFails(c) \/ Close(c) \/ Saturate(c)
    <3>1. subs' \subseteq subs /\ UNCHANGED <<cursor, floorId, delivered>>
      BY <2>5 DEF maxLiveEventId, SeedFails, Close, Unsubscribe, Saturate, hub
    <3> QED
      BY <2>1, <2>2, <3>1 DEF Handed, OutOfReach
  <2> QED
    BY <1>1, <2>3, <2>4, <2>5 DEF Viewer
<1>2. ASSUME Writers \/ Reading PROVE Handed'
  <2>1. UNCHANGED <<hub, viewers, got>>
    BY <1>2, WritersWrite DEF Reading, PollStarts, liveEventsSince, PollFails
  <2> QED
    BY <2>1 DEF hub, viewers, Handed, OutOfReach
<1>3. ASSUME FanOut PROVE Handed'
  <2>1. /\ cursor' \in 0..MaxId /\ cursor <= cursor' /\ floorId' = floorId
        /\ \A e \in delivered \cup Fresh :
              e \in delivered' \/ e <= Larger(floorId, cursor' - LOOKBACK_IDS)
    BY <1>3, FanOutMoves DEF FanOut
  <2>2. subs' \subseteq subs /\ \A c \in Conn : conn'[c] \in {conn[c], "gone"}
    BY <1>3 DEF FanOut, Unsubscribe
  <2>3. \A e \in Fresh : /\ e > floorId /\ e \notin delivered
                         /\ e > cursor - LOOKBACK_IDS
    <3>1. \A e \in Fresh : e \in Id /\ e \in poll.rows
      BY DEF Fresh, TypeOK
    <3>2. \A e \in Fresh : e \in poll.rows /\ e > floorId /\ e \notin delivered
      BY <1>t, <3>1 DEF Fresh
    <3> QED
      BY <1>3, <3>2 DEF FanOut, Reach
  <2>4. \A c \in subs, e \in Fresh : e \in Id => got[c][e] = 0
    <3> SUFFICES ASSUME NEW c \in subs, NEW e \in Fresh, e \in Id, got[c][e] > 0
                 PROVE  FALSE
      BY <1>t
    <3>1. OutOfReach(e)
      BY <2>3 DEF Handed
    <3> QED
      BY <1>t, <2>3, <3>1 DEF OutOfReach, Larger
  <2>5. \A c \in Conn, e \in Id :
           got'[c][e] = IF e \in Fresh /\ c \in subs \ slow /\ got[c][e] < 2
                          THEN got[c][e] + 1 ELSE got[c][e]
    BY <1>3 DEF FanOut
  <2>6. ASSUME NEW c \in Conn, NEW e \in Id PROVE got'[c][e] <= 1
    BY <1>t, <2>4, <2>5, <2>6 DEF Handed
  <2>7. ASSUME NEW c \in Conn, conn'[c] \in {"new", "asking", "answered"}, NEW e \in Id
        PROVE  got'[c][e] = 0
    <3>1. conn[c] \in {"new", "asking", "answered"}
      BY <2>2, <2>7
    <3>2. c \notin subs
      BY <3>1 DEF Subscribed
    <3> QED
      BY <2>5, <3>1, <3>2 DEF Handed
  <2>8. ASSUME NEW c \in Conn, c \in subs', NEW e \in Id, got'[c][e] > 0
        PROVE  e > floorId /\ (e \in delivered' \/ e <= Larger(floorId, cursor' - LOOKBACK_IDS))
    <3>1. c \in subs
      BY <2>2, <2>8
    <3>2. CASE e \in Fresh
      BY <2>1, <2>3, <3>2
    <3>3. CASE e \notin Fresh
      <4>1. e > floorId /\ (e \in delivered \/ OutOfReach(e))
        BY <2>5, <2>8, <3>1, <3>3 DEF Handed
      <4>2. OutOfReach(e) => e <= Larger(floorId, cursor' - LOOKBACK_IDS)
        <5>1. PICK a \in Int, b \in Int, d \in Int :
                 a = floorId /\ b = cursor /\ d = cursor' /\ b <= d
          BY <1>t, <2>1
        <5>2. e \in Int
          BY <1>t
        <5> QED
          BY <5>1, <5>2, LargerGrows DEF OutOfReach
      <4> QED
        BY <2>1, <4>1, <4>2
    <3> QED
      BY <3>2, <3>3
  <2>9. subs' \subseteq Conn
    BY <1>t, <2>2
  <2> QED
    BY <2>1, <2>6, <2>7, <2>8, <2>9 DEF Handed, OutOfReach
<1>4. CASE UNCHANGED vars
  BY <1>4 DEF vars, hub, viewers, Handed, OutOfReach
<1> QED
  BY <1>1, <1>2, <1>3, <1>4 DEF Next, Done, Writers, Viewer, Reading

LEMMA PastStep ==
    ASSUME Sizes, ~Overlap, HubInv, [Next]_vars PROVE Past'
<1> USE DEF HubInv, HubBase, Sizes, Past
<1>t. /\ conn \in [Conn -> {"new", "asking", "answered", "on", "gone"}]
      /\ seed \in [Conn -> 0..MaxId] /\ history \subseteq Id
      /\ \A e \in Id : e \in Int
  BY DEF TypeOK, Id
<1>1. ASSUME NEW c \in Conn, Viewer(c) PROVE Past'
  <2>a. Visible' = Visible
    BY <1>1 DEF Viewer, Connect, maxLiveEventId, SeedFails, Seeded, Close, Saturate, Visible
  <2>1. CASE Connect(c)
    <3>1. CASE started
      <4>1. subs # {}
        BY <2>1, <3>1 DEF Connect, Seeding
      <4>2. /\ conn' = [conn EXCEPT ![c] = "on"]
            /\ UNCHANGED <<history, blind, seed, floorId>>
        BY <2>1, <3>1 DEF Connect
      <4> QED
        BY <1>t, <2>a, <4>1, <4>2
    <3>2. CASE ~started
      <4>1. /\ subs' = {} /\ history' = Visible /\ blind' = FALSE
            /\ conn' = [conn EXCEPT ![c] = "asking"]
        BY <2>1, <3>2 DEF Connect, Seeding
      <4>2. \A d \in Conn : conn'[d] # "answered"
        BY <1>t, <2>1, <4>1 DEF Connect
      <4> QED
        BY <2>a, <4>1, <4>2
    <3> QED
      BY <3>1, <3>2
  <2>2. CASE maxLiveEventId(c)
    <3>1. /\ conn[c] = "asking" /\ conn' = [conn EXCEPT ![c] = "answered"]
          /\ seed' = [seed EXCEPT ![c] = IF Visible = {} THEN 0 ELSE Max(Visible)]
          /\ UNCHANGED <<subs, history, blind>>
      BY <2>2 DEF maxLiveEventId, hub
    <3>2. subs = {} /\ \A d \in Conn : d # c => conn[d] \notin {"asking", "answered"}
      BY <3>1 DEF Seeding
    <3>3. history \subseteq Visible
      BY <3>1
    <3>4. Visible \in SUBSET (0..MaxId)
      BY DEF Visible, Id
    <3>5. Visible # {} => \A e \in Visible : e <= Max(Visible)
      BY <3>4, MaxIsLast
    <3>6. \A e \in history : e <= seed'[c]
      BY <1>t, <3>1, <3>3, <3>5
    <3> QED
      BY <1>t, <3>1, <3>2, <3>6
  <2>3. CASE SeedFails(c)
    <3>1. /\ conn[c] = "asking" /\ conn' = [conn EXCEPT ![c] = "answered"]
          /\ blind' = TRUE /\ UNCHANGED <<subs, history>>
      BY <2>3 DEF SeedFails, hub
    <3>2. \A d \in Conn : d # c => conn[d] \notin {"asking", "answered"}
      BY <3>1 DEF Seeding
    <3> QED
      BY <1>t, <3>1, <3>2
  <2>4. CASE Seeded(c)
    <3>1. /\ conn[c] = "answered" /\ floorId' = seed[c]
          /\ UNCHANGED <<history, blind>>
      BY <2>4 DEF Seeded
    <3>2. \A d \in Conn : conn'[d] \notin {"asking", "answered"}
      BY <1>t, <2>4, <3>1 DEF Seeding, Seeded
    <3> QED
      BY <3>1, <3>2
  <2>5. CASE Close(c) \/ Saturate(c)
    <3>1. /\ subs' \subseteq subs /\ UNCHANGED <<history, blind, seed, floorId>>
          /\ \A d \in Conn : conn'[d] \in {conn[d], "gone"}
      BY <1>t, <2>5 DEF Close, Unsubscribe, Saturate, hub
    <3> QED
      BY <2>a, <3>1
  <2> QED
    BY <1>1, <2>1, <2>2, <2>3, <2>4, <2>5 DEF Viewer
<1>2. ASSUME Writers PROVE Past'
  <2>1. /\ UNCHANGED <<hub, viewers, history, blind>>
        /\ \A c \in Conn : conn[c] = "asking" => Visible \subseteq Visible'
    BY <1>2, WritersWrite
  <2> QED
    BY <2>1 DEF hub, viewers
<1>3. ASSUME Reading PROVE Past'
  BY <1>3 DEF Reading, PollStarts, liveEventsSince, PollFails, hub, viewers, Visible
<1>4. ASSUME FanOut PROVE Past'
  <2>1. /\ subs' \subseteq subs /\ UNCHANGED <<row, history, blind, seed, floorId>>
        /\ \A d \in Conn : conn'[d] \in {conn[d], "gone"}
    BY <1>4 DEF FanOut, Unsubscribe
  <2> QED
    BY <2>1 DEF Visible
<1>5. CASE UNCHANGED vars
  BY <1>5 DEF vars, hub, viewers, Visible
<1> QED
  BY <1>1, <1>2, <1>3, <1>4, <1>5 DEF Next, Done, Writers, Viewer, Reading

LEMMA HubInvariant == Sizes /\ ~Overlap => (Spec => []HubInv)
<1> SUFFICES ASSUME Sizes, ~Overlap PROVE Spec => []HubInv
  OBVIOUS
<1>1. Init => HubInv
  BY HubStart
<1>2. HubInv /\ [Next]_vars => HubInv'
  BY BaseStep, SeedingStep, ReachStep, HandedStep, PastStep DEF HubInv
<1> QED
  BY <1>1, <1>2, PTL DEF Spec

-----------------------------------------------------------------------------
(* What the hub promises.                                                  *)

\* The hub's variables have their types and its memory of ids stays within twice
\* its look-back, however many events there are (Retire in livehub.ts).
THEOREM HubMemoryBounded == Sizes => (Spec => []TypeOK)
<1> SUFFICES ASSUME Sizes PROVE Spec => []TypeOK
  OBVIOUS
<1>1. HubBase => TypeOK
  BY DEF HubBase
<1> QED
  BY <1>1, BaseInvariant, PTL

\* A connection that ended has left the hub, also when it ended while the hub was
\* being seeded or was cut off by the poll for being slow, and the interval runs
\* exactly while somebody is subscribed (subscribeLive, close in stream/route.ts).
THEOREM HubNobodyLeaked == Sizes => (Spec => []NobodyLeaked)
<1> SUFFICES ASSUME Sizes PROVE Spec => []NobodyLeaked
  OBVIOUS
<1>1. HubBase => NobodyLeaked
  BY DEF HubBase, Subscribed, NobodyLeaked
<1> QED
  BY <1>1, BaseInvariant, PTL

\* As long as viewers do not arrive while another seeds the hub, nobody is handed
\* an event twice although every poll reads a window again, and nobody is handed
\* history, also by a poll that began before the hub was seeded anew (poll).
THEOREM HubAtMostOnce == Sizes /\ ~Overlap => (Spec => []AtMostOnce)
<1> SUFFICES ASSUME Sizes, ~Overlap PROVE Spec => []AtMostOnce
  OBVIOUS
<1>1. HubInv => AtMostOnce
  <2> SUFFICES ASSUME HubInv, NEW c \in Conn, NEW e \in Id
               PROVE  got[c][e] <= IF c \in subs /\ e \in history /\ ~blind THEN 0 ELSE 1
    BY DEF AtMostOnce
  <2>1. got[c][e] \in 0..2 /\ got[c][e] <= 1 /\ e \in Int /\ floorId \in Int
    BY DEF HubInv, HubBase, TypeOK, Handed, Id, Sizes
  <2>2. c \in subs /\ e \in history /\ ~blind => got[c][e] = 0
    BY <2>1 DEF HubInv, Past, Handed
  <2> QED
    BY <2>1, <2>2
<1> QED
  BY <1>1, HubInvariant, PTL

=============================================================================
