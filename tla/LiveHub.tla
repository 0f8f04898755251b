------------------------------- MODULE LiveHub -------------------------------
(* lib/livehub.ts and app/api/v1/live/stream/route.ts: the one tailer of      *)
(* live_events that the web process runs for all its SSE connections.         *)
(*                                                                            *)
(* Two processes write events.  Ingest inserts a batch of them inside its     *)
(* flush transaction, so their ids are taken before they become visible; the  *)
(* worker inserts one at a time with autocommit.  The hub polls by id, looks  *)
(* LOOKBACK_IDS back, and hands every id it has not seen yet to everybody     *)
(* connected.  Payloads, event types and the keepalive are left out.          *)
EXTENDS Integers, FiniteSets, FiniteSetsExt

CONSTANTS Conn,          \* SSE connections
          Sluggish,      \* those whose client may stop reading for a while
          MaxId,         \* bound on the ids of live_events
          Batch,         \* events of one ingest transaction
          LOOKBACK_IDS,  \* how far below the cursor a poll reads
          LIMIT,         \* rows a poll reads at most
          Overlap,       \* may a viewer arrive while another one seeds the hub?
          SeedFaults     \* may reading the highest id fail?

Id == 1..MaxId

VARIABLES
    row,        \* live_events: "free", "open" (uncommitted), "in", "out"
    subs, timer, started, cursor, floorId, delivered, \* the module's state
    poll,       \* the poll under way: where it is, its lower bound, its rows
    conn,       \* each connection: new, asking, answered, on, gone
    closed,     \* connections whose close() has run
    seed,       \* the MAX(id) a seeding connection was answered
    slow,       \* connections whose buffer is full
    got,        \* history: how often each connection was handed each event
    history,    \* history: what was in the table when the hub started
    blind       \* history: the read of MAX(id) failed then

hub     == <<subs, timer, started, cursor, floorId, delivered>>
viewers == <<conn, closed, seed, slow>>
vars    == <<row, hub, poll, viewers, got, history, blind>>

Visible == {i \in Id : row[i] = "in"}
Open    == {i \in Id : row[i] = "open"}
Free    == {i \in Id : row[i] = "free"}
Idle    == [at |-> "idle", from |-> 0, rows |-> {}]

Larger(a, b) == IF a > b THEN a ELSE b
\* The tail without the look-back.
From_CursorOnly == cursor

From == Larger(floorId, cursor - LOOKBACK_IDS)

\* SELECT ... WHERE id > ? ORDER BY id ASC LIMIT 500
Selected(from) ==
    LET above == {i \in Visible : i > from}
    IN {i \in above : Cardinality({j \in above : j <= i}) <= LIMIT}

TypeOK ==
    /\ row \in [Id -> {"free", "open", "in", "out"}]
    /\ subs \subseteq Conn /\ timer \in BOOLEAN /\ started \in BOOLEAN
    /\ cursor \in 0..MaxId /\ floorId \in 0..MaxId
    /\ delivered \subseteq Id /\ Cardinality(delivered) <= 2 * LOOKBACK_IDS
    /\ poll \in [at : {"idle", "asked", "answered"}, from : 0..MaxId,
                 rows : SUBSET Id]
    /\ conn \in [Conn -> {"new", "asking", "answered", "on", "gone"}]
    /\ closed \subseteq Conn /\ slow \subseteq Conn
    /\ seed \in [Conn -> 0..MaxId]
    /\ got \in [Conn -> [Id -> 0..2]]
    /\ history \subseteq Id /\ blind \in BOOLEAN

Init ==
    /\ row = [i \in Id |-> IF i = 1 THEN "in" ELSE "free"]
    /\ subs = {} /\ timer = FALSE /\ started = FALSE
    /\ cursor = 0 /\ floorId = 0 /\ delivered = {}
    /\ poll = Idle
    /\ conn = [c \in Conn |-> "new"] /\ closed = {} /\ slow = {}
    /\ seed = [c \in Conn |-> 0]
    /\ got = [c \in Conn |-> [i \in Id |-> 0]]
    /\ history = {} /\ blind = FALSE

-----------------------------------------------------------------------------
(* The writers                                                               *)

\* One ingest transaction at a time: BatchWriter never runs two flushes.
InsertBatch ==
    /\ Open = {} /\ Cardinality(Free) >= Batch
    /\ LET first == Min(Free)
       IN row' = [i \in Id |-> IF i \in first..(first + Batch - 1) THEN "open" ELSE row[i]]
    /\ UNCHANGED <<hub, poll, viewers, got, history, blind>>

CommitBatch ==
    /\ Open # {}
    /\ row' = [i \in Id |-> IF i \in Open THEN "in" ELSE row[i]]
    /\ UNCHANGED <<hub, poll, viewers, got, history, blind>>

RollbackBatch ==
    /\ Open # {}
    /\ row' = [i \in Id |-> IF i \in Open THEN "out" ELSE row[i]]
    /\ UNCHANGED <<hub, poll, viewers, got, history, blind>>

\* emitTxState.  While a batch is open the ids taken behind it stay within the
\* look-back window: that is what LOOKBACK_IDS is sized for.
emitTxState ==
    /\ Free # {}
    /\ Open # {} => Min(Free) - Min(Open) < LOOKBACK_IDS
    /\ row' = [row EXCEPT ![Min(Free)] = "in"]
    /\ UNCHANGED <<hub, poll, viewers, got, history, blind>>

\* Retention deletes what is minutes old.  That is hundreds of polls: while
\* anybody is connected no row goes that a poll would hand out.  No transaction
\* and no query lasts as long.
TrimLiveEvents ==
    /\ poll = Idle /\ Open = {}
    /\ \A c \in Conn : conn[c] \notin {"asking", "answered"}
    /\ \E n \in Visible :
         LET old == {i \in Visible : i <= n}
         IN /\ subs # {} => old \intersect (Selected(From) \ delivered) = {}
            /\ row' = [i \in Id |-> IF i \in old THEN "out" ELSE row[i]]
    /\ UNCHANGED <<hub, poll, viewers, got, history, blind>>

-----------------------------------------------------------------------------
(* subscribeLive and its caller, the GET handler                             *)

\* subs.add and the timer: the end of subscribeLive.
Join(c) ==
    /\ subs' = subs \union {c}
    /\ timer' = TRUE

\* The unsubscribe function, for the connections in gone.
Unsubscribe(gone) ==
    /\ subs' = subs \ gone
    /\ IF subs' = {} /\ timer
       THEN timer' = FALSE /\ started' = FALSE
       ELSE UNCHANGED <<timer, started>>

\* A request arrives.  The first viewer starts the hub and asks for MAX(id).
Connect(c) ==
    /\ conn[c] = "new"
    /\ Overlap \/ \A d \in Conn : conn[d] \notin {"asking", "answered"}
    /\ IF started
       THEN /\ Join(c)
            /\ conn' = [conn EXCEPT ![c] = "on"]
            /\ UNCHANGED <<started, history, blind>>
       ELSE /\ started' = TRUE
            /\ conn' = [conn EXCEPT ![c] = "asking"]
            /\ history' = Visible /\ blind' = FALSE
            /\ UNCHANGED <<subs, timer>>
    /\ UNCHANGED <<row, cursor, floorId, delivered, poll, closed, seed, slow, got>>

maxLiveEventId(c) ==
    /\ conn[c] = "asking"
    /\ conn' = [conn EXCEPT ![c] = "answered"]
    /\ seed' = [seed EXCEPT ![c] = IF Visible = {} THEN 0 ELSE Max(Visible)]
    /\ UNCHANGED <<row, hub, poll, closed, slow, got, history, blind>>

\* catch { cursor = 0 }
SeedFails(c) ==
    /\ SeedFaults
    /\ conn[c] = "asking"
    /\ conn' = [conn EXCEPT ![c] = "answered"]
    /\ seed' = [seed EXCEPT ![c] = 0]
    /\ blind' = TRUE
    /\ UNCHANGED <<row, hub, poll, closed, slow, got, history>>

\* The abort during the wait is not looked at again.
Seeded_ForgetsAbort(c) ==
    /\ conn[c] = "answered"
    /\ cursor' = seed[c] /\ floorId' = seed[c] /\ delivered' = {}
    /\ conn' = [conn EXCEPT ![c] = IF c \in closed THEN "gone" ELSE "on"]
    /\ Join(c)
    /\ UNCHANGED <<row, poll, closed, started, seed, slow, got, history, blind>>

\* The continuation of subscribeLive, and of the handler behind it: "everything
\* already in the table is history", and a client that went away meanwhile is
\* unsubscribed at once.
Seeded(c) ==
    /\ conn[c] = "answered"
    /\ cursor' = seed[c] /\ floorId' = seed[c] /\ delivered' = {}
    /\ IF c \in closed
       THEN /\ conn' = [conn EXCEPT ![c] = "gone"]
            /\ timer' = (subs # {})
            /\ started' = (started /\ subs # {})
            /\ UNCHANGED subs
       ELSE /\ conn' = [conn EXCEPT ![c] = "on"]
            /\ Join(c)
            /\ UNCHANGED started
    /\ seed' = [seed EXCEPT ![c] = 0]
    /\ UNCHANGED <<row, poll, closed, slow, got, history, blind>>

\* The abort signal or cancel(): close() runs once; while subscribeLive is
\* still waiting there is nothing to unsubscribe yet.
Close(c) ==
    /\ conn[c] \in {"asking", "answered", "on"} /\ c \notin closed
    /\ closed' = closed \union {c}
    /\ IF conn[c] = "on"
       THEN Unsubscribe({c}) /\ conn' = [conn EXCEPT ![c] = "gone"]
       ELSE UNCHANGED <<subs, timer, started, conn>>
    /\ UNCHANGED <<row, cursor, floorId, delivered, poll, seed, slow, got, history, blind>>

\* The client stops reading, or catches up.
Saturate(c) ==
    /\ conn[c] = "on" /\ c \in Sluggish
    /\ slow' = IF c \in slow THEN slow \ {c} ELSE slow \union {c}
    /\ UNCHANGED <<row, hub, poll, conn, closed, seed, got, history, blind>>

-----------------------------------------------------------------------------
(* poll                                                                      *)

PollStarts ==
    /\ timer /\ poll.at = "idle"
    /\ poll' = [at |-> "asked", from |-> From, rows |-> {}]
    /\ UNCHANGED <<row, hub, viewers, got, history, blind>>

liveEventsSince ==
    /\ poll.at = "asked"
    /\ poll' = [poll EXCEPT !.at = "answered", !.from = 0, !.rows = Selected(poll.from)]
    /\ UNCHANGED <<row, hub, viewers, got, history, blind>>

PollFails ==
    /\ poll.at = "asked"
    /\ poll' = Idle
    /\ UNCHANGED <<row, hub, viewers, got, history, blind>>

\* Ids are not remembered.
Fresh_Unremembered == {e \in poll.rows : e > floorId}

\* What the loop hands out: neither history nor handed out before.
Fresh == {e \in poll.rows : ~(e <= floorId \/ e \in delivered)}

\* No id is ever forgotten.
Retire_Never(ids, cur) == ids

\* Ids below the window are forgotten once the set has grown past twice its size.
Retire(ids, cur) ==
    IF Cardinality(ids) > 2 * LOOKBACK_IDS
    THEN {i \in ids : i > Larger(floorId, cur - LOOKBACK_IDS)}
    ELSE ids

\* The loop and the end of poll, in one turn of the event loop.  A slow client
\* gets nothing; one that has been slow for SATURATION_MS is closed by send.
FanOut ==
    /\ poll.at = "answered"
    /\ LET cur == IF Fresh = {} THEN cursor ELSE Larger(cursor, Max(Fresh))
       IN cursor' = cur /\ delivered' = Retire(delivered \union Fresh, cur)
    /\ got' = [c \in Conn |-> [e \in Id |->
                 IF e \in Fresh /\ c \in subs \ slow /\ got[c][e] < 2
                 THEN got[c][e] + 1 ELSE got[c][e]]]
    /\ \E tooSlow \in SUBSET (IF Fresh = {} THEN {} ELSE subs \intersect slow) :
         /\ Unsubscribe(tooSlow)
         /\ closed' = closed \union tooSlow
         /\ conn' = [c \in Conn |-> IF c \in tooSlow THEN "gone" ELSE conn[c]]
    /\ poll' = Idle
    /\ UNCHANGED <<row, floorId, seed, slow, history, blind>>

-----------------------------------------------------------------------------
\* Every request has been made and has ended, every id is used up.
Done ==
    /\ \A c \in Conn : conn[c] = "gone"
    /\ Free = {} /\ Open = {}
    /\ UNCHANGED vars

Next ==
    \/ InsertBatch \/ CommitBatch \/ RollbackBatch \/ emitTxState \/ TrimLiveEvents
    \/ \E c \in Conn : \/ Connect(c) \/ maxLiveEventId(c) \/ SeedFails(c)
                       \/ Seeded(c) \/ Close(c) \/ Saturate(c)
    \/ PollStarts \/ liveEventsSince \/ PollFails \/ FanOut
    \/ Done

\* Queries are answered, not always with an error; the interval fires.
\* Nothing is owed by viewers, writers or retention.
Fairness ==
    /\ WF_vars(PollStarts) /\ SF_vars(liveEventsSince) /\ WF_vars(FanOut)
    /\ \A c \in Conn : WF_vars(maxLiveEventId(c)) /\ WF_vars(Seeded(c))

Spec == Init /\ [][Next]_vars
FairSpec == Spec /\ Fairness

-----------------------------------------------------------------------------
(* Properties                                                                *)

\* No connection is handed one event twice, although every poll reads again what
\* earlier polls have read; and "everything already in the table is history: never
\* replay it": what was there when the first viewer started the hub is handed to
\* nobody, provided the hub could read where the table ends.
AtMostOnce ==
    \A c \in Conn, e \in Id :
        got[c][e] <= IF c \in subs /\ e \in history /\ ~blind THEN 0 ELSE 1

\* A connection that ended has left the hub, whenever its end came, and the hub
\* polls exactly as long as somebody is subscribed.
NobodyLeaked ==
    /\ \A c \in Conn : conn[c] = "gone" => c \notin subs
    /\ timer <=> subs # {}

\* A poll can return nothing new: the LIMIT oldest rows of its window have all
\* been handed out.
WindowFull ==
    /\ Cardinality(Selected(From)) = LIMIT
    /\ Selected(From) \subseteq delivered

Owed(c, e) == conn[c] = "on" /\ row[e] = "in" /\ e > floorId
              /\ e \notin delivered \union history
Excused(c, e) == conn[c] # "on" \/ c \in slow

\* A new event above the floor reaches every connected viewer that keeps reading,
\* also one whose transaction committed after later ids were handed out: unless
\* the window fills up with events already handed out.
Arrived(c, e) == got[c][e] > 0 \/ Excused(c, e) \/ WindowFull
EveryEventArrives == \A c \in Conn, e \in Id : Owed(c, e) ~> Arrived(c, e)

\* The same without the exception: "fans each event out to all connected
\* subscribers".
EveryEventReachesAll ==
    \A c \in Conn, e \in Id : Owed(c, e) ~> (got[c][e] > 0 \/ Excused(c, e))
=============================================================================
