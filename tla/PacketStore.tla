----------------------------- MODULE PacketStore -----------------------------
(* What one envelope does to the database: applyEnvelope of                  *)
(* src/ingest/pipeline.ts, as an operator from a store to a store.           *)
(*                                                                           *)
(* A store is a record of the tables the statements touch:                   *)
(*   pkt    packets rows, keyed by uq_dedup: <<mid, first_seen_at>>          *)
(*   rx     receptions rows, keyed by uq_rx: <<packet, gateway, rx_time>>,   *)
(*          each with its transport                                          *)
(*   folds  how often a traceroute of a mid was folded into the topology     *)
(*   packets, heard   nodes.total_packet_count and total_reception_count,    *)
(*          summed over the nodes                                            *)
(* A mid stands for the pair (from_node_id, mesh_packet_id).  Payloads are   *)
(* reduced to two facts of a copy: whether it carries a parsed payload and   *)
(* whether it knows the channel name.                                        *)
EXTENDS Integers, FiniteSets

CONSTANTS
    Mid,        \* mesh packets
    NoId,       \* the mid of packets that carry no packet id
    Traced,     \* the mids whose payload is a traceroute
    Gateway,
    Window,     \* ingest.idempotency_window_seconds
    Skew,       \* MAX_FUTURE_SKEW_MS
    Plausible   \* MIN_PLAUSIBLE_MS

ASSUME PacketStoreAssumption ==
    /\ Window \in Nat \ {0}
    /\ Skew \in Nat
    /\ Plausible \in Nat \ {0}
    /\ Traced \subseteq Mid

Via == {"json", "protobuf", "rf"}

Row == [decoded: BOOLEAN,   \* decode_status = 'decoded'
        named:   BOOLEAN,   \* channel_id IS NOT NULL
        claimed: BOOLEAN,   \* decoded_side_written
        count:   Nat,       \* reception_count
        writes:  Nat,       \* side-table rows written for the packet
        textNamed: BOOLEAN] \* the side row's channel_id IS NOT NULL

NewRow == [decoded |-> FALSE, named |-> FALSE, claimed |-> FALSE,
           count |-> 0, writes |-> 0, textNamed |-> FALSE]

EmptyStore == [pkt |-> [k \in {} |-> NewRow], rx |-> [r \in {} |-> "mqtt"],
               folds |-> [m \in Mid |-> 0], packets |-> 0, heard |-> 0]

\* f with the entry k set to v, whether or not k was in its domain.
With(f, k, v) == [x \in DOMAIN f \union {k} |-> IF x = k THEN v ELSE f[x]]

One(b) == IF b THEN 1 ELSE 0

ClockOk(rx, now) == rx >= Plausible /\ rx <= now + Skew

RxTime(c, now) == IF ClockOk(c.rx, now) THEN c.rx ELSE now

dedupBucket(t) == t \div Window

BucketStart(t) == Window * dedupBucket(t)

\* Variant: the bound that reaches one window back only.
dedupLookupRange_Tight(t) == (t - Window) .. (t + Window)

\* The first_seen_at values that could belong to another copy of the packet.
dedupLookupRange(t) == (t - 2 * Window) .. (t + Window)

Matches(db, m, t) ==
    {f \in dedupLookupRange(t) : <<m, f>> \in DOMAIN db.pkt}

Latest(S) == CHOOSE f \in S : \A g \in S : g <= f

\* The packets row an envelope belongs to: a row within reach of its rx time,
\* else the bucket the rx time falls in; a packet without an id gets its own.
FirstSeen(db, m, t) ==
    IF m = NoId THEN t
    ELSE IF Matches(db, m, t) = {} THEN BucketStart(t)
    ELSE Latest(Matches(db, m, t))

PacketKey(db, c, now) ==
    <<c.mid, FirstSeen(db, c.mid, RxTime(c, now))>>

\* Variant: receptions keyed by the time of writing.
ReceptionKey_Arrival(db, c, now) ==
    <<PacketKey(db, c, now), c.gw, now>>

ReceptionKey(db, c, now) ==
    LET k == PacketKey(db, c, now)
    IN  <<k, c.gw, IF ClockOk(c.rx, now) THEN c.rx ELSE k[2]>>

\* A JSON traceroute is recorded as decoded although nothing was parsed.
Decoded(c) == c.parsed \/ c.via = "json"

\* The upsert of the packets row, and the backfill of the side row's channel.
Upsert(pkt, k, c) ==
    LET old == IF k \in DOMAIN pkt THEN pkt[k] ELSE NewRow
    IN  [old EXCEPT !.decoded = @ \/ Decoded(c),
                    !.named = @ \/ c.named,
                    !.textNamed = @ \/ (c.named /\ old.writes > 0)]

\* The claim of decoded_side_written, and writeDecoded for the one who gets it.
ClaimSide(row, c) ==
    IF c.parsed /\ ~row.claimed
    THEN [row EXCEPT !.claimed = TRUE, !.writes = @ + 1, !.textNamed = c.named]
    ELSE row

\* The gateway's receptions of the packet that RF would upgrade.
Upgradable(db, k, c) ==
    {r \in DOMAIN db.rx : r[1] = k /\ r[2] = c.gw /\ db.rx[r] = "mqtt"}

Upgrades(db, c, now) ==
    c.via = "rf" /\ Upgradable(db, PacketKey(db, c, now), c) # {}

NewReception(db, c, now) ==
    ~Upgrades(db, c, now) /\ ReceptionKey(db, c, now) \notin DOMAIN db.rx

Transport(c) == IF c.via = "rf" THEN "rf" ELSE "mqtt"

\* The receptions after the copy: upgraded in place to RF, or one row more, or
\* left alone by INSERT IGNORE.
Received(db, c, now) ==
    IF Upgrades(db, c, now)
    THEN [r \in DOMAIN db.rx |->
            IF r \in Upgradable(db, PacketKey(db, c, now), c) THEN "rf" ELSE db.rx[r]]
    ELSE IF NewReception(db, c, now)
    THEN With(db.rx, ReceptionKey(db, c, now), Transport(c))
    ELSE db.rx

\* Counters, nodes and the traceroute fold are only reached by a copy that is
\* a new reception; the claim of the side tables is reached by every copy.
applyEnvelope(db, c, now) ==
    LET k       == PacketKey(db, c, now)
        counted == NewReception(db, c, now)
        first   == counted /\ k \notin DOMAIN db.pkt
        row     == [Upsert(db.pkt, k, c) EXCEPT !.count = @ + One(counted)]
    IN  [pkt     |-> With(db.pkt, k, ClaimSide(row, c)),
         rx      |-> Received(db, c, now),
         folds   |-> [db.folds EXCEPT ![c.mid] =
                        @ + One(first /\ c.parsed /\ c.mid \in Traced)],
         packets |-> db.packets + One(first),
         heard   |-> db.heard + One(counted)]

-------------------------------------------------------------------------------
(* What must be true of the store.                                           *)

\* Two packets rows of one mid are more than a window apart: copies that
\* belong to one logical packet are never split over two rows, whatever the
\* order and the bucket boundaries (pipeline.ts, the rolling lookup).
RowsApart(db) ==
    \A k1, k2 \in DOMAIN db.pkt :
        (k1 # k2 /\ k1[1] = k2[1] /\ k1[1] # NoId)
            => (k1[2] - k2[2] > Window \/ k2[2] - k1[2] > Window)

\* Every counter equals the rows it counts, although statements are rolled
\* back, retried and repeated (pipeline.ts, the increments under the
\* idempotent reception insert).
CountersExact(db) ==
    /\ db.packets = Cardinality(DOMAIN db.pkt)
    /\ db.heard = Cardinality(DOMAIN db.rx)
    /\ \A k \in DOMAIN db.pkt :
           db.pkt[k].count = Cardinality({r \in DOMAIN db.rx : r[1] = k})
    /\ \A m \in Mid : db.folds[m] <= Cardinality({k \in DOMAIN db.pkt : k[1] = m})

\* A packet marked decoded has its side row, and one only; a JSON traceroute
\* is the exception, which nothing parses (pipeline.ts, the atomic claim).
SideTablesOnce(db) ==
    \A k \in DOMAIN db.pkt :
        /\ db.pkt[k].writes = One(db.pkt[k].claimed)
        /\ (db.pkt[k].decoded /\ k[1] \notin Traced) => db.pkt[k].claimed

\* A gateway has one reception of a logical packet (uq_rx, and the RF upgrade
\* that replaces the gateway's own uplink instead of adding a row).
ReceptionOnce(db) ==
    \A r1, r2 \in DOMAIN db.rx :
        (r1[1] = r2[1] /\ r1[2] = r2[2] /\ r1[1][1] # NoId) => r1 = r2
===============================================================================
