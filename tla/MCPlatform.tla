----------------------------- MODULE MCPlatform ------------------------------
(* What the processes share through the database, each a scene of its own:   *)
(* the migrations that every process runs at its start, the live events that *)
(* ingest writes and the web application hands out ("live", and "window" with *)
(* a look-back so short that ids are retired), and the settings that the web *)
(* application saves and the ingest daemon reloads.  The variables of Migrate *)
(* keep their initial values in the other scenes.                             *)
EXTENDS Migrate, Integers, FiniteSets

CONSTANTS Conn, Sluggish, MaxId, Batch, LOOKBACK_IDS, LIMIT,     \* LiveHub
          NarrowConn, NarrowMaxId, NarrowBatch, NarrowLookback, NarrowLimit,
          Broker, Tab, Req, MaxEdits, MaxErrors, MaxHeals, MaxStarts \* Reload

\* Two migration files: "once" is a statement that fails when it is repeated.
MCFiles == <<<<"once", "again", "once">>, <<"again", "once">>>>

VARIABLES
    scene,
    row, subs, timer, started, cursor, floorId, delivered, poll, conn, closed,
    seed, slow, got, history, blind,
    table, req, edits, daemon, conns, open, job, bounds, saves

hubVars == <<row, subs, timer, started, cursor, floorId, delivered, poll,
             conn, closed, seed, slow, got, history, blind>>
setVars == <<table, req, edits, daemon, conns, open, job, bounds, saves>>
all == <<scene, vars, hubVars, setVars>>

\* A variable that the scene does not have.
Off == "off"
HubOff ==
    /\ row = Off /\ subs = Off /\ timer = Off /\ started = Off /\ cursor = Off
    /\ floorId = Off /\ delivered = Off /\ poll = Off /\ conn = Off
    /\ closed = Off /\ seed = Off /\ slow = Off /\ got = Off /\ history = Off
    /\ blind = Off
SetOff ==
    /\ table = Off /\ req = Off /\ edits = Off /\ daemon = Off /\ conns = Off
    /\ open = Off /\ job = Off /\ bounds = Off /\ saves = Off

Hub == INSTANCE LiveHub WITH Overlap <- FALSE, SeedFaults <- TRUE
Narrow == INSTANCE LiveHub WITH
    Conn <- NarrowConn, Sluggish <- {}, MaxId <- NarrowMaxId,
    Batch <- NarrowBatch, LOOKBACK_IDS <- NarrowLookback, LIMIT <- NarrowLimit,
    Overlap <- FALSE, SeedFaults <- FALSE
Set == INSTANCE Reload WITH MaxFaults <- MaxErrors, log <- saves

------------------------------------------------------------------------------
MigInit == scene = "migrate" /\ Init /\ HubOff /\ SetOff
MigStep(A) ==
    /\ scene = "migrate" /\ A
    /\ UNCHANGED <<scene, hubVars, setVars>>

HubInit == scene = "live" /\ Hub!Init /\ Init /\ SetOff
HubStep(A) ==
    /\ scene = "live" /\ A
    /\ UNCHANGED <<scene, vars, setVars>>

NarrowInit == scene = "window" /\ Narrow!Init /\ Init /\ SetOff
NarrowStep(A) ==
    /\ scene = "window" /\ A
    /\ UNCHANGED <<scene, vars, setVars>>

SetInit == scene = "reload" /\ Set!Init /\ Init /\ HubOff
SetStep(A) ==
    /\ scene = "reload" /\ A
    /\ UNCHANGED <<scene, vars, hubVars>>

MCInit == MigInit \/ HubInit \/ NarrowInit \/ SetInit

MCNext ==
    \/ MigStep(Next)
    \/ HubStep(Hub!Next)
    \/ NarrowStep(Narrow!Next)
    \/ SetStep(Set!Next)

MCSpec == MCInit /\ [][MCNext]_all

\* Each scene with the fairness of its module.
MCFairSpec ==
    /\ MCSpec
    /\ \A p \in Proc : WF_all(MigStep(runMigrations(p)))
    /\ WF_all(HubStep(Hub!PollStarts))
    /\ SF_all(HubStep(Hub!liveEventsSince))
    /\ WF_all(HubStep(Hub!FanOut))
    /\ \A c \in Conn : /\ WF_all(HubStep(Hub!maxLiveEventId(c)))
                     /\ WF_all(HubStep(Hub!Seeded(c)))

------------------------------------------------------------------------------
\* Every variable has its type; the hub's memory of ids stays bounded.
TypesOK ==
    /\ TypeOK
    /\ scene = "live"   => Hub!TypeOK
    /\ scene = "window" => Narrow!TypeOK
    /\ scene = "reload" => Set!TypeOK

\* LiveHub: a connection that ended has left the hub (livehub.ts, stream/route.ts).
NobodyLeaked == scene = "live" => Hub!NobodyLeaked

\* LiveHub: no event twice, and no history, also when ids are retired
\* (livehub.ts, poll).
AtMostOnce ==
    /\ scene = "live"   => Hub!AtMostOnce
    /\ scene = "window" => Narrow!AtMostOnce

\* LiveHub: a new event reaches every connected viewer that keeps reading,
\* unless the poll's window is full of events already handed out; c1 is the one
\* that does keep reading.
EveryEventArrives ==
    \A e \in 1..MaxId :
        (scene = "live" /\ Hub!Owed("c1", e)) ~> (scene = "live" /\ Hub!Arrived("c1", e))

\* Migrate: every process comes up in the end.
EveryoneStarts == \A p \in Proc : <>(scene = "migrate" => Started(p))

\* Reload: at rest, the ingest daemon runs what the tables say (ingest/index.ts).
QuietMeansCurrent == scene = "reload" => Set!QuietMeansCurrent
==============================================================================
