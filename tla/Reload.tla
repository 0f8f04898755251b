------------------------------- MODULE Reload -------------------------------
(* How an admin's edit reaches the running ingest daemon: the web routes      *)
(* write a broker, a channel key or the one overrides document and then       *)
(* advance the revision (db/settings.ts, db/appsettings.ts); ingest polls the *)
(* revision, rebuilds its broker connectors when their rows changed, and      *)
(* refreshes the rest in place (ingest/index.ts); a watchdog rebuilds a       *)
(* connector that went silent.                                                *)
(*                                                                            *)
(* A row, a key or a tab of the document is the number of the edit that wrote *)
(* it.  A poll or a heal does not begin while another one is under way: the   *)
(* timers leave 5 and 30 seconds and do not wait, but that long is the bound. *)
EXTENDS Integers, Sequences, FiniteSets, SequencesExt, FiniteSetsExt

CONSTANTS Broker,     \* ids of the broker rows
          Tab,        \* settings tabs, each a part of the overrides document
          Req,        \* web requests under way at the same time
          MaxEdits, MaxFaults, MaxHeals, MaxStarts

VARIABLES
    table,   \* MySQL: the rows, the channel keys, the document, the revision
    req,     \* the web requests
    edits,   \* edits begun
    daemon,  \* what ingest has in memory
    conns,   \* its `connectors`
    open,    \* connectors whose MQTT client is running
    job,     \* the reload, poll or heal under way
    bounds,  \* faults, heals and starts spent
    log      \* history: the saved tabs, and whether a reload was cut short

vars == <<table, req, edits, daemon, conns, open, job, bounds, log>>

None    == [b \in {} |-> 0]          \* effectiveConfig() could not be read
NoFp    == -1
Edition == 0..MaxEdits
Idle    == [at |-> "idle", boot |-> FALSE, doc |-> None, stop |-> {}, slot |-> 0]
NoReq   == [at |-> "idle", tab |-> "none", n |-> 0, doc |-> None]
Down    == [up |-> FALSE, keys |-> 0, eff |-> None, lastFp |-> NoFp,
            sig |-> None, brokers |-> None]

Docs == [Tab -> Edition] \union {None}
Rows == [Broker -> Edition] \union {None}

TypeOK ==
    /\ table.broker \in [Broker -> Edition] /\ table.keys \in Edition
    /\ table.doc \in [Tab -> Edition] /\ table.rev \in Nat
    /\ edits \in Edition
    /\ daemon.keys \in Edition /\ daemon.eff \in Docs /\ daemon.sig \in Rows
    /\ daemon.brokers \in Rows /\ daemon.lastFp \in Int
    /\ \A r \in Req : req[r].at \in {"idle", "write", "bump"}
    /\ job.at \in {"idle", "keys", "eff", "brokers", "stopping", "node", "fp", "heal"}
    /\ \A c \in open : c.broker \in Broker /\ c.edition \in Edition

Init ==
    /\ table = [broker |-> [b \in Broker |-> 0], keys |-> 0,
                doc |-> [t \in Tab |-> 0], rev |-> 0]
    /\ req = [r \in Req |-> NoReq]
    /\ edits = 0
    /\ daemon = Down /\ conns = <<>> /\ open = {} /\ job = Idle
    /\ bounds = [faults |-> 0, heals |-> 0, starts |-> 0]
    /\ log = [saved |-> [t \in Tab |-> 0], missed |-> FALSE]

ingest == <<daemon, conns, open, job, bounds>>

-----------------------------------------------------------------------------
(* The web application                                                       *)

Begin(r) == req[r].at = "idle" /\ edits < MaxEdits /\ edits' = edits + 1

upsertBroker_Unannounced(r, b) ==
    /\ Begin(r)
    /\ \E n \in {edits', 0} :
         /\ table.broker[b] # n
         /\ table' = [table EXCEPT !.broker[b] = n]
    /\ UNCHANGED <<req, log, ingest>>

\* upsertBroker and deleteBroker (edition 0): the row now, the revision next.
upsertBroker(r, b) ==
    /\ Begin(r)
    /\ \E n \in {edits', 0} :
         /\ table.broker[b] # n
         /\ table' = [table EXCEPT !.broker[b] = n]
    /\ req' = [req EXCEPT ![r].at = "bump"]
    /\ UNCHANGED <<log, ingest>>

upsertChannelKey(r) ==
    /\ Begin(r)
    /\ table' = [table EXCEPT !.keys = edits']
    /\ req' = [req EXCEPT ![r].at = "bump"]
    /\ UNCHANGED <<log, ingest>>

\* saveOverrides: read the whole document ...
ReadOverrides(r, t) ==
    /\ Begin(r)
    /\ req' = [req EXCEPT ![r] = [at |-> "write", tab |-> t, n |-> edits', doc |-> table.doc]]
    /\ UNCHANGED <<table, log, ingest>>

\* ... and write it back with the tab merged in.
WriteOverrides(r) ==
    /\ req[r].at = "write"
    /\ table' = [table EXCEPT !.doc = [req[r].doc EXCEPT ![req[r].tab] = req[r].n]]
    /\ log' = [log EXCEPT !.saved[req[r].tab] = req[r].n]
    /\ req' = [req EXCEPT ![r] = [NoReq EXCEPT !.at = "bump"]]
    /\ UNCHANGED <<edits, ingest>>

bumpRev(r) ==
    /\ req[r].at = "bump"
    /\ table' = [table EXCEPT !.rev = @ + 1]
    /\ req' = [req EXCEPT ![r] = NoReq]
    /\ UNCHANGED <<edits, log, ingest>>

-----------------------------------------------------------------------------
(* The connectors                                                            *)

NextId == 1 + Max({0} \union {c.id : c \in open \union Range(conns)})

\* brokers.map(makeConnector): one per enabled row, in the order of the ids.
MakeConnectors(rows) ==
    LET ids == SetToSeq({b \in Broker : rows[b] > 0})
    IN  [i \in 1..Len(ids) |->
           [broker |-> ids[i], edition |-> rows[ids[i]], id |-> NextId + i - 1]]

\* What a reload does when it stops half way: thrown to the poll's catch, or out
\* of main() while starting, which ends the process.
Abort ==
    /\ log' = [log EXCEPT !.missed = TRUE]
    /\ job' = Idle
    /\ IF job.boot THEN daemon' = Down /\ conns' = <<>> /\ open' = {}
                   ELSE UNCHANGED <<daemon, conns, open>>

QueryFails ==
    /\ job.at \in {"keys", "brokers"}
    /\ bounds.faults < MaxFaults
    /\ bounds' = [bounds EXCEPT !.faults = @ + 1]
    /\ Abort
    /\ UNCHANGED <<table, req, edits>>

web == <<table, req, edits>>

-----------------------------------------------------------------------------
(* reload()                                                                  *)

getChannelKeys ==
    /\ job.at = "keys"
    /\ daemon' = [daemon EXCEPT !.keys = table.keys]
    /\ job' = [job EXCEPT !.at = "eff"]
    /\ UNCHANGED <<web, conns, open, bounds, log>>

\* When it cannot be read the bridge goes off, and the node's receiver with it.
effectiveConfig ==
    /\ job.at = "eff"
    /\ \/ /\ daemon' = [daemon EXCEPT !.eff = table.doc]
          /\ job' = [job EXCEPT !.at = "brokers", !.doc = table.doc]
          /\ UNCHANGED <<bounds, log>>
       \/ /\ bounds.faults < MaxFaults
          /\ bounds' = [bounds EXCEPT !.faults = @ + 1]
          /\ log' = [log EXCEPT !.missed = TRUE]
          /\ daemon' = [daemon EXCEPT !.eff = None]
          /\ job' = [job EXCEPT !.at = "brokers", !.doc = None]
    /\ UNCHANGED <<web, conns, open>>

\* Only rows that changed cost the connections; every client is told to end.
getRuntimeBrokers ==
    /\ job.at = "brokers"
    /\ daemon' = [daemon EXCEPT !.brokers = table.broker, !.sig = table.broker]
    /\ job' = IF table.broker = daemon.sig THEN [job EXCEPT !.at = "node"]
              ELSE [job EXCEPT !.at = "stopping", !.stop = Range(conns)]
    /\ UNCHANGED <<web, conns, open, bounds, log>>

\* All have ended: the list is replaced by a new one.
RestartConnectors ==
    /\ job.at = "stopping"
    /\ conns' = MakeConnectors(daemon.brokers)
    /\ open' = (open \ job.stop) \union Range(conns')
    /\ job' = [job EXCEPT !.at = "node", !.stop = {}]
    /\ UNCHANGED <<web, daemon, bounds, log>>

\* The receiver is started, stopped or replaced; a poll's reload has ended, and
\* whatever an earlier one missed has been made up for.
NodeReceiver ==
    /\ job.at = "node"
    /\ job' = IF job.boot THEN [job EXCEPT !.at = "fp"] ELSE Idle
    /\ log' = [log EXCEPT !.missed = (job.doc = None)]
    /\ UNCHANGED <<web, daemon, conns, open, bounds>>

-----------------------------------------------------------------------------
(* main(), the poll and the watchdog                                         *)

\* The daemon starts, with a reload of its own.
Start ==
    /\ job.at = "idle" /\ ~daemon.up /\ bounds.starts < MaxStarts
    /\ bounds' = [bounds EXCEPT !.starts = @ + 1]
    /\ daemon' = [Down EXCEPT !.up = TRUE]
    /\ job' = [Idle EXCEPT !.at = "keys", !.boot = TRUE]
    /\ UNCHANGED <<web, conns, open, log>>

\* The revision is read when the first reload is done: an edit in between is
\* taken for one that the reload has seen.
FirstFingerprint ==
    /\ job.at = "fp"
    /\ daemon' = [daemon EXCEPT !.lastFp = table.rev]
    /\ job' = Idle
    /\ log' = [log EXCEPT !.missed = @ \/ table.broker # daemon.brokers
                                       \/ table.doc # daemon.eff \/ table.keys # daemon.keys]
    /\ UNCHANGED <<web, conns, open, bounds>>

\* The revision is remembered before the reload that it announces.
Poll ==
    /\ job.at = "idle" /\ daemon.up /\ table.rev # daemon.lastFp
    /\ daemon' = [daemon EXCEPT !.lastFp = table.rev]
    /\ job' = [Idle EXCEPT !.at = "keys"]
    /\ UNCHANGED <<web, conns, open, bounds, log>>

\* A connector has been silent for too long: it is stopped, and another one made
\* from the row as the last reload read it.
runWatchdog ==
    /\ job.at = "idle" /\ daemon.up /\ bounds.heals < MaxHeals
    /\ \E i \in DOMAIN conns :
         /\ daemon.brokers[conns[i].broker] > 0
         /\ job' = [Idle EXCEPT !.at = "heal", !.slot = i]
    /\ bounds' = [bounds EXCEPT !.heals = @ + 1]
    /\ UNCHANGED <<web, daemon, conns, open, log>>

Healed ==
    /\ job.at = "heal"
    /\ LET old == conns[job.slot]
           new == [broker |-> old.broker, edition |-> daemon.brokers[old.broker], id |-> NextId]
       IN  /\ conns' = [conns EXCEPT ![job.slot] = new]
           /\ open' = (open \ {old}) \union {new}
    /\ job' = Idle
    /\ UNCHANGED <<web, daemon, bounds, log>>

\* The process is killed, at any await.
Kill ==
    /\ daemon.up /\ bounds.starts < MaxStarts
    /\ daemon' = Down /\ conns' = <<>> /\ open' = {} /\ job' = Idle
    /\ UNCHANGED <<web, bounds, log>>

reload == getChannelKeys \/ effectiveConfig \/ getRuntimeBrokers \/ RestartConnectors \/ NodeReceiver
main   == Start \/ FirstFingerprint \/ Poll \/ Healed \/ reload

Admin(r) == \/ \E b \in Broker : upsertBroker(r, b)
            \/ \E t \in Tab : ReadOverrides(r, t)
            \/ upsertChannelKey(r)

Next == main \/ QueryFails \/ runWatchdog \/ Kill
        \/ \E r \in Req : Admin(r) \/ WriteOverrides(r) \/ bumpRev(r)

Spec == Init /\ [][Next]_vars
FairSpec == Spec /\ WF_vars(main) /\ \A r \in Req : WF_vars(WriteOverrides(r) \/ bumpRev(r))

-----------------------------------------------------------------------------
(* Properties                                                                *)

Current ==
    /\ daemon.keys = table.keys /\ daemon.eff = table.doc
    /\ open = Range(conns) /\ Len(conns) = Cardinality(open)
    /\ {<<c.broker, c.edition>> : c \in open}
         = {<<b, table.broker[b]>> : b \in {b \in Broker : table.broker[b] > 0}}
    /\ \A c, d \in open : c.broker = d.broker => c = d

\* Once the daemon has seen the last revision and is at rest it runs what the
\* tables say, each enabled broker by one connection of its last edition and
\* nothing else, whatever was edited, healed, killed or cut short before: only
\* the last reload may have missed something, by an error or while starting.
QuietMeansCurrent ==
    /\ daemon.up /\ job.at = "idle" /\ daemon.lastFp = table.rev
    /\ \A r \in Req : req[r].at # "bump"
    /\ ~log.missed
    => Current

\* "Hot-reload of broker/key/forwarding changes within ~5s (no restart needed)":
\* a revision that a running daemon has not seen comes to be what it runs.
HotReload ==
    daemon.up /\ ~job.boot /\ daemon.lastFp # table.rev ~> Current \/ ~daemon.up

\* A tab that was saved keeps what was saved last: a save merges into the rest.
SavesSurvive == table.doc = log.saved
=============================================================================
