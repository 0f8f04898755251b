-------------------------------- MODULE Relay --------------------------------
(* worker/patch.ts and worker/textfeed.ts: the two jobs of the TX loop that   *)
(* publish what ingest has stored, and mark it afterwards.                    *)
(*                                                                            *)
(* Text messages arrive over RF from the station node and over MQTT from the  *)
(* station node's own uplink or from another gateway; ingest keeps one        *)
(* reception per gateway and lets RF replace MQTT.  The patcher waits for     *)
(* hold seconds and carries a message to the transport it is missing on; the  *)
(* feed publishes every eligible message to one broker.  Bodies, channels,    *)
(* topics and the audit log are left out.                                     *)
EXTENDS Integers, FiniteSets, FiniteSetsExt

CONSTANTS Msg,       \* text messages, by id
          NativeUplink, \* does the station node uplink what it hears itself?
          Env,       \* faults that may happen: "database", "broker", "crash"
          MaxFaults

\* How a copy reaches ingest.
Copy == {<<"station", "rf">>, <<"gateway", "mqtt">>}
        \union (IF NativeUplink THEN {<<"station", "mqtt">>} ELSE {})
Transport == {"rf", "mqtt"}

VARIABLES
    msg,      \* text_message with its packets row: sender, consent, age, marks
    rec,      \* receptions of its packet
    heard,    \* history: copies that came within the hold
    pass,     \* the pass under way: job, candidates as listed, where it is
    up,       \* the broker can be reached
    uplinks,  \* how often each message was published to the local broker
    queued,   \* how often each message was put into the TX outbox
    fed,      \* how often each message was published to the feed
    faults

vars == <<msg, rec, heard, pass, up, uplinks, queued, fed, faults>>

Absent == [from |-> "nobody", ok |-> FALSE, age |-> "absent",
           bridged |-> FALSE, feed |-> FALSE]
Idle == [job |-> "idle", todo |-> {}, on |-> [m \in Msg |-> {}], at |-> "next"]

On(m) == {c[2] : c \in rec[m]}

TypeOK ==
    /\ msg \in [Msg -> [from : {"nobody", "user", "us"}, ok : BOOLEAN,
                        age : {"absent", "new", "held", "old"},
                        bridged : BOOLEAN, feed : BOOLEAN]]
    /\ rec \in [Msg -> SUBSET Copy] /\ heard \in [Msg -> SUBSET Copy]
    /\ pass \in [job : {"idle", "patch", "feed"}, todo : SUBSET Msg,
                 on : [Msg -> SUBSET Transport], at : {"next", "mark"}]
    /\ up \in BOOLEAN
    /\ uplinks \in [Msg -> Nat] /\ queued \in [Msg -> Nat] /\ fed \in [Msg -> Nat]
    /\ faults \in 0..MaxFaults

Init ==
    /\ msg = [m \in Msg |-> Absent]
    /\ rec = [m \in Msg |-> {}] /\ heard = [m \in Msg |-> {}]
    /\ pass = Idle /\ up = TRUE
    /\ uplinks = [m \in Msg |-> 0] /\ queued = [m \in Msg |-> 0]
    /\ fed = [m \in Msg |-> 0]
    /\ faults = 0

Fault(kind) == kind \in Env /\ faults < MaxFaults /\ faults' = faults + 1

-----------------------------------------------------------------------------
(* Ingest                                                                    *)

\* One reception per gateway; the RF copy replaces the MQTT copy of the same
\* gateway and is not replaced by it.
applyEnvelope(m, c) ==
    rec' = [rec EXCEPT ![m] =
              IF c = <<"station", "mqtt">> /\ <<"station", "rf">> \in @ THEN @
              ELSE IF c = <<"station", "rf">> THEN (@ \ {<<"station", "mqtt">>}) \union {c}
              ELSE @ \union {c}]

\* The first copy writes the text row.  What the outbox has sent for a message
\* comes back as a message of our own node.
Arrive(m) ==
    /\ msg[m].age = "absent"
    /\ \A n \in Msg : n < m => msg[n].age # "absent"
    /\ \E c \in Copy, ok \in BOOLEAN, from \in {"user", "us"} :
         /\ from = "us" => Cardinality({n \in Msg : msg[n].from = "us"})
                             < MapThenSumSet(LAMBDA n : queued[n], Msg)
         /\ msg' = [msg EXCEPT ![m] = [Absent EXCEPT !.from = from, !.ok = ok, !.age = "new"]]
         /\ applyEnvelope(m, c)
         /\ heard' = [heard EXCEPT ![m] = {c}]
    /\ UNCHANGED <<pass, up, uplinks, queued, fed, faults>>

ArriveAgain(m) ==
    /\ msg[m].age \in {"new", "held"}
    /\ \E c \in Copy : applyEnvelope(m, c)
                       /\ heard' = [heard EXCEPT ![m] = IF msg[m].age = "new"
                                                         THEN @ \union {c} ELSE @]
                       /\ rec' # rec
    /\ UNCHANGED <<msg, pass, up, uplinks, queued, fed, faults>>

\* patch_hold_seconds, and then the 15 minutes of both jobs, go by.
Age(m) ==
    /\ msg[m].age \in {"new", "held"}
    /\ msg' = [msg EXCEPT ![m].age = IF @ = "new" THEN "held" ELSE "old"]
    /\ UNCHANGED <<rec, heard, pass, up, uplinks, queued, fed, faults>>

BrokerChanges ==
    /\ up' = ~up
    /\ up => Fault("broker")
    /\ ~up => UNCHANGED faults
    /\ UNCHANGED <<msg, rec, heard, pass, uplinks, queued, fed>>

-----------------------------------------------------------------------------
(* runMessagePatch                                                           *)

Candidates_Unheld ==
    {m \in Msg : msg[m].age \in {"new", "held"} /\ ~msg[m].bridged /\ msg[m].from # "us"}

\* Held long enough, not handled, not sent by our own node.
Candidates ==
    {m \in Msg : msg[m].age = "held" /\ ~msg[m].bridged /\ msg[m].from # "us"}

\* The candidates, with the transports they were on at that moment.
ListCandidates ==
    /\ pass.job = "idle"
    /\ pass' = [job |-> "patch", todo |-> Candidates, at |-> "next",
                on |-> [m \in Msg |-> IF m \in Candidates THEN On(m) ELSE {}]]
    /\ UNCHANGED <<msg, rec, heard, up, uplinks, queued, fed, faults>>

Head == Min(pass.todo)
Patching == pass.job = "patch" /\ pass.todo # {} /\ pass.at = "next"

\* MQTT only: enqueueTx.  An insert that fails is logged and the row is marked.
PatchOntoRf ==
    /\ Patching /\ pass.on[Head] = {"mqtt"}
    /\ \/ queued' = [queued EXCEPT ![Head] = @ + 1] /\ UNCHANGED faults
       \/ Fault("database") /\ UNCHANGED queued
    /\ pass' = [pass EXCEPT !.at = "mark"]
    /\ UNCHANGED <<msg, rec, heard, up, uplinks, fed>>

\* RF only: a publish that fails is logged and the row is marked as well.
PatchOntoMqtt ==
    /\ Patching /\ pass.on[Head] = {"rf"} /\ msg[Head].ok
    /\ uplinks' = IF up THEN [uplinks EXCEPT ![Head] = @ + 1] ELSE uplinks
    /\ pass' = [pass EXCEPT !.at = "mark"]
    /\ UNCHANGED <<msg, rec, heard, up, queued, fed, faults>>

\* Heard on both, or refused for want of consent.
LeaveAlone ==
    /\ Patching
    /\ pass.on[Head] = Transport \/ (pass.on[Head] = {"rf"} /\ ~msg[Head].ok)
    /\ pass' = [pass EXCEPT !.at = "mark"]
    /\ UNCHANGED <<msg, rec, heard, up, uplinks, queued, fed, faults>>

-----------------------------------------------------------------------------
(* runTextFeed                                                               *)

\* The patcher is done, or threw: the feed lists its own candidates.
ListFeed ==
    /\ pass.job = "patch" /\ pass.todo = {}
    /\ pass' = [Idle EXCEPT !.job = "feed",
                  !.todo = {m \in Msg : msg[m].age \in {"new", "held"} /\ ~msg[m].feed}]
    /\ UNCHANGED <<msg, rec, heard, up, uplinks, queued, fed, faults>>

Feeding == pass.job = "feed" /\ pass.todo # {} /\ pass.at = "next"

Ineligible ==
    /\ Feeding /\ ~msg[Head].ok
    /\ pass' = [pass EXCEPT !.at = "mark"]
    /\ UNCHANGED <<msg, rec, heard, up, uplinks, queued, fed, faults>>

PublishToFeed ==
    /\ Feeding /\ msg[Head].ok /\ up
    /\ fed' = [fed EXCEPT ![Head] = @ + 1]
    /\ pass' = [pass EXCEPT !.at = "mark"]
    /\ UNCHANGED <<msg, rec, heard, up, uplinks, queued, faults>>

\* An outage leaves the row for the next tick and ends the pass.
FeedFails_Marks ==
    /\ Feeding /\ msg[Head].ok /\ ~up
    /\ pass' = [pass EXCEPT !.at = "mark"]
    /\ UNCHANGED <<msg, rec, heard, up, uplinks, queued, fed, faults>>

FeedFails ==
    /\ Feeding /\ msg[Head].ok /\ ~up
    /\ pass' = Idle
    /\ UNCHANGED <<msg, rec, heard, up, uplinks, queued, fed, faults>>

FeedDone ==
    /\ pass.job = "feed" /\ pass.todo = {}
    /\ pass' = Idle
    /\ UNCHANGED <<msg, rec, heard, up, uplinks, queued, fed, faults>>

-----------------------------------------------------------------------------
(* Both: mark(row.id), the last statement for a candidate                    *)

Mark_Never ==
    /\ pass.todo # {} /\ pass.at = "mark"
    /\ pass' = [pass EXCEPT !.todo = @ \ {Head}, !.on[Head] = {}, !.at = "next"]
    /\ UNCHANGED <<msg, rec, heard, up, uplinks, queued, fed, faults>>

Mark ==
    /\ pass.todo # {} /\ pass.at = "mark"
    /\ msg' = IF pass.job = "patch" THEN [msg EXCEPT ![Head].bridged = TRUE]
                                    ELSE [msg EXCEPT ![Head].feed = TRUE]
    /\ pass' = [pass EXCEPT !.todo = @ \ {Head}, !.on[Head] = {}, !.at = "next"]
    /\ UNCHANGED <<rec, heard, up, uplinks, queued, fed, faults>>

\* The update throws: safe() ends this job and the tick goes on with the next.
MarkThrows ==
    /\ pass.todo # {} /\ pass.at = "mark"
    /\ Fault("database")
    /\ pass' = IF pass.job = "patch" THEN [pass EXCEPT !.todo = {}, !.at = "next"] ELSE Idle
    /\ UNCHANGED <<msg, rec, heard, up, uplinks, queued, fed>>

Crash ==
    /\ pass.job # "idle" /\ Fault("crash")
    /\ pass' = Idle
    /\ UNCHANGED <<msg, rec, heard, up, uplinks, queued, fed>>

Tick ==
    \/ ListCandidates \/ PatchOntoRf \/ PatchOntoMqtt \/ LeaveAlone
    \/ ListFeed \/ Ineligible \/ PublishToFeed \/ FeedFails \/ FeedDone
    \/ Mark

Next ==
    \/ \E m \in Msg : Arrive(m) \/ ArriveAgain(m) \/ Age(m)
    \/ BrokerChanges \/ Tick \/ MarkThrows \/ Crash

\* The interval fires and statements are executed.
Spec == Init /\ [][Next]_vars
FairSpec == Spec /\ WF_vars(Tick)

-----------------------------------------------------------------------------
(* Properties                                                                *)

Copies(m) == uplinks[m] + queued[m] + fed[m]
Published == UNION {{m} \X (1..Copies(m)) : m \in Msg}   \* every copy, numbered
Bridged   == {m \in Msg : msg[m].bridged}
OnTheFeed == {m \in Msg : msg[m].feed}

\* Publishing and marking are two steps.  Whatever fails in between, each
\* failure repeats one message of one job: without one, what was published is
\* marked or about to be.
RepeatsNeedFaults ==
    Cardinality(Published) <= Cardinality(Bridged) + Cardinality(OnTheFeed) + faults
        + (IF pass.at = "mark" THEN 1 ELSE 0)

\* What the bridge itself put on the air and heard again is never carried on:
\* without that, two messages would follow each other round for ever.
NoEcho == \A m \in Msg : msg[m].from = "us" => uplinks[m] + queued[m] = 0

\* "Skip if it already reached the other transport on its own": a message heard
\* on both within the hold is not carried across.
Doubled(m, c) == {<<"station", "rf">>, c} \subseteq heard[m] /\ uplinks[m] + queued[m] > 0
HoldPreventsDoubling == \A m \in Msg : ~Doubled(m, <<"gateway", "mqtt">>)

\* The same when the copy came over the station node's own uplink.
OwnUplinkPreventsDoubling == \A m \in Msg : ~Doubled(m, <<"station", "mqtt">>)

\* An outage, a failed mark or a crash only delays the feed: an eligible message
\* is published and marked as long as its 15 minutes have not run out.
Due(m) == up /\ msg[m].ok /\ msg[m].age \in {"new", "held"}
Fed(m) == msg[m].feed /\ fed[m] > 0
FeedResumes == \A m \in Msg : <>[]Due(m) => <>Fed(m)
=============================================================================
