-------------------------------- MODULE AutoTx --------------------------------
(* What the worker transmits of its own accord: the duties of the TX loop     *)
(* that queue rows in tx_outbox (worker/autoresponder.ts, spamnudge.ts,       *)
(* traceroute.ts, adminscan.ts, weatheralerts.ts, automations.ts).            *)
(*                                                                            *)
(* Each lists its candidates, and for each of them looks whether it has been  *)
(* served, queues its rows and leaves a mark: steps of their own, between     *)
(* which time passes, a statement may fail and the process may be restarted.  *)
(* What marks most of them is the outbox row itself, by its created_by.       *)
(* Templates, channels and the choice of the transport are left out; the      *)
(* settings stay what they are, and the mesh does only what one of the duties *)
(* that are on looks at.                                                      *)
EXTENDS Integers, Sequences, FiniteSets, SequencesExt, FiniteSetsExt

CONSTANTS Node,        \* other nodes
          Settings,    \* choices of the duties that are switched on
          Transports,  \* rows of a reply or an automation: 2 for "both"
          Lookback,    \* how old a message may be to be answered or counted
          Ahead,       \* how far ahead of ours a gateway's clock may be
          Cooldown,    \* auto_responder.cooldown_s
          Quiet,       \* spam_nudge.cooldown_minutes, every_minutes and
                       \* send_every_minutes
          Threshold,   \* spam_nudge.threshold
          Rescan,      \* admin_scanner.interval_hours, traceroute interval_hours
          Reconfirm,   \* admin_scanner.reconfirm_hours, 0 is never
          BACKLOG_MAX, PerRun, \* 12, and the rows a duty may queue in one run
          MaxTime, MaxTexts, MaxFaults

Order == <<"reply", "nudge", "welcome", "trace", "probe", "alert", "automation">>
Alert == {"storm"}                  \* ids that the weather service lists
Subject == Node \union Alert \union {"daily"}

VARIABLES
    now,
    on,        \* the duties switched on
    text,      \* text_message: sender and observed_at of those that match
    outbox,    \* tx_outbox: who queued it, for which message, when, its state
    scanned,   \* remote_admin.last_scan_at
    okAt,      \* remote_admin.last_ok_at
    asked,     \* traceroute_state.last_requested_at
    alerted,   \* weather_alert_sent
    born,      \* nodes.first_seen_at
    pass,      \* the tick under way
    faults

store == <<scanned, okAt, asked, alerted>>
vars  == <<now, on, text, outbox, store, born, pass, faults>>

Never == -1
Idle  == [duty |-> 0, todo |-> <<>>, at |-> "list", left |-> 0]

Item(subject, src) == [subject |-> subject, src |-> src]

TypeOK ==
    /\ now \in 0..MaxTime /\ on \in Settings
    /\ text \in Seq([from : Node, t : Nat])
    /\ \A i \in DOMAIN outbox :
         /\ outbox[i].by \in Range(Order) \X Subject /\ outbox[i].src \in 0..Len(text)
         /\ outbox[i].t \in 0..now /\ outbox[i].state \in {"queued", "held", "done"}
         /\ outbox[i].first \in BOOLEAN
    /\ scanned \in [Node -> {Never} \union (0..now)]
    /\ okAt \in [Node -> {Never} \union (0..now)]
    /\ asked \in [Node -> {Never} \union (0..now)]
    /\ born \in [Node -> {Never} \union (0..now)]
    /\ alerted \subseteq Alert
    /\ pass.duty \in 0..Len(Order) /\ pass.at \in {"list", "claim", "check", "queue", "mark"}
    /\ pass.left \in 0..Transports
    /\ faults \in 0..MaxFaults

Init ==
    /\ now = 0 /\ on \in Settings /\ text = <<>> /\ outbox = <<>>
    /\ scanned = [n \in Node |-> Never] /\ okAt = [n \in Node |-> Never]
    /\ asked = [n \in Node |-> Never] /\ alerted = {}
    /\ born = [n \in Node |-> IF "welcome" \in on THEN Never ELSE 0]
    /\ pass = Idle /\ faults = 0

-----------------------------------------------------------------------------
(* The mesh, time and the drain of the outbox                                *)

\* What a duty does between listing and its last row takes no time to speak of.
TimePasses ==
    /\ now < MaxTime /\ pass.at = "list"
    /\ now' = now + 1
    /\ UNCHANGED <<on, text, outbox, store, born, pass, faults>>

Appear(n) ==
    /\ born[n] = Never
    /\ born' = [born EXCEPT ![n] = now]
    /\ UNCHANGED <<now, on, text, outbox, store, pass, faults>>

\* A message is dated by its gateway.
Say(n) ==
    /\ Len(text) < MaxTexts /\ on \intersect {"reply", "nudge"} # {}
    /\ \E t \in now..(now + Ahead) : text' = Append(text, [from |-> n, t |-> t])
    /\ UNCHANGED <<now, on, outbox, store, born, pass, faults>>

\* The node answers a probe that is no longer queued.
recordAdminOk(n) ==
    /\ \E i \in DOMAIN outbox : outbox[i].by = <<"probe", n>> /\ outbox[i].state = "done"
    /\ okAt[n] # now
    /\ okAt' = [okAt EXCEPT ![n] = now] /\ scanned' = [scanned EXCEPT ![n] = now]
    /\ UNCHANGED <<now, on, text, outbox, asked, alerted, born, pass, faults>>

\* runTxOutbox, at the end of each tick, takes the oldest rows first and holds
\* or settles them; a user who cancels one settles it too.
Drain ==
    /\ pass.duty = 0
    /\ \E k \in DOMAIN outbox, s \in {"held", "done"} :
         /\ outbox[k].state \notin {s, "done"}
         /\ outbox' = [i \in DOMAIN outbox |-> IF i <= k /\ outbox[i].state # "done"
                                              THEN [outbox[i] EXCEPT !.state = s] ELSE outbox[i]]
    /\ UNCHANGED <<now, on, text, store, born, pass, faults>>

-----------------------------------------------------------------------------
(* What the duties read                                                      *)

Duty == Order[pass.duty]
Rows(by) == {i \in DOMAIN outbox : outbox[i].by = by}

\* Only rows that are still to be sent hold the next one back.
Since_Waiting(by, gap) == \E i \in Rows(by) : outbox[i].t >= now - gap /\ outbox[i].state # "done"

\* created_at >= UTC_TIMESTAMP() - cooldown, whatever became of the row.
Since(by, gap) == \E i \in Rows(by) : outbox[i].t >= now - gap

\* The rows that are still to be sent.
outboxBacklog == Cardinality({i \in DOMAIN outbox : outbox[i].state \in {"queued", "held"}})

InWindow == {i \in DOMAIN text : text[i].t >= now - Lookback}

FirstOf(S) == {s \in SUBSET S : Cardinality(s) = IF Cardinality(S) < PerRun THEN Cardinality(S) ELSE PerRun}

\* Any order of any PerRun of the nodes: the ORDER BY is not looked at.
Some(S) == UNION {SetToSeqs({Item(n, 0) : n \in s}) : s \in FirstOf(S)}

\* Recent messages, the newest first.
Texts == {s \in SetToSeqs(InWindow) : \A k, l \in DOMAIN s : k < l => s[k] > s[l]}

Newcomers == {n \in Node : born[n] # Never /\ born[n] >= now - Lookback /\ Rows(<<"welcome", n>>) = {}}

\* GROUP BY sender HAVING COUNT(*) >= threshold
Offenders == {n \in Node : Cardinality({i \in InWindow : text[i].from = n}) >= Threshold}

\* No traceroute waits, and the last batch was sent long enough ago.
MayTrace ==
    /\ \A i \in DOMAIN outbox : outbox[i].by[1] = "trace" => outbox[i].state = "done"
    /\ \A n \in Node : \A i \in Rows(<<"trace", n>>) : now - outbox[i].t >= Quiet

Untraced == {n \in Node : born[n] # Never /\ (asked[n] = Never \/ asked[n] < now - Rescan)}

\* Not probed for long; a node that has answered, only when that was long ago.
scanCandidates ==
    {n \in Node : /\ born[n] # Never
                  /\ \/ okAt[n] = Never /\ (scanned[n] = Never \/ scanned[n] < now - Rescan)
                     \/ okAt[n] # Never /\ Reconfirm > 0 /\ okAt[n] < now - Reconfirm}

\* The candidates that a duty may list now.
Candidates ==
    CASE Duty = "reply"      -> {[k \in DOMAIN s |-> Item(text[s[k]].from, s[k])] : s \in Texts}
      [] Duty = "nudge"      -> Some(Offenders)
      [] Duty = "welcome"    -> IF outboxBacklog > BACKLOG_MAX THEN {<<>>} ELSE Some(Newcomers)
      [] Duty = "trace"      -> IF MayTrace THEN Some(Untraced) ELSE {<<>>}
      [] Duty = "probe"      -> IF outboxBacklog > BACKLOG_MAX THEN {<<>>} ELSE Some(scanCandidates)
      [] Duty = "alert"      -> {<<>>} \union SetToSeqs({Item(a, 0) : a \in Alert})
      [] Duty = "automation" -> {<<Item("daily", 0)>>}

-----------------------------------------------------------------------------
(* A tick: the duties in their order                                         *)

NextDuty(d) ==
    LET later == {e \in d+1..Len(Order) : Order[e] \in on}
    IN IF later = {} THEN Idle ELSE [Idle EXCEPT !.duty = Min(later)]

TickStarts ==
    /\ pass.duty = 0
    /\ pass' = NextDuty(0)
    /\ UNCHANGED <<now, on, text, outbox, store, born, faults>>

Entry(d) == CASE d = "trace" -> "claim" [] d \in {"welcome", "probe"} -> "queue" [] OTHER -> "check"

List ==
    /\ pass.duty # 0 /\ pass.at = "list"
    /\ \E todo \in Candidates :
         pass' = IF todo = <<>> THEN NextDuty(pass.duty)
                 ELSE [pass EXCEPT !.todo = todo, !.at = Entry(Duty)]
    /\ UNCHANGED <<now, on, text, outbox, store, born, faults>>

This == Head(pass.todo)
By   == <<Duty, This.subject>>

\* The outbox row or the mark says that the candidate is served.
Served ==
    CASE Duty = "reply" -> Since(By, Cooldown)
      [] Duty = "alert" -> This.subject \in alerted
      [] OTHER          -> Since(By, Quiet)

Onward == IF Len(pass.todo) = 1 THEN NextDuty(pass.duty)
          ELSE [pass EXCEPT !.todo = Tail(@), !.at = Entry(Duty), !.left = 0]

\* The cooldown or the mark is looked up candidate by candidate.
Check ==
    /\ pass.at = "check"
    /\ pass' = IF Served THEN Onward ELSE [pass EXCEPT !.at = "queue"]
    /\ UNCHANGED <<now, on, text, outbox, store, born, faults>>

\* claimTracerouteTargets: the whole batch is marked before any of it is queued.
Claim ==
    /\ pass.at = "claim"
    /\ asked' = [n \in Node |-> IF Item(n, 0) \in Range(pass.todo) THEN now ELSE asked[n]]
    /\ pass' = [pass EXCEPT !.at = "queue"]
    /\ UNCHANGED <<now, on, text, outbox, scanned, okAt, alerted, born, faults>>

Many == IF Duty \in {"reply", "automation"} THEN Transports ELSE 1

\* The next candidate of a batch that was claimed needs no claim of its own.
Following == IF Duty = "trace" /\ Len(pass.todo) > 1
             THEN [pass EXCEPT !.todo = Tail(@)] ELSE Onward

enqueueTx ==
    /\ pass.at = "queue"
    /\ outbox' = Append(outbox, [by |-> By, src |-> This.src, t |-> now,
                                 state |-> "queued", first |-> pass.left = 0])
    /\ pass' = CASE pass.left = 0 /\ Many > 1 -> [pass EXCEPT !.left = Many - 1]
                 [] pass.left > 1             -> [pass EXCEPT !.left = @ - 1]
                 [] Duty \in {"probe", "alert"} -> [pass EXCEPT !.at = "mark"]
                 [] OTHER                     -> Following
    /\ UNCHANGED <<now, on, text, store, born, faults>>

\* markScanned and recordAlertSent.
Mark ==
    /\ pass.at = "mark"
    /\ IF Duty = "probe" THEN scanned' = [scanned EXCEPT ![This.subject] = now] /\ UNCHANGED alerted
                         ELSE alerted' = alerted \union {This.subject} /\ UNCHANGED scanned
    /\ pass' = Onward
    /\ UNCHANGED <<now, on, text, outbox, okAt, asked, born, faults>>

\* A statement throws: safe() ends this duty, not the tick.
StatementFails ==
    /\ pass.duty # 0 /\ faults < MaxFaults
    /\ faults' = faults + 1
    /\ pass' = NextDuty(pass.duty)
    /\ UNCHANGED <<now, on, text, outbox, store, born>>

Restart ==
    /\ pass.duty # 0 /\ faults < MaxFaults
    /\ faults' = faults + 1
    /\ pass' = Idle
    /\ UNCHANGED <<now, on, text, outbox, store, born>>

Tick == TickStarts \/ List \/ Check \/ Claim \/ enqueueTx \/ Mark
Mesh == TimePasses \/ \E n \in Node : Appear(n) \/ Say(n) \/ recordAdminOk(n)
Next == Tick \/ Mesh \/ Drain \/ StatementFails \/ Restart

Spec == Init /\ [][Next]_vars

-----------------------------------------------------------------------------
(* Properties                                                                *)

\* Rows that open another round for the same node or automation before the
\* duty's cooldown is over; a node is welcomed and an alert broadcast once.
Gap(d) == CASE d = "reply" -> Cooldown [] d = "probe" -> Rescan [] d = "trace" -> Quiet - 1
            [] d \in {"welcome", "alert"} -> MaxTime [] OTHER -> Quiet
TooSoon(d) ==
    {j \in DOMAIN outbox : /\ outbox[j].by[1] = d /\ outbox[j].first
                           /\ \E i \in Rows(outbox[j].by) : i < j /\ outbox[j].t - outbox[i].t <= Gap(d)}

\* What is told by the outbox, or claimed before it is queued, is never too soon,
\* although rows wait, fail or are cancelled and the worker restarts half way:
\* "a restart never double-fires", a nudge "never becomes spam itself".
NeverTooSoon == \A d \in {"reply", "nudge", "welcome", "trace", "automation"} : TooSoon(d) = {}

\* What is marked after it has been queued is repeated by a failure between the
\* two, and by nothing else.
RepeatsNeedFaults ==
    Cardinality(TooSoon("alert") \union (IF Reconfirm = 0 THEN TooSoon("probe") ELSE {})) <= faults

\* A message is answered at most once, although it stays in the window and its
\* gateway's clock may be ahead: the cooldown is as long as both together.
AnsweredOnce ==
    \A i, j \in DOMAIN outbox :
        /\ outbox[i].by[1] = "reply" /\ outbox[i].first /\ outbox[j].first
        /\ outbox[i].by = outbox[j].by /\ outbox[i].src = outbox[j].src
        => i = j

\* Welcomes and probes never pile up behind a queue that does not drain.
BacklogBounded ==
    Cardinality({i \in DOMAIN outbox : /\ outbox[i].by[1] \in {"welcome", "probe"}
                                       /\ outbox[i].state \in {"queued", "held"}})
        <= BACKLOG_MAX + PerRun

\* "re-verify already-confirmed nodes only this often" (docs/tx.md).
ReconfirmedRarely ==
    \A j \in DOMAIN outbox : outbox[j].by[1] = "probe" =>
        \A i \in Rows(outbox[j].by) :
            i < j => faults > 0 \/ outbox[j].t - outbox[i].t > Min({Rescan, Reconfirm})
=============================================================================
