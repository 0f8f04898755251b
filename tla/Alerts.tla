-------------------------------- MODULE Alerts --------------------------------
(* worker/alerts.ts and the fan-out of worker/delivery.ts: what is firing is  *)
(* compared with the open rows of the alerts table, once per fast tick.       *)
(*                                                                            *)
(* The queries of the rules are left out: a condition holds of a key or does  *)
(* not, and changes at any time, also between two awaits of the pass.         *)
EXTENDS Integers, FiniteSets

CONSTANTS Rule, Key,
          OneShot,                \* rules that have no "clear" state
          MaxChanges, MaxFaults

VARIABLES
    holds,    \* the conditions that hold, as <<rule, key>>
    enabled,  \* the rules that are enabled
    rows,     \* open rows of the alerts table, how many for a <<rule, key>>
    pass,     \* the pass under way
    told,     \* history: notifications since the last alert of a key was resolved,
              \* or ever when its rule fires once
    changes, faults

vars == <<holds, enabled, rows, pass, told, changes, faults>>

Alarm == Rule \X Key
Idle  == [at |-> "idle", left |-> {}, rule |-> {}, firing |-> {}, new |-> {}, over |-> {}]

TypeOK ==
    /\ holds \subseteq Alarm /\ enabled \subseteq Rule
    /\ rows \in [Alarm -> Nat] /\ told \in [Alarm -> Nat]
    /\ pass.at \in {"idle", "rules", "open", "new", "insert", "over"}
    /\ pass.left \subseteq Rule /\ pass.rule \subseteq Rule
    /\ pass.firing \subseteq Key /\ pass.new \subseteq Key /\ pass.over \subseteq Key
    /\ changes \in 0..MaxChanges /\ faults \in 0..MaxFaults

Init ==
    /\ holds = {} /\ enabled = Rule
    /\ rows = [a \in Alarm |-> 0] /\ told = [a \in Alarm |-> 0]
    /\ pass = Idle /\ changes = 0 /\ faults = 0

-----------------------------------------------------------------------------
Toggle(S, e) == IF e \in S THEN S \ {e} ELSE S \union {e}

Changes(a) ==
    /\ changes < MaxChanges
    /\ holds' = Toggle(holds, a)
    /\ changes' = changes + 1
    /\ UNCHANGED <<enabled, rows, pass, told, faults>>

\* The administrator edits the rules; the next pass reads them.
Edit(r) ==
    /\ changes < MaxChanges
    /\ enabled' = Toggle(enabled, r)
    /\ changes' = changes + 1
    /\ UNCHANGED <<holds, rows, pass, told, faults>>

-----------------------------------------------------------------------------
Begin ==
    /\ pass = Idle /\ enabled # {}
    /\ pass' = [Idle EXCEPT !.at = "rules", !.left = enabled]
    /\ UNCHANGED <<holds, enabled, rows, told, changes, faults>>

RulesDone == IF pass.left = {} THEN Idle ELSE [Idle EXCEPT !.at = "rules", !.left = pass.left]

\* The next rule's query; one that throws is logged and the rule is passed over.
evaluateRule(r) ==
    /\ pass.at = "rules" /\ r \in pass.left
    /\ pass' = [pass EXCEPT !.at = "open", !.left = @ \ {r}, !.rule = {r},
                            !.firing = {k \in Key : <<r, k>> \in holds}]
    /\ UNCHANGED <<holds, enabled, rows, told, changes, faults>>

RuleFails(r) ==
    /\ pass.at = "rules" /\ r \in pass.left /\ faults < MaxFaults
    /\ faults' = faults + 1
    /\ pass' = IF pass.left = {r} THEN Idle ELSE [pass EXCEPT !.left = @ \ {r}]
    /\ UNCHANGED <<holds, enabled, rows, told, changes>>

\* What becomes of a rule whose firing keys and open rows are known.
Proceed(p) ==
    IF p.new # {} THEN [p EXCEPT !.at = "new"]
    ELSE IF p.over # {} THEN [p EXCEPT !.at = "over"]
    ELSE RulesDone

\* The keys to report; none of a one-shot rule is ever over.
Over(r, open) == IF r \in OneShot THEN {} ELSE open \ pass.firing

ReadOpen(r) ==
    /\ pass.at = "open" /\ pass.rule = {r}
    /\ LET open == {k \in Key : rows[<<r, k>>] > 0}
       IN pass' = Proceed([pass EXCEPT !.new = pass.firing \ open, !.over = Over(r, open)])
    /\ UNCHANGED <<holds, enabled, rows, told, changes, faults>>

\* dispatch: every channel is tried, and none throws.
dispatch(r, k) ==
    /\ pass.at = "new" /\ pass.rule = {r} /\ k \in pass.new
    /\ told' = [told EXCEPT ![<<r, k>>] = @ + 1]
    /\ pass' = [pass EXCEPT !.at = "insert", !.new = @ \ {k}, !.firing = {k}]
    /\ UNCHANGED <<holds, enabled, rows, changes, faults>>

\* INSERT INTO alerts, the row of what has just been reported.
Insert(r, k) ==
    /\ pass.at = "insert" /\ pass.rule = {r} /\ pass.firing = {k}
    /\ rows' = [rows EXCEPT ![<<r, k>>] = @ + 1]
    /\ pass' = Proceed(pass)
    /\ UNCHANGED <<holds, enabled, told, changes, faults>>

\* UPDATE alerts SET resolved_at for every open row of the key.
Resolve(r, k) ==
    /\ pass.at = "over" /\ pass.rule = {r} /\ k \in pass.over
    /\ rows' = [rows EXCEPT ![<<r, k>>] = 0]
    /\ told' = [told EXCEPT ![<<r, k>>] = IF r \in OneShot THEN @ ELSE 0]
    /\ pass' = Proceed([pass EXCEPT !.over = @ \ {k}])
    /\ UNCHANGED <<holds, enabled, changes, faults>>

\* A statement of reconcile throws, which ends the pass for the later rules
\* too, or the worker restarts.
PassFails ==
    /\ pass.at \in {"open", "new", "insert", "over"} /\ faults < MaxFaults
    /\ faults' = faults + 1
    /\ pass' = Idle
    /\ UNCHANGED <<holds, enabled, rows, told, changes>>

evaluateAlerts ==
    \/ Begin
    \/ \E r \in Rule : evaluateRule(r) \/ ReadOpen(r)
    \/ \E r \in Rule, k \in Key : dispatch(r, k) \/ Insert(r, k) \/ Resolve(r, k)

Next ==
    \/ evaluateAlerts
    \/ \E a \in Alarm : Changes(a)
    \/ \E r \in Rule : Edit(r) \/ RuleFails(r)
    \/ PassFails

Spec == Init /\ [][Next]_vars
FairSpec == Spec /\ WF_vars(evaluateAlerts)

-----------------------------------------------------------------------------
(* Properties                                                                *)

\* While an alert is open nobody is told again, whatever flaps between the
\* query, the notification and the row: only a pass that failed after it had
\* reported and before it had written repeats itself, and a one-shot rule
\* reports a key once for good.
ToldOnce == \A a \in Alarm : told[a] <= 1 + faults /\ rows[a] <= 1

\* In the end the open alerts of the enabled rules are what holds; a one-shot
\* rule keeps what it has reported.
Fires(a)  == a[1] \in enabled /\ a \in holds
Clear(a)  == a[1] \in enabled /\ a \notin holds
Opened(a) == rows[a] = 1
Closed(a) == rows[a] = 0 \/ a[1] \in OneShot
AlarmsFollow ==
    \A a \in Alarm : /\ <>[]Fires(a) => <>[]Opened(a)
                     /\ <>[]Clear(a) => <>[]Closed(a)
=============================================================================
