---------------------------- MODULE WorkerProofs -----------------------------
(***************************************************************************)
(* The worker's jobs, each for every set of rules, keys, messages, texts   *)
(* and hours and every number of faults: the alerts, the message patch and *)
(* the text feed, the forwarding rules, the automatic senders and the      *)
(* folds.  Each of them acts first and writes down afterwards that it has; *)
(* the theorems say what that order costs.                                 *)
(***************************************************************************)
EXTENDS MCWorker, SequenceTheorems, FiniteSetTheorems, WellFoundedInduction,
        TLAPS

\* The bounds of the models.
Bounds == MaxFaults \in Nat /\ MaxChanges \in Nat

-----------------------------------------------------------------------------
(* Alerts: the inductive invariant.                                        *)

\* The alert that has been reported and has no row yet.
InHand(r, k) == pass.at = "insert" /\ pass.rule = {r} /\ pass.firing = {k}

\* The pass is a record of its fields, and all of them.
PassShape ==
    pass \in [at : {"idle", "rules", "open", "new", "insert", "over"},
              left : SUBSET Rule, rule : SUBSET Rule,
              firing : SUBSET Key, new : SUBSET Key, over : SUBSET Key]

\* What is still to be reported has no open row, and what is in hand is not
\* among it; a rule that fires once resolves nothing.
Unopened ==
    /\ pass.at \in {"idle", "rules", "open"} => pass.new = {} /\ pass.over = {}
    /\ pass.at = "over" => pass.new = {}
    /\ \A r \in Rule, k \in Key :
         /\ pass.rule = {r} /\ k \in pass.new => rows[<<r, k>>] = 0 /\ ~InHand(r, k)
         /\ InHand(r, k) => rows[<<r, k>>] = 0
    /\ \A r \in OneShot : pass.rule = {r} => pass.over = {}

\* Every notification has its row, is in hand, or was repeated by a failure.
Accounted ==
    \A r \in Rule, k \in Key :
      /\ rows[<<r, k>>] <= 1
      /\ told[<<r, k>>] <= rows[<<r, k>>] + faults + (IF InHand(r, k) THEN 1 ELSE 0)

AlarmInv == Alarm!TypeOK /\ PassShape /\ Unopened /\ Accounted

LEMMA AlarmStart == ASSUME Bounds, Alarm!Init PROVE AlarmInv
  BY DEF Bounds, Alarm!Init, Alarm!TypeOK, Alarm!Idle, Alarm!Alarm, AlarmInv,
         PassShape, Unopened, Accounted, InHand

\* What happens outside of the pass.
LEMMA AlarmOutside ==
    ASSUME Bounds, AlarmInv,
           \/ \E a \in Alarm!Alarm : Alarm!Changes(a)
           \/ \E r \in Rule : Alarm!Edit(r)
           \/ UNCHANGED Alarm!vars
    PROVE  AlarmInv'
<1> USE DEF Bounds, AlarmInv, Alarm!TypeOK, Alarm!Alarm, Alarm!Toggle
<1>1. ASSUME NEW a \in Alarm!Alarm, Alarm!Changes(a) PROVE AlarmInv'
  BY <1>1 DEF Alarm!Changes, PassShape, Unopened, Accounted, InHand
<1>2. ASSUME NEW r \in Rule, Alarm!Edit(r) PROVE AlarmInv'
  BY <1>2 DEF Alarm!Edit, PassShape, Unopened, Accounted, InHand
<1>3. CASE UNCHANGED Alarm!vars
  BY <1>3 DEF Alarm!vars, PassShape, Unopened, Accounted, InHand
<1> QED
  BY <1>1, <1>2, <1>3

\* Steps that end or begin a rule, and failures: nobody is told and no row changes.
LEMMA AlarmPassMoves ==
    ASSUME Bounds, AlarmInv,
           UNCHANGED <<holds, enabled, rows, told, changes>>,
           faults' \in {faults, faults + 1}, faults' <= MaxFaults,
           PassShape', pass'.at \in {"idle", "rules", "open"},
           pass'.new = {}, pass'.over = {},
           pass.at = "insert" => faults' = faults + 1
    PROVE  AlarmInv'
<1> USE DEF Bounds, AlarmInv, Alarm!TypeOK, Alarm!Alarm
<1>1. Alarm!TypeOK'
  BY DEF PassShape
<1>2. Unopened'
  BY DEF Unopened, InHand
<1>3. Accounted'
  <2> SUFFICES ASSUME NEW r \in Rule, NEW k \in Key
               PROVE  /\ rows[<<r, k>>] <= 1
                      /\ told[<<r, k>>] <= rows[<<r, k>>] + faults'
                                             + (IF InHand(r, k)' THEN 1 ELSE 0)
    BY DEF Accounted
  <2>1. rows[<<r, k>>] \in Nat /\ told[<<r, k>>] \in Nat /\ faults \in Nat
    OBVIOUS
  <2>2. ~InHand(r, k)' /\ (InHand(r, k) => faults' = faults + 1)
    BY DEF InHand
  <2> QED
    BY <2>1, <2>2 DEF Accounted
<1> QED
  BY <1>1, <1>2, <1>3

LEMMA AlarmQuiet ==
    ASSUME Bounds, AlarmInv,
           \/ Alarm!Begin
           \/ \E r \in Rule : Alarm!evaluateRule(r) \/ Alarm!RuleFails(r)
           \/ Alarm!PassFails
    PROVE  AlarmInv'
<1> USE DEF Alarm!Idle
<1>0. PassShape /\ faults \in 0..MaxFaults /\ enabled \subseteq Rule /\ Unopened
  BY DEF AlarmInv, Alarm!TypeOK
<1>1. CASE Alarm!Begin
  <2>1. /\ pass' = [at |-> "rules", left |-> enabled, rule |-> {}, firing |-> {},
                    new |-> {}, over |-> {}]
        /\ pass.at = "idle" /\ UNCHANGED <<holds, enabled, rows, told, changes, faults>>
    BY <1>1 DEF Alarm!Begin
  <2>2. PassShape' /\ pass'.at = "rules" /\ pass'.new = {} /\ pass'.over = {}
    BY <1>0, <2>1 DEF PassShape
  <2> QED
    BY <1>0, <2>1, <2>2, AlarmPassMoves DEF Bounds
<1>2. ASSUME NEW r \in Rule, Alarm!evaluateRule(r) PROVE AlarmInv'
  <2>1. /\ pass' = [pass EXCEPT !.at = "open", !.left = @ \ {r}, !.rule = {r},
                                !.firing = {k \in Key : <<r, k>> \in holds}]
        /\ pass.at = "rules" /\ UNCHANGED <<holds, enabled, rows, told, changes, faults>>
    BY <1>2 DEF Alarm!evaluateRule
  <2>2. PassShape' /\ pass'.at = "open" /\ pass'.new = {} /\ pass'.over = {}
    BY <1>0, <2>1 DEF PassShape, Unopened
  <2> QED
    BY <1>0, <2>1, <2>2, AlarmPassMoves DEF Bounds
<1>3. ASSUME NEW r \in Rule, Alarm!RuleFails(r) PROVE AlarmInv'
  BY <1>0, <1>3, AlarmPassMoves DEF Alarm!RuleFails, PassShape, Unopened, Bounds
<1>4. CASE Alarm!PassFails
  BY <1>0, <1>4, AlarmPassMoves DEF Alarm!PassFails, PassShape, Bounds
<1> QED
  BY <1>1, <1>2, <1>3, <1>4

\* Where a rule goes on, given what is left to report and to resolve.
LEMMA AlarmProceeds ==
    ASSUME PassShape, NEW p \in [at : {"idle", "rules", "open", "new", "insert", "over"},
              left : SUBSET Rule, rule : SUBSET Rule,
              firing : SUBSET Key, new : SUBSET Key, over : SUBSET Key]
    PROVE  LET q == Alarm!Proceed(p) IN
           \/ p.new # {} /\ q = [p EXCEPT !.at = "new"]
           \/ p.new = {} /\ p.over # {} /\ q = [p EXCEPT !.at = "over"]
           \/ /\ q \in [at : {"idle", "rules"}, left : SUBSET Rule, rule : SUBSET Rule,
                        firing : SUBSET Key, new : SUBSET Key, over : SUBSET Key]
              /\ q.new = {} /\ q.over = {} /\ q.rule = {}
  BY DEF Alarm!Proceed, Alarm!RulesDone, Alarm!Idle, PassShape

LEMMA AlarmReads ==
    ASSUME Bounds, AlarmInv, NEW r \in Rule, Alarm!ReadOpen(r)
    PROVE  AlarmInv'
<1> USE DEF Bounds, AlarmInv, Alarm!TypeOK, Alarm!Alarm
<1> DEFINE open == {k \in Key : rows[<<r, k>>] > 0}
           p == [pass EXCEPT !.new = pass.firing \ open, !.over = Alarm!Over(r, open)]
<1>1. /\ p \in [at : {"idle", "rules", "open", "new", "insert", "over"},
                left : SUBSET Rule, rule : SUBSET Rule,
                firing : SUBSET Key, new : SUBSET Key, over : SUBSET Key]
      /\ p.rule = {r} /\ p.new = pass.firing \ open /\ p.over = Alarm!Over(r, open)
  BY DEF PassShape, Alarm!ReadOpen, Alarm!Over
<1>2. pass' = Alarm!Proceed(p) /\ UNCHANGED <<holds, enabled, rows, told, changes, faults>>
  BY DEF Alarm!ReadOpen
<1>3. pass'.at # "insert" /\ pass.at = "open" /\ PassShape'
      /\ (pass'.rule = {r} \/ pass'.rule = {})
      /\ (pass'.new = {} \/ pass'.new = pass.firing \ open)
      /\ (pass'.over = {} \/ pass'.over = Alarm!Over(r, open))
      /\ (pass'.at \in {"idle", "rules"} => pass'.new = {} /\ pass'.over = {})
      /\ (pass'.at = "over" => pass'.new = {}) /\ pass'.at # "open"
  <2>1. pass.at = "open" /\ PassShape
    BY DEF Alarm!ReadOpen
  <2> HIDE DEF p, open
  <2>2. \/ p.new # {} /\ pass' = [p EXCEPT !.at = "new"]
        \/ p.new = {} /\ p.over # {} /\ pass' = [p EXCEPT !.at = "over"]
        \/ /\ pass' \in [at : {"idle", "rules"}, left : SUBSET Rule, rule : SUBSET Rule,
                          firing : SUBSET Key, new : SUBSET Key, over : SUBSET Key]
           /\ pass'.new = {} /\ pass'.over = {} /\ pass'.rule = {}
    BY <1>1, <1>2, <2>1, AlarmProceeds
  <2> QED
    BY <1>1, <2>1, <2>2 DEF PassShape
<1>4. Unopened'
  <2>1. \A k \in Key : k \in pass'.new => rows[<<r, k>>] = 0
    BY <1>3
  <2>2. r \in OneShot => pass'.over = {}
    BY <1>3 DEF Alarm!Over
  <2>3. ASSUME NEW s \in Rule, pass'.rule = {s} PROVE s = r
    BY <1>3, <2>3
  <2>4. \A s \in Rule, k \in Key :
          pass'.rule = {s} /\ k \in pass'.new => rows[<<s, k>>] = 0
    BY <2>1, <2>3
  <2>5. \A s \in OneShot : pass'.rule = {s} => pass'.over = {}
    BY <1>3, <2>2
  <2> HIDE DEF p, open
  <2> QED
    BY <1>2, <1>3, <2>4, <2>5 DEF Unopened, InHand
<1>5. Accounted'
  BY <1>2, <1>3 DEF Accounted, InHand
<1>6. Alarm!TypeOK'
  BY <1>2, <1>3 DEF PassShape
<1> QED
  BY <1>3, <1>4, <1>5, <1>6

LEMMA AlarmTells ==
    ASSUME Bounds, AlarmInv, NEW r \in Rule, NEW k \in Key, Alarm!dispatch(r, k)
    PROVE  AlarmInv'
<1> USE DEF Bounds, AlarmInv, Alarm!TypeOK, Alarm!Alarm
<1>1. /\ pass.at = "new" /\ pass.rule = {r} /\ k \in pass.new
      /\ PassShape' /\ pass'.at = "insert" /\ pass'.rule = {r} /\ pass'.firing = {k}
      /\ pass'.new = pass.new \ {k} /\ pass'.over = pass.over
  BY DEF Alarm!dispatch, PassShape
<1>2. UNCHANGED <<holds, enabled, rows, changes, faults>>
  BY DEF Alarm!dispatch
<1>a. \A s \in Rule, l \in Key : InHand(s, l)' <=> s = r /\ l = k
  BY <1>1 DEF InHand
<1>b. \A s \in Rule, l \in Key : ~InHand(s, l)
  BY <1>1 DEF InHand
<1>3. Unopened'
  <2>1. ASSUME NEW s \in Rule, NEW l \in Key, pass'.rule = {s}, l \in pass'.new
        PROVE  rows[<<s, l>>] = 0 /\ ~InHand(s, l)'
    BY <1>1, <1>a, <2>1 DEF Unopened
  <2>2. rows[<<r, k>>] = 0
    BY <1>1 DEF Unopened
  <2>3. \A s \in OneShot : pass'.rule = {s} => pass'.over = {}
    BY <1>1 DEF Unopened
  <2> QED
    BY <1>1, <1>2, <1>a, <2>1, <2>2, <2>3 DEF Unopened
<1>4. Alarm!TypeOK'
  BY <1>1, <1>2 DEF Alarm!dispatch, PassShape
<1>5. Accounted'
  <2> SUFFICES ASSUME NEW s \in Rule, NEW l \in Key
               PROVE  /\ rows[<<s, l>>] <= 1
                      /\ told'[<<s, l>>] <= rows[<<s, l>>] + faults
                                              + (IF InHand(s, l)' THEN 1 ELSE 0)
    BY <1>2 DEF Accounted
  <2>1. rows[<<s, l>>] <= 1 /\ told[<<s, l>>] <= rows[<<s, l>>] + faults
    BY <1>b DEF Accounted
  <2>2. rows[<<s, l>>] \in Nat /\ told[<<s, l>>] \in Nat /\ faults \in Nat
    OBVIOUS
  <2>3. told'[<<s, l>>] = told[<<s, l>>] + (IF s = r /\ l = k THEN 1 ELSE 0)
    BY DEF Alarm!dispatch
  <2> QED
    BY <1>a, <2>1, <2>2, <2>3
<1> QED
  BY <1>1, <1>3, <1>4, <1>5

LEMMA AlarmWrites ==
    ASSUME Bounds, AlarmInv, NEW r \in Rule, NEW k \in Key,
           Alarm!Insert(r, k) \/ Alarm!Resolve(r, k)
    PROVE  AlarmInv'
<1> USE DEF Bounds, AlarmInv, Alarm!TypeOK, Alarm!Alarm
<1>1. CASE Alarm!Insert(r, k)
  <2>1. /\ PassShape' /\ pass'.at # "insert"
        /\ (pass'.rule = {r} \/ pass'.rule = {})
        /\ pass'.new \in {{}, pass.new} /\ pass'.over \in {{}, pass.over}
        /\ (pass'.at \in {"idle", "rules"} => pass'.new = {} /\ pass'.over = {})
        /\ (pass'.at = "over" => pass'.new = {}) /\ pass'.at # "open"
    BY <1>1, AlarmProceeds DEF Alarm!Insert, PassShape
  <2>2. /\ pass.at = "insert" /\ pass.rule = {r} /\ pass.firing = {k}
        /\ rows' = [rows EXCEPT ![<<r, k>>] = @ + 1]
        /\ UNCHANGED <<holds, enabled, told, changes, faults>>
    BY <1>1 DEF Alarm!Insert
  <2>3. rows[<<r, k>>] = 0 /\ k \notin pass.new
    BY <2>2 DEF Unopened, InHand
  <2>a. \A s \in Rule, l \in Key : InHand(s, l) <=> s = r /\ l = k
    BY <2>2 DEF InHand
  <2>b. \A s \in Rule, l \in Key : ~InHand(s, l)'
    BY <2>1 DEF InHand
  <2>4. Unopened'
    <3>1. ASSUME NEW s \in Rule, NEW l \in Key, pass'.rule = {s}, l \in pass'.new
          PROVE  rows'[<<s, l>>] = 0
      <4>1. s = r /\ l # k /\ l \in pass.new
        BY <2>1, <2>3, <3>1
      <4>2. rows[<<s, l>>] = 0
        BY <2>2, <4>1 DEF Unopened
      <4> QED
        BY <2>2, <4>1, <4>2
    <3>2. \A s \in OneShot : pass'.rule = {s} => pass'.over = {}
      BY <2>1, <2>2 DEF Unopened
    <3> QED
      BY <2>1, <2>b, <3>1, <3>2 DEF Unopened
  <2>5. Accounted'
    <3> SUFFICES ASSUME NEW s \in Rule, NEW l \in Key
                 PROVE  /\ rows'[<<s, l>>] <= 1
                        /\ told[<<s, l>>] <= rows'[<<s, l>>] + faults
                                               + (IF InHand(s, l)' THEN 1 ELSE 0)
      BY <2>2 DEF Accounted
    <3>1. rows[<<s, l>>] \in Nat /\ told[<<s, l>>] \in Nat /\ faults \in Nat
      OBVIOUS
    <3>2. rows'[<<s, l>>] = IF s = r /\ l = k THEN 1 ELSE rows[<<s, l>>]
      BY <2>2, <2>3
    <3>3. /\ rows[<<s, l>>] <= 1
          /\ told[<<s, l>>] <= rows[<<s, l>>] + faults + (IF s = r /\ l = k THEN 1 ELSE 0)
      BY <2>a DEF Accounted
    <3> QED
      BY <2>3, <2>b, <3>1, <3>2, <3>3
  <2>6. Alarm!TypeOK'
    BY <2>1, <2>2 DEF PassShape
  <2> QED
    BY <2>1, <2>4, <2>5, <2>6
<1>2. CASE Alarm!Resolve(r, k)
  <2> DEFINE p == [pass EXCEPT !.over = @ \ {k}]
  <2>1. /\ p \in [at : {"idle", "rules", "open", "new", "insert", "over"},
                  left : SUBSET Rule, rule : SUBSET Rule,
                  firing : SUBSET Key, new : SUBSET Key, over : SUBSET Key]
        /\ p.new = pass.new /\ p.over = pass.over \ {k} /\ p.rule = {r} /\ pass' = Alarm!Proceed(p)
        /\ pass.rule = {r} /\ pass.at = "over" /\ pass.new = {} /\ r \notin OneShot
    BY <1>2 DEF Alarm!Resolve, PassShape, Unopened
  <2>2. /\ PassShape' /\ pass'.at \in {"idle", "rules", "over"}
        /\ pass'.new = {} /\ (pass'.rule = {r} \/ pass'.rule = {})
        /\ (pass'.at \in {"idle", "rules"} => pass'.over = {})
        /\ (pass'.over = {} \/ r \notin OneShot)
    <3> HIDE DEF p
    <3> QED
      BY <2>1, AlarmProceeds DEF PassShape
  <2>3. /\ rows' = [rows EXCEPT ![<<r, k>>] = 0] /\ told' = [told EXCEPT ![<<r, k>>] = 0]
        /\ UNCHANGED <<holds, enabled, changes, faults>>
    BY <1>2, <2>1 DEF Alarm!Resolve
  <2>4. Unopened'
    BY <2>1, <2>2, <2>3 DEF Unopened, InHand
  <2>5. Accounted'
    <3> SUFFICES ASSUME NEW s \in Rule, NEW l \in Key
                 PROVE  /\ rows'[<<s, l>>] <= 1
                        /\ told'[<<s, l>>] <= rows'[<<s, l>>] + faults
                                                + (IF InHand(s, l)' THEN 1 ELSE 0)
      BY <2>3 DEF Accounted
    <3>0. ~InHand(s, l)'
      BY <2>2 DEF InHand
    <3>1. rows[<<s, l>>] \in Nat /\ told[<<s, l>>] \in Nat /\ faults \in Nat
      OBVIOUS
    <3>2. /\ rows'[<<s, l>>] = IF s = r /\ l = k THEN 0 ELSE rows[<<s, l>>]
          /\ told'[<<s, l>>] = IF s = r /\ l = k THEN 0 ELSE told[<<s, l>>]
      BY <2>3
    <3>3. rows[<<s, l>>] <= 1 /\ told[<<s, l>>] <= rows[<<s, l>>] + faults
      BY <2>1 DEF Accounted, InHand
    <3> QED
      BY <3>0, <3>1, <3>2, <3>3
  <2>6. Alarm!TypeOK'
    BY <2>2, <2>3 DEF PassShape
  <2> QED
    BY <2>2, <2>4, <2>5, <2>6
<1> QED
  BY <1>1, <1>2

LEMMA AlarmKept ==
    ASSUME Bounds, AlarmInv, [Alarm!Next]_Alarm!vars
    PROVE  AlarmInv'
  BY AlarmOutside, AlarmQuiet, AlarmReads, AlarmTells, AlarmWrites
     DEF Alarm!Next, Alarm!evaluateAlerts

LEMMA ToldOnceEach == ASSUME Bounds, AlarmInv PROVE Alarm!TypeOK /\ Alarm!ToldOnce
<1> SUFFICES ASSUME NEW r \in Rule, NEW k \in Key
             PROVE  told[<<r, k>>] <= 1 + faults /\ rows[<<r, k>>] <= 1
  BY DEF AlarmInv, Alarm!ToldOnce, Alarm!Alarm
<1>1. rows[<<r, k>>] \in Nat /\ told[<<r, k>>] \in Nat /\ faults \in Nat
  BY DEF AlarmInv, Alarm!TypeOK, Alarm!Alarm, Bounds
<1>2. InHand(r, k) => rows[<<r, k>>] = 0
  BY DEF AlarmInv, Unopened
<1> QED
  BY <1>1, <1>2 DEF AlarmInv, Accounted

\* Alerts: while an alert is open nobody is told of it again.  Only a pass that
\* failed after it had reported and before it had written repeats itself, once a
\* failure (worker/alerts.ts).
THEOREM AlertsToldOnce == Bounds => (Alarm!Spec => [](Alarm!TypeOK /\ Alarm!ToldOnce))
<1> SUFFICES ASSUME Bounds PROVE Alarm!Spec => [](Alarm!TypeOK /\ Alarm!ToldOnce)
  OBVIOUS
<1> QED
  BY AlarmStart, AlarmKept, ToldOnceEach, PTL DEF Alarm!Spec

-----------------------------------------------------------------------------
(* The least of a set of ids.                                              *)

LEMMA LeastNat ==
    ASSUME NEW S \in SUBSET Nat, S # {}
    PROVE  \E x \in S : \A y \in S : x <= y
<1>1. PICK x \in S : \A y \in S : ~(<<y, x>> \in OpToRel(<, Nat))
  BY NatLessThanWellFounded, WFMin
<1>2. \A y \in S : ~(y < x)
  BY <1>1 DEF OpToRel
<1> QED
  BY <1>2

-----------------------------------------------------------------------------
(* The message patch: the inductive invariant.                             *)

\* Messages are told apart by their id.
Messages == Msg \subseteq Nat /\ MaxFaults \in Nat

\* Heard over the air and over another gateway, while the hold ran.
Both(m) == {<<"station", "rf">>, <<"gateway", "mqtt">>} \subseteq heard[m]

\* A copy that came within the hold is a reception for good: only the copy of the
\* station's own uplink is ever replaced.
HeardKept ==
    \A m \in Msg : \A c \in {<<"station", "rf">>, <<"gateway", "mqtt">>} :
        c \in heard[m] => c \in rec[m]

\* What is carried across has been held, is not ours, and was on one transport.
CarriedRightly ==
    \A m \in Msg : uplinks[m] > 0 \/ queued[m] > 0 =>
        msg[m].age \in {"held", "old"} /\ msg[m].from # "us" /\ ~Both(m)

\* The same of the candidates, as the patcher listed them.
ListedRightly ==
    pass.job = "patch" => \A m \in pass.todo :
        /\ msg[m].age \in {"held", "old"} /\ msg[m].from # "us"
        /\ Both(m) => pass.on[m] = Carry!Transport

CarryInv == Carry!TypeOK /\ HeardKept /\ CarriedRightly /\ ListedRightly

LEMMA CarryStart == ASSUME Messages, Carry!Init PROVE CarryInv
<1> USE DEF Messages
<1>1. Carry!TypeOK
  BY DEF Carry!Init, Carry!TypeOK, Carry!Absent, Carry!Idle
<1> QED
  BY <1>1 DEF Carry!Init, CarryInv, HeardKept, CarriedRightly, ListedRightly, Carry!Idle

\* A copy is added to the receptions of one message.
LEMMA EnvelopeAdds ==
    ASSUME Carry!TypeOK, NEW m \in Msg, NEW c \in Carry!Copy, Carry!applyEnvelope(m, c)
    PROVE  /\ rec' \in [Msg -> SUBSET Carry!Copy]
           /\ \A n \in Msg : n # m => rec'[n] = rec[n]
           /\ \A d \in {<<"station", "rf">>, <<"gateway", "mqtt">>} :
                  d \in rec[m] \/ d = c => d \in rec'[m]
  BY DEF Carry!TypeOK, Carry!applyEnvelope, Carry!Copy

LEMMA CarryArrives ==
    ASSUME Messages, CarryInv, NEW m \in Msg, Carry!Arrive(m) \/ Carry!ArriveAgain(m)
    PROVE  CarryInv'
<1> USE DEF Messages, CarryInv
<1>1. CASE Carry!Arrive(m)
  <2>1. PICK c \in Carry!Copy, ok \in BOOLEAN, from \in {"user", "us"} :
          /\ msg' = [msg EXCEPT ![m] = [Carry!Absent EXCEPT !.from = from, !.ok = ok, !.age = "new"]]
          /\ Carry!applyEnvelope(m, c)
          /\ heard' = [heard EXCEPT ![m] = {c}]
    BY <1>1 DEF Carry!Arrive
  <2>2. msg[m].age = "absent" /\ UNCHANGED <<pass, up, uplinks, queued, fed, faults>>
    BY <1>1 DEF Carry!Arrive
  <2>3. /\ rec' \in [Msg -> SUBSET Carry!Copy]
        /\ \A n \in Msg : n # m => rec'[n] = rec[n]
        /\ \A d \in {<<"station", "rf">>, <<"gateway", "mqtt">>} : d = c => d \in rec'[m]
    BY <2>1, EnvelopeAdds
  <2>4. Carry!TypeOK'
    BY <2>1, <2>2, <2>3 DEF Carry!TypeOK, Carry!Absent
  <2>6. /\ \A n \in Msg : n # m => msg'[n] = msg[n] /\ heard'[n] = heard[n]
        /\ heard'[m] = {c}
    BY <2>1 DEF Carry!TypeOK
  <2>5. HeardKept'
    <3>1. \A d \in {<<"station", "rf">>, <<"gateway", "mqtt">>} :
             d \in heard'[m] => d \in rec'[m]
      BY <2>3, <2>6
    <3> QED
      BY <2>3, <2>6, <3>1 DEF HeardKept
  <2>7. CarriedRightly'
    BY <2>2, <2>6 DEF CarriedRightly, Carry!TypeOK, Both
  <2>8. ListedRightly'
    BY <2>2, <2>6 DEF ListedRightly, Carry!TypeOK, Both
  <2> QED
    BY <2>4, <2>5, <2>7, <2>8
<1>2. CASE Carry!ArriveAgain(m)
  <2>1. PICK c \in Carry!Copy :
          /\ Carry!applyEnvelope(m, c)
          /\ heard' = [heard EXCEPT ![m] = IF msg[m].age = "new" THEN @ \union {c} ELSE @]
    BY <1>2 DEF Carry!ArriveAgain
  <2>2. UNCHANGED <<msg, pass, up, uplinks, queued, fed, faults>>
    BY <1>2 DEF Carry!ArriveAgain
  <2>3. /\ rec' \in [Msg -> SUBSET Carry!Copy]
        /\ \A n \in Msg : n # m => rec'[n] = rec[n]
        /\ \A d \in {<<"station", "rf">>, <<"gateway", "mqtt">>} :
               d \in rec[m] \/ d = c => d \in rec'[m]
    BY <2>1, EnvelopeAdds
  <2>4. Carry!TypeOK'
    BY <2>1, <2>2, <2>3 DEF Carry!TypeOK
  <2>5. \A n \in Msg : /\ n # m => heard'[n] = heard[n]
                       /\ heard'[n] \subseteq heard[n] \union {c}
                       /\ msg[n].age # "new" => heard'[n] = heard[n]
    BY <2>1 DEF Carry!TypeOK
  <2>6. HeardKept'
    BY <2>3, <2>5 DEF HeardKept
  <2>7. CarriedRightly' /\ ListedRightly'
    BY <2>2, <2>5 DEF CarriedRightly, ListedRightly, Carry!TypeOK, Both
  <2> QED
    BY <2>4, <2>6, <2>7
<1> QED
  BY <1>1, <1>2

LEMMA CarryAges ==
    ASSUME Messages, CarryInv,
           \/ \E m \in Msg : Carry!Age(m)
           \/ Carry!BrokerChanges
           \/ UNCHANGED Carry!vars
    PROVE  CarryInv'
<1> USE DEF Messages, CarryInv
<1>1. ASSUME NEW m \in Msg, Carry!Age(m) PROVE CarryInv'
  <2>1. UNCHANGED <<rec, heard, pass, up, uplinks, queued, fed, faults>>
    BY <1>1 DEF Carry!Age
  <2>2. /\ \A n \in Msg : /\ msg'[n].from = msg[n].from
                          /\ msg[n].age \in {"held", "old"} => msg'[n].age \in {"held", "old"}
        /\ msg' \in [Msg -> [from : {"nobody", "user", "us"}, ok : BOOLEAN,
                             age : {"absent", "new", "held", "old"},
                             bridged : BOOLEAN, feed : BOOLEAN]]
    BY <1>1 DEF Carry!Age, Carry!TypeOK
  <2> QED
    BY <2>1, <2>2 DEF Carry!TypeOK, HeardKept, CarriedRightly, ListedRightly, Both
<1>2. CASE Carry!BrokerChanges
  <2>1. Carry!TypeOK'
    BY <1>2 DEF Carry!BrokerChanges, Carry!Fault, Carry!TypeOK
  <2> QED
    BY <1>2, <2>1 DEF Carry!BrokerChanges, HeardKept, CarriedRightly, ListedRightly, Both
<1>3. CASE UNCHANGED Carry!vars
  BY <1>3 DEF Carry!vars, Carry!TypeOK, HeardKept, CarriedRightly, ListedRightly, Both
<1> QED
  BY <1>1, <1>2, <1>3

\* The message that a job has come to is one of its candidates.
LEMMA HeadListed ==
    ASSUME Messages, Carry!TypeOK, pass.todo # {}
    PROVE  Carry!Head \in pass.todo /\ Carry!Head \in Msg
<1>1. pass.todo \in SUBSET Nat /\ pass.todo \subseteq Msg
  BY DEF Messages, Carry!TypeOK
<1> QED
  BY <1>1, LeastNat DEF Carry!Head, Carry!Min

\* Steps of the pass that leave the messages and what was carried alone, and
\* list nothing to patch but what is listed.
LEMMA CarryMoves ==
    ASSUME Messages, CarryInv, Carry!TypeOK',
           UNCHANGED <<msg, rec, heard, uplinks, queued>>,
           pass'.job = "patch" =>
             /\ pass.job = "patch" /\ pass'.todo \subseteq pass.todo
             /\ \A m \in pass'.todo : pass'.on[m] = pass.on[m]
    PROVE  CarryInv'
  BY DEF CarryInv, HeardKept, CarriedRightly, ListedRightly, Both

LEMMA CarryQuiet ==
    ASSUME Messages, CarryInv,
           \/ Carry!LeaveAlone \/ Carry!ListFeed \/ Carry!Ineligible
           \/ Carry!PublishToFeed \/ Carry!FeedFails \/ Carry!FeedDone
           \/ Carry!MarkThrows \/ Carry!Crash
    PROVE  CarryInv'
<1> USE DEF Messages
<1>0. Carry!TypeOK
  BY DEF CarryInv
<1>1. CASE Carry!LeaveAlone
  <2>1. Carry!TypeOK'
    BY <1>0, <1>1 DEF Carry!TypeOK, Carry!LeaveAlone
  <2> QED
    BY <1>0, <1>1, <2>1, CarryMoves DEF Carry!TypeOK, Carry!LeaveAlone
<1>2. CASE Carry!ListFeed
  <2>1. Carry!TypeOK' /\ pass'.job = "feed"
    BY <1>0, <1>2 DEF Carry!TypeOK, Carry!ListFeed, Carry!Idle
  <2> QED
    BY <1>2, <2>1, CarryMoves DEF Carry!ListFeed
<1>3. CASE Carry!Ineligible
  <2>1. Carry!TypeOK' /\ pass'.job = "feed"
    BY <1>0, <1>3 DEF Carry!TypeOK, Carry!Ineligible, Carry!Feeding
  <2> QED
    BY <1>3, <2>1, CarryMoves DEF Carry!Ineligible
<1>4. CASE Carry!PublishToFeed
  <2>1. Carry!Head \in Msg
    BY <1>0, <1>4, HeadListed DEF Carry!PublishToFeed, Carry!Feeding
  <2>2. Carry!TypeOK' /\ pass'.job = "feed"
    BY <1>0, <1>4, <2>1 DEF Carry!TypeOK, Carry!PublishToFeed, Carry!Feeding
  <2> QED
    BY <1>4, <2>2, CarryMoves DEF Carry!PublishToFeed
<1>5. CASE Carry!FeedFails \/ Carry!FeedDone
  <2>1. Carry!TypeOK' /\ pass'.job = "idle"
    BY <1>0, <1>5 DEF Carry!TypeOK, Carry!FeedFails, Carry!FeedDone, Carry!Idle
  <2> QED
    BY <1>5, <2>1, CarryMoves DEF Carry!FeedFails, Carry!FeedDone
<1>6. CASE Carry!MarkThrows
  <2>1. /\ Carry!TypeOK'
        /\ pass'.job = "patch" => pass.job = "patch" /\ pass'.todo = {}
    <3>1. /\ pass' \in [job : {"idle", "patch", "feed"}, todo : SUBSET Msg,
                        on : [Msg -> SUBSET Carry!Transport], at : {"next", "mark"}]
          /\ pass'.job = "patch" => pass.job = "patch" /\ pass'.todo = {}
      <4>1. CASE pass.job = "patch"
        BY <1>0, <1>6, <4>1 DEF Carry!TypeOK, Carry!MarkThrows
      <4>2. CASE pass.job # "patch"
        <5>1. pass' = [job |-> "idle", todo |-> {}, on |-> [m \in Msg |-> {}], at |-> "next"]
          BY <1>6, <4>2 DEF Carry!MarkThrows, Carry!Idle
        <5> QED
          BY <5>1
      <4> QED
        BY <4>1, <4>2
    <3>2. /\ faults' \in 0..MaxFaults
          /\ UNCHANGED <<msg, rec, heard, up, uplinks, queued, fed>>
      BY <1>0, <1>6 DEF Carry!MarkThrows, Carry!Fault, Carry!TypeOK
    <3> QED
      BY <1>0, <3>1, <3>2 DEF Carry!TypeOK
  <2> QED
    BY <1>6, <2>1, CarryMoves DEF Carry!MarkThrows
<1>7. CASE Carry!Crash
  <2>1. Carry!TypeOK' /\ pass'.job = "idle"
    BY <1>0, <1>7 DEF Carry!TypeOK, Carry!Crash, Carry!Fault, Carry!Idle
  <2> QED
    BY <1>7, <2>1, CarryMoves DEF Carry!Crash
<1> QED
  BY <1>1, <1>2, <1>3, <1>4, <1>5, <1>6, <1>7

\* The candidates were held, are not ours, and are listed with their transports.
LEMMA CarryLists ==
    ASSUME Messages, CarryInv, Carry!ListCandidates
    PROVE  CarryInv'
<1> USE DEF Messages, CarryInv
<1>1. UNCHANGED <<msg, rec, heard, up, uplinks, queued, fed, faults>>
  BY DEF Carry!ListCandidates
<1>2. /\ pass' = [job |-> "patch", todo |-> Carry!Candidates, at |-> "next",
                  on |-> [m \in Msg |-> IF m \in Carry!Candidates THEN Carry!On(m) ELSE {}]]
      /\ Carry!Candidates \subseteq Msg
  BY DEF Carry!ListCandidates, Carry!Candidates
<1>3. \A m \in Msg : Carry!On(m) \subseteq Carry!Transport
  BY DEF Carry!On, Carry!TypeOK, Carry!Copy, Carry!Transport
<1>4. Carry!TypeOK'
  BY <1>1, <1>2, <1>3 DEF Carry!TypeOK
<1>5. ASSUME NEW m \in Msg, Both(m) PROVE Carry!On(m) = Carry!Transport
  <2>1. <<"station", "rf">> \in rec[m] /\ <<"gateway", "mqtt">> \in rec[m]
    BY <1>5 DEF Both, HeardKept
  <2>2. "rf" \in Carry!On(m) /\ "mqtt" \in Carry!On(m)
    BY <2>1 DEF Carry!On
  <2> QED
    BY <1>3, <2>2 DEF Carry!Transport
<1>6. \A m \in Carry!Candidates : msg[m].age = "held" /\ msg[m].from # "us"
  BY DEF Carry!Candidates
<1>7. ListedRightly'
  BY <1>1, <1>2, <1>5, <1>6 DEF ListedRightly, Both
<1>8. HeardKept' /\ CarriedRightly'
  BY <1>1 DEF HeardKept, CarriedRightly, Both
<1> QED
  BY <1>4, <1>7, <1>8

\* Carried across: it was listed on one transport only.
LEMMA CarryCarries ==
    ASSUME Messages, CarryInv, Carry!PatchOntoRf \/ Carry!PatchOntoMqtt
    PROVE  CarryInv'
<1> USE DEF Messages, CarryInv
<1>1. /\ Carry!Head \in pass.todo /\ Carry!Head \in Msg
      /\ pass.job = "patch" /\ pass.on[Carry!Head] # Carry!Transport
  <2>1. pass.todo # {} /\ pass.job = "patch" /\ pass.on[Carry!Head] # Carry!Transport
    BY DEF Carry!PatchOntoRf, Carry!PatchOntoMqtt, Carry!Patching, Carry!Transport
  <2> QED
    BY <2>1, HeadListed
<1>2. PICK h \in Msg : h = Carry!Head
  BY <1>1
<1>3. msg[h].age \in {"held", "old"} /\ msg[h].from # "us" /\ ~Both(h)
  BY <1>1, <1>2 DEF ListedRightly
<1>4. /\ UNCHANGED <<msg, rec, heard, up, fed>>
      /\ pass' = [pass EXCEPT !.at = "mark"]
      /\ queued' = [queued EXCEPT ![h] = @ + 1] \/ queued' = queued
      /\ uplinks' = [uplinks EXCEPT ![h] = @ + 1] \/ uplinks' = uplinks
      /\ faults' \in 0..MaxFaults
  BY <1>2 DEF Carry!PatchOntoRf, Carry!PatchOntoMqtt, Carry!Fault, Carry!TypeOK
<1>5. /\ Carry!TypeOK'
      /\ \A m \in Msg : m # h => uplinks'[m] = uplinks[m] /\ queued'[m] = queued[m]
  <2>1. /\ queued' \in [Msg -> Nat]
        /\ \A m \in Msg : m # h => queued'[m] = queued[m]
    BY <1>4 DEF Carry!TypeOK
  <2>2. /\ uplinks' \in [Msg -> Nat]
        /\ \A m \in Msg : m # h => uplinks'[m] = uplinks[m]
    BY <1>4 DEF Carry!TypeOK
  <2>3. pass' \in [job : {"idle", "patch", "feed"}, todo : SUBSET Msg,
                  on : [Msg -> SUBSET Carry!Transport], at : {"next", "mark"}]
    BY <1>4 DEF Carry!TypeOK
  <2> QED
    BY <1>4, <2>1, <2>2, <2>3 DEF Carry!TypeOK
<1>6. CarriedRightly'
  BY <1>3, <1>4, <1>5 DEF CarriedRightly, Both
<1>7. pass'.todo = pass.todo /\ pass'.on = pass.on /\ pass'.job = pass.job
  BY <1>4 DEF Carry!TypeOK
<1>8. HeardKept' /\ ListedRightly'
  BY <1>4, <1>7 DEF HeardKept, ListedRightly, Both
<1> QED
  BY <1>5, <1>6, <1>8

LEMMA CarryMarks == ASSUME Messages, CarryInv, Carry!Mark PROVE CarryInv'
<1> USE DEF Messages, CarryInv
<1>1. PICK h \in Msg : h = Carry!Head
  BY HeadListed DEF Carry!Mark
<1>2. /\ pass' = [pass EXCEPT !.todo = @ \ {h}, !.on[h] = {}, !.at = "next"]
      /\ UNCHANGED <<rec, heard, up, uplinks, queued, fed, faults>>
  BY <1>1 DEF Carry!Mark
<1>3. /\ \A n \in Msg : msg'[n].from = msg[n].from /\ msg'[n].age = msg[n].age
      /\ msg' \in [Msg -> [from : {"nobody", "user", "us"}, ok : BOOLEAN,
                           age : {"absent", "new", "held", "old"},
                           bridged : BOOLEAN, feed : BOOLEAN]]
  <2> DEFINE Row == [from : {"nobody", "user", "us"}, ok : BOOLEAN,
                     age : {"absent", "new", "held", "old"},
                     bridged : BOOLEAN, feed : BOOLEAN]
             p == IF pass.job = "patch" THEN [msg[h] EXCEPT !.bridged = TRUE]
                                        ELSE [msg[h] EXCEPT !.feed = TRUE]
  <2>1. msg[h] \in Row /\ msg \in [Msg -> Row]
    BY DEF Carry!TypeOK
  <2>2. p \in Row /\ p.from = msg[h].from /\ p.age = msg[h].age
    <3> HIDE DEF Row
    <3>1. \A x \in Row : /\ [x EXCEPT !.bridged = TRUE] \in Row
                          /\ [x EXCEPT !.feed = TRUE] \in Row
      BY DEF Row
    <3>2. \A x \in Row : /\ [x EXCEPT !.bridged = TRUE].from = x.from
                          /\ [x EXCEPT !.bridged = TRUE].age = x.age
                          /\ [x EXCEPT !.feed = TRUE].from = x.from
                          /\ [x EXCEPT !.feed = TRUE].age = x.age
      BY DEF Row
    <3> QED
      BY <2>1, <3>1, <3>2
  <2>3. msg' = [msg EXCEPT ![h] = p]
    BY <1>1 DEF Carry!Mark
  <2> HIDE DEF p, Row
  <2>4. msg' \in [Msg -> Row]
    BY <2>1, <2>2, <2>3
  <2>5. \A n \in Msg : msg'[n].from = msg[n].from /\ msg'[n].age = msg[n].age
    BY <2>1, <2>2, <2>3
  <2> QED
    BY <2>4, <2>5 DEF Row
<1>4. /\ pass'.todo = pass.todo \ {h} /\ pass'.job = pass.job /\ pass'.at = "next"
      /\ pass'.on = [pass.on EXCEPT ![h] = {}]
      /\ pass' \in [job : {"idle", "patch", "feed"}, todo : SUBSET Msg,
                    on : [Msg -> SUBSET Carry!Transport], at : {"next", "mark"}]
  BY <1>2 DEF Carry!TypeOK
<1>5. Carry!TypeOK'
  BY <1>2, <1>3, <1>4 DEF Carry!TypeOK
<1>6. HeardKept' /\ CarriedRightly'
  BY <1>2, <1>3 DEF HeardKept, CarriedRightly, Both
<1>7. ListedRightly'
  BY <1>2, <1>3, <1>4 DEF ListedRightly, Both, Carry!TypeOK
<1> QED
  BY <1>5, <1>6, <1>7

LEMMA CarryKept ==
    ASSUME Messages, CarryInv, [Carry!Next]_Carry!vars
    PROVE  CarryInv'
<1>1. CASE \E m \in Msg : Carry!Arrive(m) \/ Carry!ArriveAgain(m)
  BY <1>1, CarryArrives
<1>2. CASE \/ \E m \in Msg : Carry!Age(m)
           \/ Carry!BrokerChanges
           \/ UNCHANGED Carry!vars
  BY <1>2, CarryAges
<1>3. CASE Carry!Tick
  BY <1>3, CarryQuiet, CarryLists, CarryCarries, CarryMarks DEF Carry!Tick
<1>4. CASE Carry!MarkThrows \/ Carry!Crash
  BY <1>4, CarryQuiet
<1> QED
  BY <1>1, <1>2, <1>3, <1>4 DEF Carry!Next

LEMMA CarriesOnce == CarryInv => Carry!HoldPreventsDoubling /\ Carry!NoEcho
<1> SUFFICES ASSUME CarryInv, NEW m \in Msg
             PROVE  /\ ~Carry!Doubled(m, <<"gateway", "mqtt">>)
                    /\ msg[m].from = "us" => uplinks[m] + queued[m] = 0
  BY DEF Carry!HoldPreventsDoubling, Carry!NoEcho
<1>1. uplinks[m] \in Nat /\ queued[m] \in Nat
  BY DEF CarryInv, Carry!TypeOK
<1>2. uplinks[m] + queued[m] > 0 => msg[m].from # "us" /\ ~Both(m)
  BY <1>1 DEF CarryInv, CarriedRightly
<1> QED
  BY <1>1, <1>2 DEF Carry!Doubled, Both

\* Relay: a message that was heard on both transports while the hold ran is
\* carried to neither, and what the bridge itself sent never is, whatever fails
\* between a publish and its mark (worker/patch.ts).
THEOREM PatchCarriesOnce ==
    Messages => (Carry!Spec => [](Carry!HoldPreventsDoubling /\ Carry!NoEcho))
<1> SUFFICES ASSUME Messages
             PROVE  Carry!Spec => [](Carry!HoldPreventsDoubling /\ Carry!NoEcho)
  OBVIOUS
<1> QED
  BY CarryStart, CarryKept, CarriesOnce, PTL DEF Carry!Spec

-----------------------------------------------------------------------------
(* The patch and the feed: what is published is marked, or was repeated by a *)
(* failure.                                                                  *)

\* What is still to be handled has arrived and bears no mark of this job, and a
\* mark is only about to be set on what the job has listed.
Unmarked ==
    /\ \A m \in Msg : msg[m].bridged \/ msg[m].feed => msg[m].age # "absent"
    /\ \A m \in pass.todo :
         /\ msg[m].age # "absent"
         /\ pass.job = "patch" => ~msg[m].bridged
         /\ pass.job # "patch" => pass.job = "feed" /\ ~msg[m].feed
    /\ pass.at = "mark" => pass.todo # {}

RoundInv == Unmarked /\ IsFiniteSet(Carry!Published) /\ Carry!RepeatsNeedFaults

LEMMA CarrySizes == \A S : Carry!Cardinality(S) = Cardinality(S)
  BY DEF Carry!Cardinality, Cardinality

LEMMA MarksFinite ==
    ASSUME IsFiniteSet(Msg)
    PROVE  /\ IsFiniteSet(Carry!Bridged) /\ IsFiniteSet(Carry!OnTheFeed)
           /\ Cardinality(Carry!Bridged) \in Nat /\ Cardinality(Carry!OnTheFeed) \in Nat
<1>1. Carry!Bridged \subseteq Msg /\ Carry!OnTheFeed \subseteq Msg
  BY DEF Carry!Bridged, Carry!OnTheFeed
<1> QED
  BY <1>1, FS_Subset, FS_CardinalityType

LEMMA CopiesNat == ASSUME Carry!TypeOK PROVE \A m \in Msg : Carry!Copies(m) \in Nat
  BY DEF Carry!TypeOK, Carry!Copies

\* The same copies are published as long as no counter moves.
LEMMA PublishedStays ==
    ASSUME UNCHANGED <<uplinks, queued, fed>> PROVE Carry!Published' = Carry!Published
  BY DEF Carry!Published, Carry!Copies

\* One more copy of one message.
LEMMA PublishedGrows ==
    ASSUME Carry!TypeOK, IsFiniteSet(Carry!Published), NEW h \in Msg,
           \A m \in Msg \ {h} : Carry!Copies(m)' = Carry!Copies(m),
           Carry!Copies(h)' = Carry!Copies(h) + 1
    PROVE  /\ IsFiniteSet(Carry!Published')
           /\ Cardinality(Carry!Published') \in Nat /\ Cardinality(Carry!Published) \in Nat
           /\ Cardinality(Carry!Published') <= Cardinality(Carry!Published) + 1
<1> DEFINE one == <<h, Carry!Copies(h) + 1>>
<1>1. Carry!Published' \subseteq Carry!Published \union {one}
  <2> SUFFICES ASSUME NEW x \in Carry!Published' PROVE x \in Carry!Published \union {one}
    OBVIOUS
  <2>1. PICK m \in Msg : x \in {m} \X (1..Carry!Copies(m)')
    BY DEF Carry!Published
  <2>2. PICK i \in 1..Carry!Copies(m)' : x = <<m, i>>
    BY <2>1
  <2>3. Carry!Copies(m) \in Nat
    BY CopiesNat
  <2>4. i \in 1..Carry!Copies(m) \/ (m = h /\ i = Carry!Copies(h) + 1)
    BY <2>2, <2>3
  <2>5. i \in 1..Carry!Copies(m) => x \in {m} \X (1..Carry!Copies(m))
    BY <2>2
  <2>6. x \in {m} \X (1..Carry!Copies(m)) => x \in Carry!Published
    BY DEF Carry!Published
  <2> QED
    BY <2>2, <2>4, <2>5, <2>6
<1> HIDE DEF one
<1>2. /\ IsFiniteSet(Carry!Published \union {one})
      /\ Cardinality(Carry!Published \union {one}) <= Cardinality(Carry!Published) + 1
      /\ Cardinality(Carry!Published) \in Nat
  <2>1. Cardinality(Carry!Published) \in Nat
    BY FS_CardinalityType
  <2> QED
    BY <2>1, FS_AddElement
<1>3. /\ IsFiniteSet(Carry!Published')
      /\ Cardinality(Carry!Published') <= Cardinality(Carry!Published \union {one})
  BY <1>1, <1>2, FS_Subset
<1>4. Cardinality(Carry!Published') \in Nat /\ Cardinality(Carry!Published \union {one}) \in Nat
  BY <1>2, <1>3, FS_CardinalityType
<1> QED
  BY <1>2, <1>3, <1>4

\* The account when nothing is published and no mark is set.
LEMMA AccountStays ==
    ASSUME Messages, IsFiniteSet(Msg), CarryInv, RoundInv, Carry!TypeOK',
           UNCHANGED <<uplinks, queued, fed>>,
           Carry!Bridged' = Carry!Bridged, Carry!OnTheFeed' = Carry!OnTheFeed,
           faults <= faults',
           pass.at = "mark" => pass'.at = "mark" \/ faults' = faults + 1
    PROVE  IsFiniteSet(Carry!Published') /\ Carry!RepeatsNeedFaults'
<1>1. Carry!Published' = Carry!Published
  BY PublishedStays
<1>2. /\ IsFiniteSet(Carry!Published) /\ Cardinality(Carry!Published) \in Nat
      /\ Cardinality(Carry!Bridged) \in Nat /\ Cardinality(Carry!OnTheFeed) \in Nat
  BY MarksFinite, FS_CardinalityType DEF RoundInv
<1>3. faults \in Nat /\ faults' \in Nat
  BY DEF CarryInv, Carry!TypeOK, Messages
<1>4. Cardinality(Carry!Published) <= Cardinality(Carry!Bridged) + Cardinality(Carry!OnTheFeed)
        + faults + (IF pass.at = "mark" THEN 1 ELSE 0)
  BY CarrySizes DEF RoundInv, Carry!RepeatsNeedFaults
<1>5. Cardinality(Carry!Published) <= Cardinality(Carry!Bridged) + Cardinality(Carry!OnTheFeed)
        + faults' + (IF pass'.at = "mark" THEN 1 ELSE 0)
  BY <1>2, <1>3, <1>4
<1> QED
  BY <1>1, <1>2, <1>5, CarrySizes DEF Carry!RepeatsNeedFaults

\* A copy goes out and its mark is to follow.
LEMMA AccountGrows ==
    ASSUME Messages, IsFiniteSet(Msg), CarryInv, RoundInv, Carry!TypeOK', NEW h \in Msg,
           \A m \in Msg \ {h} : Carry!Copies(m)' = Carry!Copies(m),
           Carry!Copies(h)' = Carry!Copies(h) + 1,
           UNCHANGED <<msg, faults>>, pass.at = "next", pass'.at = "mark"
    PROVE  IsFiniteSet(Carry!Published') /\ Carry!RepeatsNeedFaults'
<1>1. /\ IsFiniteSet(Carry!Published')
      /\ Cardinality(Carry!Published') \in Nat /\ Cardinality(Carry!Published) \in Nat
      /\ Cardinality(Carry!Published') <= Cardinality(Carry!Published) + 1
  BY PublishedGrows DEF CarryInv, RoundInv
<1>2. /\ Carry!Bridged' = Carry!Bridged /\ Carry!OnTheFeed' = Carry!OnTheFeed
      /\ Cardinality(Carry!Bridged) \in Nat /\ Cardinality(Carry!OnTheFeed) \in Nat
  BY MarksFinite DEF Carry!Bridged, Carry!OnTheFeed
<1>3. faults \in Nat
  BY DEF CarryInv, Carry!TypeOK, Messages
<1>4. Cardinality(Carry!Published) <= Cardinality(Carry!Bridged) + Cardinality(Carry!OnTheFeed)
        + faults
  BY <1>1, <1>2, <1>3, CarrySizes DEF RoundInv, Carry!RepeatsNeedFaults
<1>5. Cardinality(Carry!Published') <= Cardinality(Carry!Bridged) + Cardinality(Carry!OnTheFeed)
        + faults + 1
  BY <1>1, <1>2, <1>3, <1>4
<1> QED
  BY <1>1, <1>2, <1>5, CarrySizes DEF Carry!RepeatsNeedFaults

LEMMA RoundStart ==
    ASSUME Messages, IsFiniteSet(Msg), Carry!Init PROVE RoundInv
<1>1. Unmarked
  BY DEF Carry!Init, Carry!Absent, Carry!Idle, Unmarked
<1>2. Carry!Published = {}
  <2> SUFFICES ASSUME NEW m \in Msg PROVE {m} \X (1..Carry!Copies(m)) = {}
    BY DEF Carry!Published
  <2>1. Carry!Copies(m) = 0
    BY DEF Carry!Init, Carry!Copies
  <2> QED
    BY <2>1
<1>3. Cardinality(Carry!Published) = 0 /\ IsFiniteSet(Carry!Published)
  BY <1>2, FS_EmptySet
<1>4. faults = 0 /\ pass.at = "next"
  BY DEF Carry!Init, Carry!Idle
<1>5. Carry!RepeatsNeedFaults
  BY <1>3, <1>4, MarksFinite, CarrySizes DEF Carry!RepeatsNeedFaults
<1> QED
  BY <1>1, <1>3, <1>5 DEF RoundInv

\* Messages arrive, grow old, and the broker comes and goes.
LEMMA RoundOutside ==
    ASSUME Messages, IsFiniteSet(Msg), CarryInv, CarryInv', RoundInv,
           \/ \E m \in Msg : Carry!Arrive(m) \/ Carry!ArriveAgain(m) \/ Carry!Age(m)
           \/ Carry!BrokerChanges \/ UNCHANGED Carry!vars
    PROVE  RoundInv'
<1> USE DEF Messages
<1>0. Carry!TypeOK /\ Carry!TypeOK'
  BY DEF CarryInv
<1>1. UNCHANGED <<pass, uplinks, queued, fed>>
  BY DEF Carry!Arrive, Carry!ArriveAgain, Carry!Age, Carry!BrokerChanges, Carry!vars
<1>2. faults <= faults'
  <2>1. faults \in Nat
    BY <1>0 DEF Carry!TypeOK
  <2>2. CASE Carry!BrokerChanges
    BY <2>1, <2>2 DEF Carry!BrokerChanges, Carry!Fault
  <2>3. CASE ~Carry!BrokerChanges
    <3>1. faults' = faults
      BY <2>3 DEF Carry!Arrive, Carry!ArriveAgain, Carry!Age, Carry!vars
    <3> QED
      BY <2>1, <3>1
  <2> QED
    BY <2>2, <2>3
<1>3. \A n \in Msg : /\ msg'[n].bridged = msg[n].bridged /\ msg'[n].feed = msg[n].feed
                     /\ msg[n].age # "absent" => msg'[n].age # "absent"
  <2>1. ASSUME NEW m \in Msg, Carry!Arrive(m), NEW n \in Msg
        PROVE  /\ msg'[n].bridged = msg[n].bridged /\ msg'[n].feed = msg[n].feed
               /\ msg[n].age # "absent" => msg'[n].age # "absent"
    <3>1. PICK ok \in BOOLEAN, from \in {"user", "us"} :
             msg' = [msg EXCEPT ![m] = [Carry!Absent EXCEPT !.from = from, !.ok = ok, !.age = "new"]]
      BY <2>1 DEF Carry!Arrive
    <3>2. msg[m].bridged = FALSE /\ msg[m].feed = FALSE /\ msg[m].age = "absent"
      <4>1. msg[m].bridged \in BOOLEAN /\ msg[m].feed \in BOOLEAN
        BY <1>0 DEF Carry!TypeOK
      <4> QED
        BY <2>1, <4>1 DEF Carry!Arrive, RoundInv, Unmarked
    <3>3. CASE n = m
      BY <1>0, <3>1, <3>2, <3>3 DEF Carry!TypeOK, Carry!Absent
    <3>4. CASE n # m
      BY <1>0, <3>1, <3>4 DEF Carry!TypeOK
    <3> QED
      BY <3>3, <3>4
  <2>2. ASSUME NEW m \in Msg, Carry!Age(m), NEW n \in Msg
        PROVE  /\ msg'[n].bridged = msg[n].bridged /\ msg'[n].feed = msg[n].feed
               /\ msg[n].age # "absent" => msg'[n].age # "absent"
    BY <1>0, <2>2 DEF Carry!Age, Carry!TypeOK
  <2>3. (\E m \in Msg : Carry!ArriveAgain(m)) \/ Carry!BrokerChanges \/ UNCHANGED Carry!vars
           => msg' = msg
    BY DEF Carry!ArriveAgain, Carry!BrokerChanges, Carry!vars
  <2> QED
    BY <2>1, <2>2, <2>3
<1>4. Carry!Bridged' = Carry!Bridged /\ Carry!OnTheFeed' = Carry!OnTheFeed
  BY <1>3 DEF Carry!Bridged, Carry!OnTheFeed
<1>5. pass.todo \subseteq Msg
  BY <1>0 DEF Carry!TypeOK
<1>6. Unmarked'
  BY <1>1, <1>3, <1>5 DEF RoundInv, Unmarked
<1> QED
  BY <1>0, <1>1, <1>2, <1>4, <1>6, AccountStays DEF RoundInv

\* Steps of a job that publish nothing, and set no mark.
LEMMA RoundQuiet ==
    ASSUME Messages, IsFiniteSet(Msg), CarryInv, CarryInv', RoundInv,
           \/ Carry!ListCandidates \/ Carry!LeaveAlone \/ Carry!ListFeed \/ Carry!Ineligible
           \/ Carry!FeedFails \/ Carry!FeedDone \/ Carry!MarkThrows \/ Carry!Crash
    PROVE  RoundInv'
<1> USE DEF Messages
<1>0. Carry!TypeOK /\ Carry!TypeOK'
  BY DEF CarryInv
<1>1. UNCHANGED <<msg, uplinks, queued, fed>>
  BY DEF Carry!ListCandidates, Carry!LeaveAlone, Carry!ListFeed, Carry!Ineligible,
         Carry!FeedFails, Carry!FeedDone, Carry!MarkThrows, Carry!Crash
<1>2. Carry!Bridged' = Carry!Bridged /\ Carry!OnTheFeed' = Carry!OnTheFeed
  BY <1>1 DEF Carry!Bridged, Carry!OnTheFeed
<1>3. ASSUME faults <= faults', Unmarked',
             pass.at = "mark" => pass'.at = "mark" \/ faults' = faults + 1
      PROVE  RoundInv'
  BY <1>0, <1>1, <1>2, <1>3, AccountStays DEF RoundInv
<1>4. faults \in Nat /\ faults <= faults
  BY <1>0 DEF Carry!TypeOK
<1>5. CASE Carry!ListCandidates
  <2>1. /\ pass.job = "idle" /\ pass'.job = "patch" /\ pass'.todo = Carry!Candidates
        /\ pass'.at = "next" /\ faults' = faults
    BY <1>5 DEF Carry!ListCandidates
  <2>2. \A m \in Carry!Candidates : msg[m].age # "absent" /\ ~msg[m].bridged
    BY DEF Carry!Candidates
  <2>3. Unmarked'
    BY <1>1, <2>1, <2>2 DEF RoundInv, Unmarked
  <2>4. pass.at # "mark"
    <3>1. pass.todo # {} => pass.job # "idle"
      BY DEF RoundInv, Unmarked
    <3> QED
      BY <2>1, <3>1 DEF RoundInv, Unmarked
  <2> QED
    BY <1>3, <1>4, <2>1, <2>3, <2>4
<1>6. CASE Carry!LeaveAlone \/ Carry!Ineligible
  <2>1. /\ pass'.job = pass.job /\ pass'.todo = pass.todo /\ pass'.at = "mark"
        /\ pass.todo # {} /\ faults' = faults
    BY <1>0, <1>6 DEF Carry!LeaveAlone, Carry!Ineligible, Carry!Patching, Carry!Feeding,
                      Carry!TypeOK
  <2>2. Unmarked'
    BY <1>1, <2>1 DEF RoundInv, Unmarked
  <2> QED
    BY <1>3, <1>4, <2>1, <2>2
<1>7. CASE Carry!ListFeed
  <2>1. /\ pass.todo = {} /\ pass'.job = "feed" /\ pass'.at = "next" /\ faults' = faults
        /\ pass'.todo = {m \in Msg : msg[m].age \in {"new", "held"} /\ ~msg[m].feed}
    BY <1>7 DEF Carry!ListFeed, Carry!Idle
  <2>2. Unmarked'
    BY <1>1, <2>1 DEF RoundInv, Unmarked
  <2>3. pass.at # "mark"
    BY <2>1 DEF RoundInv, Unmarked
  <2> QED
    BY <1>3, <1>4, <2>1, <2>2, <2>3
<1>8. CASE Carry!FeedFails \/ Carry!FeedDone
  <2>1. pass'.todo = {} /\ pass'.at = "next" /\ faults' = faults
    BY <1>8 DEF Carry!FeedFails, Carry!FeedDone, Carry!Idle
  <2>2. Unmarked'
    BY <1>1, <2>1 DEF RoundInv, Unmarked
  <2>3. pass.at # "mark"
    BY <1>8 DEF Carry!FeedFails, Carry!FeedDone, Carry!Feeding, RoundInv, Unmarked
  <2> QED
    BY <1>3, <1>4, <2>1, <2>2, <2>3
<1>9. CASE Carry!MarkThrows \/ Carry!Crash
  <2>1. pass'.todo = {} /\ pass'.at = "next"
    <3>1. CASE pass' = [pass EXCEPT !.todo = {}, !.at = "next"]
      BY <1>0, <3>1 DEF Carry!TypeOK
    <3>2. CASE pass' = Carry!Idle
      BY <3>2 DEF Carry!Idle
    <3> QED
      BY <1>9, <3>1, <3>2 DEF Carry!MarkThrows, Carry!Crash
  <2>2. faults' = faults + 1
    BY <1>9 DEF Carry!MarkThrows, Carry!Crash, Carry!Fault
  <2>3. Unmarked'
    BY <1>1, <2>1 DEF RoundInv, Unmarked
  <2> QED
    BY <1>3, <1>4, <2>2, <2>3
<1> QED
  BY <1>5, <1>6, <1>7, <1>8, <1>9

\* A copy goes out, or the attempt has failed and the row is marked all the same.
LEMMA RoundPublishes ==
    ASSUME Messages, IsFiniteSet(Msg), CarryInv, CarryInv', RoundInv,
           Carry!PatchOntoRf \/ Carry!PatchOntoMqtt \/ Carry!PublishToFeed
    PROVE  RoundInv'
<1> USE DEF Messages
<1>0. Carry!TypeOK /\ Carry!TypeOK'
  BY DEF CarryInv
<1>1. /\ pass.todo # {} /\ pass.at = "next" /\ msg' = msg
      /\ pass' = [pass EXCEPT !.at = "mark"]
  BY DEF Carry!PatchOntoRf, Carry!PatchOntoMqtt, Carry!PublishToFeed, Carry!Patching,
         Carry!Feeding
<1>2. pass'.job = pass.job /\ pass'.todo = pass.todo /\ pass'.at = "mark"
  BY <1>0, <1>1 DEF Carry!TypeOK
<1>3. Unmarked'
  BY <1>1, <1>2 DEF RoundInv, Unmarked
<1>4. PICK h \in Msg : h = Carry!Head
  BY <1>0, <1>1, HeadListed
<1>5. faults \in Nat
  BY <1>0 DEF Carry!TypeOK
<1>6. CASE UNCHANGED <<uplinks, queued, fed>>
  <2>1. faults <= faults'
    BY <1>5 DEF Carry!PatchOntoRf, Carry!PatchOntoMqtt, Carry!PublishToFeed, Carry!Fault
  <2>2. Carry!Bridged' = Carry!Bridged /\ Carry!OnTheFeed' = Carry!OnTheFeed
    BY <1>1 DEF Carry!Bridged, Carry!OnTheFeed
  <2> QED
    BY <1>0, <1>1, <1>2, <1>3, <1>6, <2>1, <2>2, AccountStays DEF RoundInv
<1>7. CASE \/ queued' = [queued EXCEPT ![h] = @ + 1] /\ UNCHANGED <<uplinks, fed, faults>>
           \/ uplinks' = [uplinks EXCEPT ![h] = @ + 1] /\ UNCHANGED <<queued, fed, faults>>
           \/ fed' = [fed EXCEPT ![h] = @ + 1] /\ UNCHANGED <<uplinks, queued, faults>>
  <2>1. /\ Carry!Copies(h)' = Carry!Copies(h) + 1
        /\ \A m \in Msg \ {h} : Carry!Copies(m)' = Carry!Copies(m)
        /\ UNCHANGED faults
    BY <1>0, <1>7 DEF Carry!TypeOK, Carry!Copies
  <2> QED
    BY <1>0, <1>1, <1>2, <1>3, <2>1, AccountGrows DEF RoundInv
<1> QED
  BY <1>4, <1>6, <1>7 DEF Carry!PatchOntoRf, Carry!PatchOntoMqtt, Carry!PublishToFeed

\* The mark: one message more that bears it.
LEMMA RoundMarks ==
    ASSUME Messages, IsFiniteSet(Msg), CarryInv, CarryInv', RoundInv, Carry!Mark
    PROVE  RoundInv'
<1> USE DEF Messages
<1>0. Carry!TypeOK /\ Carry!TypeOK'
  BY DEF CarryInv
<1>1. PICK h \in Msg : h = Carry!Head /\ h \in pass.todo
  BY <1>0, HeadListed DEF Carry!Mark
<1>2. /\ pass' = [pass EXCEPT !.todo = @ \ {h}, !.on[h] = {}, !.at = "next"]
      /\ UNCHANGED <<uplinks, queued, fed, faults>>
      /\ msg' = IF pass.job = "patch" THEN [msg EXCEPT ![h].bridged = TRUE]
                                      ELSE [msg EXCEPT ![h].feed = TRUE]
      /\ pass.at = "mark"
  BY <1>1 DEF Carry!Mark
<1>3. pass'.job = pass.job /\ pass'.todo = pass.todo \ {h} /\ pass'.at = "next"
  BY <1>0, <1>2 DEF Carry!TypeOK
<1>4. /\ \A n \in Msg \ {h} : msg'[n] = msg[n]
      /\ msg'[h].age = msg[h].age
      /\ pass.job = "patch" => msg'[h].bridged = TRUE /\ msg'[h].feed = msg[h].feed
      /\ pass.job # "patch" => msg'[h].feed = TRUE /\ msg'[h].bridged = msg[h].bridged
  <2> DEFINE Record == [from : {"nobody", "user", "us"}, ok : BOOLEAN,
                        age : {"absent", "new", "held", "old"},
                        bridged : BOOLEAN, feed : BOOLEAN]
  <2>1. msg \in [Msg -> Record]
    BY <1>0 DEF Carry!TypeOK
  <2>2. \A x \in Record :
          /\ [x EXCEPT !.bridged = TRUE].age = x.age
          /\ [x EXCEPT !.bridged = TRUE].bridged = TRUE
          /\ [x EXCEPT !.bridged = TRUE].feed = x.feed
          /\ [x EXCEPT !.feed = TRUE].age = x.age
          /\ [x EXCEPT !.feed = TRUE].bridged = x.bridged
          /\ [x EXCEPT !.feed = TRUE].feed = TRUE
    OBVIOUS
  <2> HIDE DEF Record
  <2>3. CASE pass.job = "patch"
    <3>1. msg' = [msg EXCEPT ![h] = [msg[h] EXCEPT !.bridged = TRUE]]
      BY <1>2, <2>3
    <3> QED
      BY <2>1, <2>2, <2>3, <3>1
  <2>4. CASE pass.job # "patch"
    <3>1. msg' = [msg EXCEPT ![h] = [msg[h] EXCEPT !.feed = TRUE]]
      BY <1>2, <2>4
    <3> QED
      BY <2>1, <2>2, <2>4, <3>1
  <2> QED
    BY <2>3, <2>4
<1>5. msg[h].age # "absent"
  BY <1>1 DEF RoundInv, Unmarked
<1>6. pass.todo \subseteq Msg
  BY <1>0 DEF Carry!TypeOK
<1>7. Unmarked'
  BY <1>3, <1>4, <1>5, <1>6 DEF RoundInv, Unmarked
<1>8. Cardinality(Carry!Bridged') + Cardinality(Carry!OnTheFeed')
        = Cardinality(Carry!Bridged) + Cardinality(Carry!OnTheFeed) + 1
  <2>1. CASE pass.job = "patch"
    <3>1. /\ Carry!Bridged' = Carry!Bridged \union {h} /\ h \notin Carry!Bridged
          /\ Carry!OnTheFeed' = Carry!OnTheFeed
      BY <1>1, <1>4, <2>1 DEF Carry!Bridged, Carry!OnTheFeed, RoundInv, Unmarked
    <3>2. Cardinality(Carry!Bridged \union {h}) = Cardinality(Carry!Bridged) + 1
      BY <3>1, MarksFinite, FS_AddElement
    <3> QED
      BY <3>1, <3>2, MarksFinite
  <2>2. CASE pass.job # "patch"
    <3>1. /\ Carry!OnTheFeed' = Carry!OnTheFeed \union {h} /\ h \notin Carry!OnTheFeed
          /\ Carry!Bridged' = Carry!Bridged
      BY <1>1, <1>4, <2>2 DEF Carry!Bridged, Carry!OnTheFeed, RoundInv, Unmarked
    <3>2. Cardinality(Carry!OnTheFeed \union {h}) = Cardinality(Carry!OnTheFeed) + 1
      BY <3>1, MarksFinite, FS_AddElement
    <3> QED
      BY <3>1, <3>2, MarksFinite
  <2> QED
    BY <2>1, <2>2
<1>9. Carry!Published' = Carry!Published
  BY <1>2, PublishedStays
<1>10. faults \in Nat /\ Cardinality(Carry!Published) \in Nat
  BY <1>0, FS_CardinalityType DEF Carry!TypeOK, RoundInv
<1>11. Cardinality(Carry!Published) <= Cardinality(Carry!Bridged) + Cardinality(Carry!OnTheFeed)
        + faults + 1
  BY <1>2, CarrySizes DEF RoundInv, Carry!RepeatsNeedFaults
<1>12. Cardinality(Carry!Published') <=
         Cardinality(Carry!Bridged') + Cardinality(Carry!OnTheFeed') + faults'
  BY <1>2, <1>8, <1>9, <1>10, <1>11, MarksFinite
<1>13. Carry!RepeatsNeedFaults'
  <2>1. \A n \in Nat : n + (IF pass'.at = "mark" THEN 1 ELSE 0) = n
    BY <1>3
  <2>2. Cardinality(Carry!Bridged') + Cardinality(Carry!OnTheFeed') + faults' \in Nat
    BY <1>2, <1>8, <1>10, MarksFinite
  <2> QED
    BY <1>12, <2>1, <2>2, CarrySizes DEF Carry!RepeatsNeedFaults
<1> QED
  BY <1>7, <1>9, <1>13 DEF RoundInv

LEMMA RoundKept ==
    ASSUME Messages, IsFiniteSet(Msg), CarryInv, RoundInv, [Carry!Next]_Carry!vars
    PROVE  RoundInv'
<1>1. CarryInv'
  BY CarryKept
<1> QED
  BY <1>1, RoundOutside, RoundQuiet, RoundPublishes, RoundMarks DEF Carry!Next, Carry!Tick

-----------------------------------------------------------------------------
(* Forwarding: lists of ids in ascending order.                            *)

LEMMA LastNat ==
    ASSUME NEW n \in Nat, NEW S \in SUBSET (0..n), S # {}
    PROVE  \E x \in S : \A y \in S : x >= y
<1> DEFINE T == {n - x : x \in S}
<1>1. T # {} /\ T \in SUBSET Nat
  <2>1. \A x \in S : n - x \in Nat
    OBVIOUS
  <2> QED
    BY <2>1
<1>2. PICK t \in T : \A u \in T : t <= u
  <2> HIDE DEF T
  <2> QED
    BY <1>1, LeastNat
<1>3. PICK x \in S : t = n - x
  BY <1>2
<1>4. ASSUME NEW y \in S PROVE x >= y
  <2>1. n - y \in T
    OBVIOUS
  <2>2. t <= n - y
    BY <1>2, <2>1
  <2> HIDE DEF T
  <2> QED
    BY <1>3, <2>2
<1> QED
  BY <1>4

\* The module's own instance of FiniteSets counts as this one does.
LEMMA SameCount == \A S : Fwd!Cardinality(S) = Cardinality(S)
  BY DEF Fwd!Cardinality, Cardinality

\* How many elements of S do not exceed m.
Rank(S, m) == Cardinality({d \in S : d <= m})

LEMMA FiniteIds ==
    ASSUME NEW n \in Nat, NEW S \in SUBSET (1..n)
    PROVE  IsFiniteSet(S) /\ Cardinality(S) \in Nat
<1>1. 1 \in Int /\ n \in Int
  OBVIOUS
<1>2. IsFiniteSet(1..n)
  BY <1>1, FS_Interval
<1>3. IsFiniteSet(S)
  BY <1>2, FS_Subset
<1> QED
  BY <1>3, FS_CardinalityType

LEMMA RankGrows ==
    ASSUME NEW n \in Nat, NEW S \in SUBSET (1..n), NEW m \in S
    PROVE  /\ IsFiniteSet(S) /\ Cardinality(S) \in Nat
           /\ Rank(S, m) \in 1..Cardinality(S)
           /\ \A d \in S : d <= m => Rank(S, d) <= Rank(S, m)
           /\ \A d \in S : d < m => Rank(S, d) < Rank(S, m)
<1>1. IsFiniteSet(S) /\ Cardinality(S) \in Nat
  BY FiniteIds
<1>2. \A d \in S : Rank(S, d) \in 1..Cardinality(S)
  <2> SUFFICES ASSUME NEW d \in S PROVE Rank(S, d) \in 1..Cardinality(S)
    OBVIOUS
  <2> DEFINE D == {e \in S : e <= d}
  <2>1. D \in SUBSET S /\ D # {}
    <3>1. d \in D
      OBVIOUS
    <3> QED
      BY <3>1
  <2> HIDE DEF D
  <2>2. IsFiniteSet(D) /\ Cardinality(D) <= Cardinality(S)
    BY <1>1, <2>1, FS_Subset
  <2>3. Cardinality(D) \in Nat /\ Cardinality(D) # 0
    BY <2>1, <2>2, FS_CardinalityType, FS_EmptySet
  <2> QED
    BY <1>1, <2>2, <2>3 DEF Rank, D
<1>3. ASSUME NEW d \in S, d <= m
      PROVE  /\ Rank(S, d) <= Rank(S, m)
             /\ Rank(S, d) = Rank(S, m) => d = m
  <2> DEFINE D == {e \in S : e <= d}
             M == {e \in S : e <= m}
  <2>0. m \in Nat /\ d \in Nat /\ \A e \in S : e \in Nat
    OBVIOUS
  <2>1. D \in SUBSET M /\ M \in SUBSET S /\ m \in M
    <3>1. \A e \in S : e <= d => e <= m
      BY <1>3, <2>0
    <3>2. m \in M
      BY <2>0
    <3> QED
      BY <3>1, <3>2
  <2>2. m \in D => d = m
    BY <1>3
  <2> HIDE DEF D, M
  <2>3. IsFiniteSet(M)
    BY <1>1, <2>1, FS_Subset
  <2>4. Cardinality(D) <= Cardinality(M) /\ (Cardinality(M) = Cardinality(D) => M = D)
    BY <2>1, <2>3, FS_Subset
  <2> QED
    BY <2>1, <2>2, <2>4 DEF Rank, D, M
<1>4. ASSUME NEW d \in S, d < m PROVE Rank(S, d) < Rank(S, m)
  <2>1. d <= m /\ d # m
    BY <1>4
  <2> QED
    BY <1>2, <1>3, <2>1
<1> QED
  BY <1>1, <1>2, <1>3, <1>4

\* The list that takes the element of each rank holds each element once.
Ascending(S) == [i \in 1..Cardinality(S) |-> CHOOSE m \in S : Rank(S, m) = i]

LEMMA AscendingLists ==
    ASSUME NEW n \in Nat, NEW S \in SUBSET (1..n)
    PROVE  /\ Ascending(S) \in Seq(S) /\ Len(Ascending(S)) = Cardinality(S)
           /\ Cardinality(S) \in Nat
           /\ \A i, j \in 1..Cardinality(S) : Ascending(S)[i] = Ascending(S)[j] => i = j
           /\ \A m \in S : \E i \in 1..Cardinality(S) : Ascending(S)[i] = m
<1> DEFINE N == Cardinality(S)
           rank == [m \in S |-> Rank(S, m)]
<1>1. IsFiniteSet(S) /\ N \in Nat
  BY FiniteIds
<1>2. IsFiniteSet(1..N) /\ Cardinality(1..N) = N
  <2>1. 0 \in Int /\ 1 \in Int /\ N \in Int /\ N >= 0
    BY <1>1
  <2>2. /\ IsFiniteSet(1..N)
        /\ Cardinality(1..N) = IF 1 > N THEN 0 ELSE N - 1 + 1
    BY <2>1, FS_Interval
  <2> HIDE DEF N
  <2> QED
    BY <1>1, <2>2
<1>3. \A m \in S : Rank(S, m) \in 1..N
  BY RankGrows
<1>4. \A m, d \in S : Rank(S, m) = Rank(S, d) => m = d
  <2> SUFFICES ASSUME NEW m \in S, NEW d \in S, m < d PROVE Rank(S, m) # Rank(S, d)
    OBVIOUS
  <2>1. \A e \in S : e < d => Rank(S, e) < Rank(S, d)
    BY RankGrows
  <2>2. Rank(S, m) < Rank(S, d) /\ Rank(S, m) \in Nat /\ Rank(S, d) \in Nat
    BY <1>1, <1>3, <2>1
  <2> QED
    BY <2>2
<1>5. rank \in Injection(S, 1..N)
  BY <1>3, <1>4 DEF Injection, IsInjective
<1>6. rank \in Surjection(S, 1..N)
  BY <1>1, <1>2, <1>5, FS_Injection
<1>7. \A i \in 1..N : \E m \in S : Rank(S, m) = i
  BY <1>6 DEF Surjection
<1>8. \A i \in 1..N : Ascending(S)[i] \in S /\ Rank(S, Ascending(S)[i]) = i
  BY <1>7 DEF Ascending
<1>9. Ascending(S) \in [1..N -> S]
  BY <1>8 DEF Ascending
<1>10. Ascending(S) \in Seq(S) /\ Len(Ascending(S)) = N
  <2> HIDE DEF N
  <2> QED
    BY <1>1, <1>9, SeqDef, LenProperties
<1>11. \A m \in S : Ascending(S)[Rank(S, m)] = m
  BY <1>3, <1>4, <1>8
<1> QED
  BY <1>1, <1>3, <1>8, <1>10, <1>11

-----------------------------------------------------------------------------
(* Forwarding: the inductive invariant.                                    *)

Settings ==
    /\ MaxFaults \in Nat /\ MaxMessages \in Nat /\ MaxTime \in Nat
    /\ LIMIT \in Nat

Row == [ch : Channel, text : Text, dm : BOOLEAN, t : 0..MaxTime]

\* The cursor as the pass under way will leave it.
Passed == IF pass.at = "send" THEN pass.last ELSE state

\* Where the cursor is, and the shape of the pass.
Cursor ==
    /\ table \in Seq(Row) /\ Len(table) <= MaxMessages /\ now \in 0..MaxTime
    /\ state \in {Fwd!None} \union (0..Len(table))
    /\ since \in {Fwd!None} \union (0..Len(table))
    /\ sent \in [1..MaxMessages -> Nat] /\ faults \in 0..MaxFaults
    /\ pass \in [at : {"idle", "send"}, rows : Seq(Nat), last : 0..Len(table)]
    /\ state = Fwd!None <=> since = Fwd!None
    /\ state # Fwd!None => since <= state
    /\ pass.at = "idle" => pass.rows = <<>>
    /\ pass.at = "send" => state # Fwd!None /\ state < pass.last

\* Each row of the pass once, and behind the cursor.
Listed ==
    /\ \A i \in 1..Len(pass.rows) : state < pass.rows[i] /\ pass.rows[i] <= pass.last
    /\ \A i, j \in 1..Len(pass.rows) : pass.rows[i] = pass.rows[j] => i = j

\* Is m one of the rows still to be sent?
ToSend(m) == \E i \in 1..Len(pass.rows) : pass.rows[i] = m

\* No history is sent; what is listed, or behind the cursor, was sent only by
\* passes that failed.
Counted ==
    \A m \in 1..MaxMessages :
      /\ sent[m] > 0 => since # Fwd!None /\ since < m /\ m <= Len(table)
      /\ sent[m] <= 1 + faults
      /\ Passed < m \/ ToSend(m) => sent[m] <= faults

\* A copy of the text has been sent, or will be by this pass, or is none of the
\* rule's business, or was there before the rule.
Covers(d, m) ==
    /\ d <= m /\ table[d].text = table[m].text
    /\ sent[d] > 0 \/ d <= since \/ ~Fwd!Wanted(d) \/ ToSend(d)
Covered ==
    since # Fwd!None =>
      \A m \in 1..Len(table) : m <= Passed => \E d \in 1..Len(table) : Covers(d, m)

FwdInv == Cursor /\ Listed /\ Counted /\ Covered

LEMMA FwdStart == ASSUME Settings, Fwd!Init PROVE FwdInv
<1> USE DEF Settings
<1>1. <<>> \in Seq(Row) /\ <<>> \in Seq(Nat) /\ Len(<<>>) = 0
  BY EmptySeq
<1> QED
  BY <1>1 DEF Fwd!Init, Fwd!Idle, Fwd!None, FwdInv, Cursor, Listed, Counted, Covered,
              ToSend, Passed

\* A message comes in at the end of the table.
LEMMA FwdReceives == ASSUME Settings, FwdInv, Fwd!Receive PROVE FwdInv'
<1> USE DEF Settings
<1>1. PICK r \in Row : table' = Append(table, r)
  <2>1. PICK c \in Channel, x \in Text, dm \in BOOLEAN :
          table' = Append(table, [ch |-> c, text |-> x, dm |-> dm, t |-> now])
    BY DEF Fwd!Receive
  <2>2. [ch |-> c, text |-> x, dm |-> dm, t |-> now] \in Row
    BY DEF Row, FwdInv, Cursor
  <2> QED
    BY <2>1, <2>2
<1>2. /\ UNCHANGED <<now, state, pass, sent, faults, since>>
      /\ Len(table) < MaxMessages
  BY DEF Fwd!Receive
<1>3. /\ table' \in Seq(Row) /\ Len(table') = Len(table) + 1 /\ Len(table) \in Nat
      /\ \A i \in 1..Len(table) : table'[i] = table[i]
  BY <1>1, AppendProperties, LenProperties DEF FwdInv, Cursor
<1>4. Cursor'
  BY <1>2, <1>3 DEF FwdInv, Cursor, Fwd!None
<1>5. Listed'
  BY <1>2 DEF FwdInv, Listed
<1>6. Counted'
  BY <1>2, <1>3 DEF FwdInv, Cursor, Counted, Passed, ToSend, Fwd!None
<1>7. Covered'
  <2> SUFFICES ASSUME since # Fwd!None, NEW m \in 1..Len(table'), m <= Passed
               PROVE  \E d \in 1..Len(table') : Covers(d, m)'
    BY <1>2 DEF Covered, Passed
  <2>1. m \in 1..Len(table)
    BY <1>3 DEF Passed, FwdInv, Cursor, Fwd!None
  <2>2. PICK d \in 1..Len(table) : Covers(d, m)
    BY <2>1 DEF FwdInv, Covered
  <2>3. Covers(d, m)' /\ d \in 1..Len(table')
    BY <1>2, <1>3, <2>1, <2>2 DEF Covers, ToSend, Fwd!Wanted
  <2> QED
    BY <2>3
<1> QED
  BY <1>4, <1>5, <1>6, <1>7 DEF FwdInv

\* The rule starts at the end of the table: all of it is history.
LEMMA FwdBegins == ASSUME Settings, FwdInv, Fwd!FirstPass PROVE FwdInv'
<1> USE DEF Settings
<1>1. /\ pass = Fwd!Idle /\ state = Fwd!None /\ state' = Len(table) /\ since' = Len(table)
      /\ UNCHANGED <<table, now, pass, sent, faults>>
  BY DEF Fwd!FirstPass
<1>2. Len(table) \in Nat
  BY LenProperties DEF FwdInv, Cursor
<1>3. Cursor'
  BY <1>1, <1>2 DEF FwdInv, Cursor, Fwd!None, Fwd!Idle
<1>4. Len(pass.rows) = 0
  BY <1>1, EmptySeq DEF Fwd!Idle
<1>5. \A m \in 1..MaxMessages : sent[m] = 0
  BY <1>1 DEF FwdInv, Cursor, Counted, Fwd!None
<1>6. Counted' /\ Listed'
  BY <1>1, <1>4, <1>5 DEF FwdInv, Cursor, Counted, Listed, ToSend
<1>7. Covered'
  <2>1. \A m \in 1..Len(table) : Covers(m, m)'
    BY <1>1, <1>2 DEF Covers
  <2> QED
    BY <1>1, <2>1 DEF Covered
<1> QED
  BY <1>3, <1>6, <1>7 DEF FwdInv

\* What a pass reads: from the cursor on, nothing of the rule's left out.
LEMMA SelectedRows ==
    ASSUME Settings, Cursor, state # Fwd!None
    PROVE  /\ Fwd!Selected \in SUBSET (1..Len(table)) /\ Len(table) \in Nat
           /\ \A m \in Fwd!Selected : m > state
           /\ \A m \in Fwd!Selected, d \in 1..Len(table) :
                state < d /\ d <= m /\ Fwd!Wanted(d) => d \in Fwd!Selected
<1> USE DEF Settings
<1> DEFINE match == {m \in 1..Len(table) : /\ m > state /\ ~table[m].dm
                                           /\ Channels = {} \/ table[m].ch \in Channels}
<1>1. Len(table) \in Nat
  BY LenProperties DEF Cursor
<1>2. Fwd!Selected = {m \in match : Rank(match, m) <= LIMIT}
  <2>1. Fwd!Selected = {m \in match : Fwd!Cardinality({d \in match : d <= m}) <= LIMIT}
    BY DEF Fwd!Selected, Fwd!Ids
  <2>2. \A m : Fwd!Cardinality({d \in match : d <= m}) = Rank(match, m)
    BY SameCount DEF Rank
  <2> HIDE DEF match
  <2> QED
    BY <2>1, <2>2
<1>3. match \in SUBSET (1..Len(table)) /\ \A m \in match : m > state
  OBVIOUS
<1>4. \A d \in 1..Len(table) : state < d /\ Fwd!Wanted(d) => d \in match
  BY <1>1 DEF Fwd!Wanted, Cursor, Fwd!None
<1> HIDE DEF match
<1>5. ASSUME NEW m \in Fwd!Selected, NEW d \in 1..Len(table), d \in match, d <= m
      PROVE  d \in Fwd!Selected
  <2>1. m \in match /\ Rank(match, m) <= LIMIT
    BY <1>2, <1>5
  <2>2. /\ \A e \in match : Rank(match, e) \in 1..Cardinality(match)
        /\ Cardinality(match) \in Nat /\ Rank(match, d) <= Rank(match, m)
    BY <1>1, <1>3, <1>5, <2>1, RankGrows
  <2>3. Rank(match, d) <= LIMIT
    BY <1>5, <2>1, <2>2
  <2> QED
    BY <1>2, <1>5, <2>3
<1> QED
  BY <1>1, <1>2, <1>3, <1>4, <1>5

\* What a pass is going to send.
LEMMA RowsListed ==
    ASSUME Settings, Cursor, Fwd!ListRows
    PROVE  /\ pass'.at = "send" /\ pass'.rows \in Seq(Nat)
           /\ pass'.last \in Fwd!Selected
           /\ \A m \in Fwd!Selected : m <= pass'.last
           /\ \A i \in 1..Len(pass'.rows) : pass'.rows[i] \in Fwd!Selected
           /\ \A i, j \in 1..Len(pass'.rows) : pass'.rows[i] = pass'.rows[j] => i = j
           /\ \A m \in Fwd!Selected : ~Fwd!Repeats(m) => ToSend(m)'
<1> DEFINE fresh == {m \in Fwd!Selected : ~Fwd!Repeats(m)}
<1>1. /\ Fwd!Selected \in SUBSET (1..Len(table)) /\ Len(table) \in Nat
      /\ Fwd!Selected # {}
  BY SelectedRows DEF Fwd!ListRows
<1>2. fresh \in SUBSET (1..Len(table)) /\ fresh \subseteq Fwd!Selected
  BY <1>1
<1>3. pass' = [at |-> "send", last |-> Fwd!Max(Fwd!Selected), rows |-> Ascending(fresh)]
  <2> DEFINE chosen(i) ==
               CHOOSE m \in fresh : Fwd!Cardinality({d \in fresh : d <= m}) = i
             ranked(i) == CHOOSE m \in fresh : Rank(fresh, m) = i
  <2>1. pass' = [at |-> "send", last |-> Fwd!Max(Fwd!Selected),
                 rows |-> [i \in 1..Fwd!Cardinality(fresh) |-> chosen(i)]]
    BY DEF Fwd!ListRows
  <2>2. Fwd!Cardinality(fresh) = Cardinality(fresh)
    BY SameCount
  <2>3. \A i : chosen(i) = ranked(i)
    <3>1. \A m : Fwd!Cardinality({d \in fresh : d <= m}) = Rank(fresh, m)
      BY SameCount DEF Rank
    <3> HIDE DEF fresh
    <3> QED
      BY <3>1
  <2>4. Ascending(fresh) = [i \in 1..Cardinality(fresh) |-> ranked(i)]
    BY DEF Ascending
  <2> HIDE DEF fresh, chosen, ranked
  <2>5. [i \in 1..Cardinality(fresh) |-> chosen(i)]
          = [i \in 1..Cardinality(fresh) |-> ranked(i)]
    BY <2>3
  <2> QED
    BY <2>1, <2>2, <2>4, <2>5
<1>4. /\ Fwd!Max(Fwd!Selected) \in Fwd!Selected
      /\ \A m \in Fwd!Selected : m <= Fwd!Max(Fwd!Selected)
  <2>1. Fwd!Selected \in SUBSET (0..Len(table))
    BY <1>1
  <2>2. \E x \in Fwd!Selected : \A y \in Fwd!Selected : x >= y
    BY <1>1, <2>1, LastNat
  <2>3. PICK S : S = Fwd!Selected
    OBVIOUS
  <2>4. Fwd!Max(S) \in S /\ \A y \in S : Fwd!Max(S) >= y
    BY <2>2, <2>3 DEF Fwd!Max
  <2> QED
    BY <1>1, <2>3, <2>4
<1> HIDE DEF fresh
<1>5. /\ Ascending(fresh) \in Seq(fresh) /\ Len(Ascending(fresh)) = Cardinality(fresh)
      /\ \A i, j \in 1..Cardinality(fresh) : Ascending(fresh)[i] = Ascending(fresh)[j] => i = j
      /\ \A m \in fresh : \E i \in 1..Cardinality(fresh) : Ascending(fresh)[i] = m
  BY <1>1, <1>2, AscendingLists
<1>6. /\ Ascending(fresh) \in Seq(Nat)
      /\ \A i \in 1..Cardinality(fresh) : Ascending(fresh)[i] \in Fwd!Selected
  <2>1. \A i \in 1..Cardinality(fresh) : Ascending(fresh)[i] \in fresh
    BY <1>5, ElementOfSeq
  <2>2. fresh \in SUBSET Nat
    BY <1>1, <1>2
  <2>3. Ascending(fresh) \in Seq(Nat)
    BY <1>5, <2>2, SeqMonotonic
  <2> QED
    BY <1>2, <2>1, <2>3
<1>7. \A m \in Fwd!Selected : ~Fwd!Repeats(m) => m \in fresh
  BY DEF fresh
<1> QED
  BY <1>3, <1>4, <1>5, <1>6, <1>7 DEF ToSend

LEMMA FwdLists == ASSUME Settings, FwdInv, Fwd!ListRows PROVE FwdInv'
<1> USE DEF Settings
<1>1. /\ pass = Fwd!Idle /\ state # Fwd!None
      /\ UNCHANGED <<table, now, state, sent, faults, since>>
  BY DEF Fwd!ListRows
<1>2. /\ Fwd!Selected \in SUBSET (1..Len(table)) /\ Len(table) \in Nat
      /\ \A m \in Fwd!Selected : m > state
      /\ \A m \in Fwd!Selected, d \in 1..Len(table) :
           state < d /\ d <= m /\ Fwd!Wanted(d) => d \in Fwd!Selected
  BY <1>1, SelectedRows DEF FwdInv
<1>3. /\ pass'.at = "send" /\ pass'.rows \in Seq(Nat)
      /\ pass'.last \in Fwd!Selected
      /\ \A m \in Fwd!Selected : m <= pass'.last
      /\ \A i \in 1..Len(pass'.rows) : pass'.rows[i] \in Fwd!Selected
      /\ \A i, j \in 1..Len(pass'.rows) : pass'.rows[i] = pass'.rows[j] => i = j
      /\ \A m \in Fwd!Selected : ~Fwd!Repeats(m) => ToSend(m)'
  BY RowsListed DEF FwdInv
<1>4. pass' \in [at : {"idle", "send"}, rows : Seq(Nat), last : 0..Len(table)]
  <2>1. PICK rs, l : pass' = [at |-> "send", last |-> l, rows |-> rs]
    BY DEF Fwd!ListRows
  <2>2. pass'.rows = rs /\ pass'.last = l
    BY <2>1
  <2>3. rs \in Seq(Nat) /\ l \in 1..Len(table)
    BY <1>2, <1>3, <2>2
  <2> QED
    BY <1>2, <2>1, <2>3
<1>5. Cursor'
  BY <1>1, <1>2, <1>3, <1>4 DEF FwdInv, Cursor
<1>6. Listed'
  BY <1>1, <1>2, <1>3 DEF Listed
<1>7. Passed = state /\ Passed' = pass'.last /\ state < pass'.last
      /\ state \in Nat /\ pass'.last \in Nat
  <2>1. pass.at = "idle" /\ Passed = state /\ Passed' = pass'.last
    BY <1>1, <1>3 DEF Passed, Fwd!Idle
  <2>2. state \in Nat
    BY <1>1, <1>2 DEF FwdInv, Cursor
  <2>3. pass'.last \in 1..Len(table) /\ state < pass'.last
    BY <1>2, <1>3
  <2> QED
    BY <1>2, <2>1, <2>2, <2>3
<1>8. Counted'
  <2> SUFFICES ASSUME NEW m \in 1..MaxMessages, Passed' < m \/ ToSend(m)'
               PROVE  sent[m] <= faults
    BY <1>1 DEF FwdInv, Counted
  <2>1. state < m
    BY <1>2, <1>3, <1>7 DEF ToSend
  <2> QED
    BY <1>7, <2>1 DEF FwdInv, Counted
<1>9. Covered'
  <2> SUFFICES ASSUME since # Fwd!None, NEW m \in 1..Len(table), m <= pass'.last
               PROVE  \E d \in 1..Len(table) : Covers(d, m)'
    BY <1>1, <1>7 DEF Covered
  <2> DEFINE same == {d \in 1..Len(table) : table[d].text = table[m].text}
  <2>1. PICK e \in same : \A d \in same : e <= d
    <3>1. same \in SUBSET Nat /\ same # {}
      BY <1>2
    <3> HIDE DEF same
    <3> QED
      BY <3>1, LeastNat
  <2>2. e \in 1..Len(table) /\ table[e].text = table[m].text /\ e <= m
    BY <2>1
  <2>3. CASE e <= state
    <3>1. PICK d \in 1..Len(table) : Covers(d, e)
      BY <1>1, <1>7, <2>2, <2>3 DEF FwdInv, Covered
    <3>2. ~ToSend(d)
      BY <1>1, EmptySeq DEF ToSend, Fwd!Idle
    <3>3. Covers(d, m)'
      BY <1>1, <2>2, <3>1, <3>2 DEF Covers, Fwd!Wanted
    <3> QED
      BY <3>3
  <2>4. CASE state < e /\ Fwd!Wanted(e)
    <3>0. e <= pass'.last
      <4>1. e \in Nat /\ m \in Nat
        BY <1>2, <2>2
      <4> QED
        BY <1>7, <2>2, <4>1
    <3>1. e \in Fwd!Selected
      BY <1>2, <1>3, <2>2, <2>4, <3>0
    <3>2. ~Fwd!Repeats(e)
      <4> SUFFICES ASSUME NEW d \in 1..Len(table), d < e, table[d].text = table[e].text
                   PROVE  FALSE
        BY DEF Fwd!Repeats, Fwd!Ids
      <4>1. d \in same
        BY <2>2
      <4> QED
        BY <1>2, <2>1, <2>2, <4>1
    <3>3. Covers(e, m)'
      BY <1>1, <1>3, <2>2, <3>1, <3>2 DEF Covers
    <3> QED
      BY <2>2, <3>3
  <2>5. CASE ~Fwd!Wanted(e)
    <3>1. Covers(e, m)'
      BY <1>1, <2>2, <2>5 DEF Covers, Fwd!Wanted
    <3> QED
      BY <2>2, <3>1
  <2>6. e <= state \/ state < e
    BY <1>7, <2>2
  <2> QED
    BY <2>3, <2>4, <2>5, <2>6
<1> QED
  BY <1>5, <1>6, <1>8, <1>9 DEF FwdInv

\* A row is sent, and is no longer among the rows.
LEMMA FwdSends == ASSUME Settings, FwdInv, Fwd!SendRow PROVE FwdInv'
<1> USE DEF Settings
<1> DEFINE rs == pass.rows
           h == Head(rs)
<1>1. /\ pass.at = "send" /\ rs # <<>>
      /\ sent' = [sent EXCEPT ![h] = @ + 1] /\ pass' = [pass EXCEPT !.rows = Tail(@)]
      /\ UNCHANGED <<table, now, state, faults, since>>
  BY DEF Fwd!SendRow
<1>2. rs \in Seq(Nat) /\ Len(table) \in Nat /\ state \in Nat /\ pass.last \in 0..Len(table)
  BY <1>1, LenProperties DEF FwdInv, Cursor, Fwd!None
<1>3. /\ Tail(rs) \in Seq(Nat) /\ Len(Tail(rs)) = Len(rs) - 1 /\ Len(rs) \in Nat \ {0}
      /\ \A i \in 1..Len(Tail(rs)) : Tail(rs)[i] = rs[i + 1]
      /\ h = rs[1]
  BY <1>1, <1>2, HeadTailProperties, EmptySeq
<1>4. /\ h \in 1..Len(table) /\ state < h /\ h \in 1..MaxMessages /\ h <= pass.last
  BY <1>2, <1>3 DEF FwdInv, Listed, Cursor
<1>5. /\ pass'.rows = Tail(rs) /\ pass'.at = "send" /\ pass'.last = pass.last
      /\ pass' \in [at : {"idle", "send"}, rows : Seq(Nat), last : 0..Len(table)]
  BY <1>1, <1>3 DEF FwdInv, Cursor
<1> HIDE DEF h
<1>6. Cursor'
  <2>1. sent' \in [1..MaxMessages -> Nat]
    <3>1. sent \in [1..MaxMessages -> Nat]
      BY DEF FwdInv, Cursor
    <3> QED
      BY <1>1, <1>4, <3>1
  <2> QED
    BY <1>1, <1>5, <2>1 DEF FwdInv, Cursor
<1>7. \A m : ToSend(m)' => ToSend(m) /\ m # h
  <2> SUFFICES ASSUME NEW i \in 1..Len(Tail(rs))
               PROVE  /\ i + 1 \in 1..Len(rs) /\ Tail(rs)[i] = rs[i + 1]
                      /\ Tail(rs)[i] # h
    BY <1>5 DEF ToSend
  <2>1. i + 1 \in 1..Len(rs) /\ 1 \in 1..Len(rs) /\ i + 1 # 1
    BY <1>3
  <2> QED
    BY <1>3, <2>1 DEF FwdInv, Listed
<1>8. \A m : ToSend(m) => ToSend(m)' \/ m = h
  <2> SUFFICES ASSUME NEW i \in 1..Len(rs), i # 1
               PROVE  i - 1 \in 1..Len(Tail(rs)) /\ Tail(rs)[i - 1] = rs[i]
    BY <1>3, <1>5 DEF ToSend
  <2>1. i - 1 \in 1..Len(Tail(rs)) /\ (i - 1) + 1 = i
    BY <1>3
  <2> QED
    BY <1>3, <2>1
<1>9. Listed'
  <2>1. \A i \in 1..Len(Tail(rs)) : i + 1 \in 1..Len(rs)
    BY <1>3
  <2>2. \A i \in 1..Len(Tail(rs)) : state < Tail(rs)[i] /\ Tail(rs)[i] <= pass.last
    BY <1>3, <2>1 DEF FwdInv, Listed
  <2>3. ASSUME NEW i \in 1..Len(Tail(rs)), NEW j \in 1..Len(Tail(rs)),
               Tail(rs)[i] = Tail(rs)[j]
        PROVE  i = j
    <3>1. i + 1 = j + 1
      BY <1>3, <2>1, <2>3 DEF FwdInv, Listed
    <3> QED
      BY <1>3, <3>1
  <2> QED
    BY <1>1, <1>5, <2>2, <2>3 DEF Listed
<1>10. /\ ToSend(h) /\ sent[h] <= faults
       /\ \A m \in 1..MaxMessages :
            sent[m] \in Nat /\ sent'[m] = IF m = h THEN sent[m] + 1 ELSE sent[m]
  <2>1. ToSend(h)
    BY <1>3 DEF ToSend
  <2> QED
    BY <1>1, <1>4, <2>1 DEF FwdInv, Counted, Cursor
<1>11. Passed' = Passed /\ Passed = pass.last
  BY <1>1, <1>5 DEF Passed
<1>12. Counted'
  <2> SUFFICES ASSUME NEW m \in 1..MaxMessages
               PROVE  /\ sent'[m] > 0 => since # Fwd!None /\ since < m /\ m <= Len(table)
                      /\ sent'[m] <= 1 + faults
                      /\ Passed < m \/ ToSend(m)' => sent'[m] <= faults
    BY <1>1, <1>11 DEF Counted
  <2>0. faults \in Nat
    BY DEF FwdInv, Cursor
  <2>1. CASE m = h
    <3>1. since # Fwd!None /\ since < h /\ h <= Len(table)
      <4>1. since # Fwd!None /\ since < h
        BY <1>1, <1>2, <1>4 DEF FwdInv, Cursor, Fwd!None
      <4>2. h <= Len(table)
        BY <1>1, <1>2, <1>4 DEF FwdInv, Cursor
      <4> QED
        BY <4>1, <4>2
    <3>2. ~(Passed < m) /\ ~ToSend(m)'
      BY <1>2, <1>4, <1>7, <1>11, <2>1
    <3> QED
      BY <1>10, <2>0, <2>1, <3>1, <3>2
  <2>2. CASE m # h
    BY <1>7, <1>10, <2>2 DEF FwdInv, Counted
  <2> QED
    BY <2>1, <2>2
<1>13. Covered'
  <2> SUFFICES ASSUME since # Fwd!None, NEW m \in 1..Len(table), m <= Passed
               PROVE  \E d \in 1..Len(table) : Covers(d, m)'
    BY <1>1, <1>11 DEF Covered
  <2>1. PICK d \in 1..Len(table) : Covers(d, m)
    BY DEF FwdInv, Covered
  <2>2. d \in 1..MaxMessages
    BY <1>2 DEF FwdInv, Cursor
  <2>3. sent[d] > 0 \/ d = h => sent'[d] > 0
    BY <1>10, <2>2
  <2>4. Covers(d, m)'
    BY <1>1, <1>8, <2>1, <2>3 DEF Covers, Fwd!Wanted
  <2> QED
    BY <2>4
<1> QED
  BY <1>6, <1>9, <1>12, <1>13 DEF FwdInv

\* Behind the saved cursor nothing waits for the pass under way.
LEMMA CoveredSoFar ==
    ASSUME Settings, FwdInv, since # Fwd!None, NEW m \in 1..Len(table), m <= state
    PROVE  \E d \in 1..Len(table) : Covers(d, m) /\ ~ToSend(d)
<1>0. Len(table) \in Nat
  BY LenProperties DEF FwdInv, Cursor
<1>1. state \in Nat /\ state <= Passed /\ Passed \in Nat
  BY <1>0 DEF FwdInv, Cursor, Passed, Fwd!None
<1>2. PICK d \in 1..Len(table) : Covers(d, m)
  BY <1>1 DEF FwdInv, Covered
<1>3. ~ToSend(d)
  BY <1>1, <1>2 DEF Covers, ToSend, FwdInv, Listed, Cursor
<1> QED
  BY <1>2, <1>3

\* The pass ends: with the cursor saved, or without.
LEMMA FwdEnds ==
    ASSUME Settings, FwdInv, Fwd!SaveState \/ Fwd!PassFails
    PROVE  FwdInv'
<1> USE DEF Settings
<1>1. /\ pass' = [at |-> "idle", rows |-> <<>>, last |-> 0]
      /\ UNCHANGED <<table, now, sent, since>>
  BY DEF Fwd!SaveState, Fwd!PassFails, Fwd!Idle
<1>2. Len(table) \in Nat /\ Len(<<>>) = 0 /\ <<>> \in Seq(Nat)
  BY EmptySeq, LenProperties DEF FwdInv, Cursor
<1>3. pass' \in [at : {"idle", "send"}, rows : Seq(Nat), last : 0..Len(table)]
      /\ pass'.rows = <<>> /\ pass'.at = "idle" /\ \A m : ~ToSend(m)'
  BY <1>1, <1>2 DEF ToSend
<1>4. CASE Fwd!SaveState
  <2>1. pass.at = "send" /\ pass.rows = <<>> /\ state' = pass.last /\ faults' = faults
    BY <1>4 DEF Fwd!SaveState
  <2>2. /\ Passed' = Passed /\ state \in Nat /\ state' \in 0..Len(table)
        /\ state < state' /\ since \in Nat /\ since <= state
    BY <1>3, <2>1 DEF Passed, FwdInv, Cursor, Fwd!None
  <2>3. Cursor'
    <3>1. Cursor
      BY DEF FwdInv
    <3>2. state' # Fwd!None /\ since # Fwd!None /\ since <= state'
      BY <1>2, <2>2 DEF Fwd!None
    <3> QED
      BY <1>1, <1>3, <2>1, <2>2, <3>1, <3>2 DEF Cursor
  <2>4. Listed' /\ Counted'
    BY <1>1, <1>2, <1>3, <2>1, <2>2 DEF FwdInv, Listed, Counted
  <2>5. \A m : ~ToSend(m)
    BY <1>2, <2>1 DEF ToSend
  <2>6. \A d, m \in 1..Len(table) : Covers(d, m) => Covers(d, m)'
    BY <1>1, <2>5 DEF Covers, Fwd!Wanted
  <2>7. Covered'
    BY <1>1, <2>2, <2>6 DEF FwdInv, Covered
  <2> QED
    BY <2>3, <2>4, <2>7 DEF FwdInv
<1>5. CASE Fwd!PassFails
  <2>1. faults' = faults + 1 /\ state' = state /\ faults < MaxFaults /\ pass # Fwd!Idle
    BY <1>5 DEF Fwd!PassFails
  <2>2. Cursor'
    BY <1>1, <1>3, <2>1 DEF FwdInv, Cursor
  <2>3. Listed' /\ Passed' = state
    BY <1>2, <1>3, <2>1 DEF Listed, Passed
  <2>4. Counted'
    <3> SUFFICES ASSUME NEW m \in 1..MaxMessages
                 PROVE  /\ sent[m] > 0 => since # Fwd!None /\ since < m /\ m <= Len(table)
                        /\ sent[m] <= 1 + (faults + 1) /\ sent[m] <= faults + 1
      BY <1>1, <2>1 DEF Counted
    <3>1. sent[m] \in Nat /\ faults \in Nat
      BY DEF FwdInv, Cursor
    <3> QED
      BY <3>1 DEF FwdInv, Counted
  <2>5. Covered'
    <3> SUFFICES ASSUME since # Fwd!None, NEW m \in 1..Len(table), m <= state
                 PROVE  \E d \in 1..Len(table) : Covers(d, m)'
      BY <1>1, <2>3 DEF Covered
    <3>1. PICK d \in 1..Len(table) : Covers(d, m) /\ ~ToSend(d)
      BY CoveredSoFar
    <3> QED
      BY <1>1, <3>1 DEF Covers, Fwd!Wanted
  <2> QED
    BY <2>2, <2>3, <2>4, <2>5 DEF FwdInv
<1> QED
  BY <1>4, <1>5

LEMMA FwdKept ==
    ASSUME Settings, FwdInv, [Fwd!Next]_Fwd!vars
    PROVE  FwdInv'
<1>1. CASE Fwd!TimePasses \/ UNCHANGED Fwd!vars
  <2>1. /\ UNCHANGED <<table, state, pass, sent, faults, since>>
        /\ now' \in 0..MaxTime
    BY <1>1 DEF Fwd!TimePasses, Fwd!vars, FwdInv, Cursor, Settings
  <2>2. Cursor' /\ Listed'
    BY <2>1 DEF FwdInv, Cursor, Listed
  <2>3. Counted'
    BY <2>1 DEF FwdInv, Counted, ToSend, Passed
  <2>4. Covered'
    BY <2>1 DEF FwdInv, Covered, Covers, ToSend, Passed, Fwd!Wanted
  <2> QED
    BY <2>2, <2>3, <2>4 DEF FwdInv
<1> QED
  BY <1>1, FwdReceives, FwdBegins, FwdLists, FwdSends, FwdEnds
     DEF Fwd!Next, Fwd!runForwarding

LEMMA SentOnce == ASSUME Settings, FwdInv PROVE Fwd!NoHistoryNoRepeats
<1> SUFFICES ASSUME NEW m \in 1..Len(table)
             PROVE  (sent[m] > 0 => m > since) /\ sent[m] <= 1 + faults
  BY DEF Fwd!NoHistoryNoRepeats, Fwd!Ids
<1>1. m \in 1..MaxMessages
  BY LenProperties DEF FwdInv, Cursor, Settings
<1> QED
  BY <1>1 DEF FwdInv, Counted

\* Forward: whatever the rule is limited to, nothing that was there before it is
\* sent, and only a pass that did not reach its end repeats itself, once a failure
\* (worker/forwarding.ts).
THEOREM ForwardNoHistory == Settings => (Fwd!Spec => []Fwd!NoHistoryNoRepeats)
<1> SUFFICES ASSUME Settings PROVE Fwd!Spec => []Fwd!NoHistoryNoRepeats
  OBVIOUS
<1> QED
  BY FwdStart, FwdKept, SentOnce, PTL DEF Fwd!Spec

\* Forward: of equal texts one is sent or is history, unless the first of them was
\* none of the rule's: the query takes any earlier copy for a repeat.
ForwardedOrNotOurs ==
    since # Fwd!None => \A m \in Fwd!Ids : since < m /\ m <= state =>
      \E d \in Fwd!Ids : /\ d <= m /\ table[d].text = table[m].text
                         /\ sent[d] > 0 \/ d <= since \/ ~Fwd!Wanted(d)
THEOREM ForwardAnyRule == Settings => (Fwd!Spec => []ForwardedOrNotOurs)
<1> SUFFICES ASSUME Settings PROVE Fwd!Spec => []ForwardedOrNotOurs
  OBVIOUS
<1>1. FwdInv => ForwardedOrNotOurs
  BY CoveredSoFar DEF ForwardedOrNotOurs, Fwd!Ids, Covers
<1> QED
  BY FwdStart, FwdKept, <1>1, PTL DEF Fwd!Spec

\* A rule for all channels, where no message is a direct one.
Unlimited == Channels = {} /\ Direct = FALSE
Broadcasts == \A m \in 1..Len(table) : ~table[m].dm

LEMMA BroadcastsStay ==
    ASSUME Settings, Unlimited, FwdInv, Broadcasts, [Fwd!Next]_Fwd!vars
    PROVE  Broadcasts'
<1>1. CASE Fwd!Receive
  <2>1. PICK r \in Row : table' = Append(table, r) /\ ~r.dm
    <3>1. PICK c \in Channel, x \in Text :
            table' = Append(table, [ch |-> c, text |-> x, dm |-> FALSE, t |-> now])
      BY <1>1 DEF Fwd!Receive, Unlimited
    <3>2. [ch |-> c, text |-> x, dm |-> FALSE, t |-> now] \in Row
      BY DEF Row, FwdInv, Cursor
    <3> QED
      BY <3>1, <3>2
  <2>2. /\ Len(table') = Len(table) + 1 /\ Len(table) \in Nat
        /\ \A i \in 1..Len(table) : table'[i] = table[i]
        /\ table'[Len(table) + 1] = r
    BY <2>1, AppendProperties, LenProperties DEF FwdInv, Cursor
  <2> QED
    BY <2>1, <2>2 DEF Broadcasts
<1>2. CASE ~Fwd!Receive
  <2>1. table' = table
    BY <1>2 DEF Fwd!Next, Fwd!vars, Fwd!TimePasses, Fwd!runForwarding, Fwd!FirstPass,
                Fwd!ListRows, Fwd!SendRow, Fwd!SaveState, Fwd!PassFails
  <2> QED
    BY <2>1 DEF Broadcasts
<1> QED
  BY <1>1, <1>2

LEMMA BroadcastsStart == ASSUME Unlimited, Fwd!Init PROVE Broadcasts
  BY EmptySeq DEF Fwd!Init, Broadcasts

LEMMA EveryTextCovered ==
    ASSUME Settings, Unlimited, FwdInv, Broadcasts PROVE Fwd!EveryTextForwarded
<1> SUFFICES ASSUME since # Fwd!None,
                    NEW m \in 1..Len(table), m <= state
             PROVE  \E d \in 1..Len(table) : /\ d <= m /\ table[d].text = table[m].text
                                             /\ sent[d] > 0 \/ d <= since
  BY DEF Fwd!EveryTextForwarded, Fwd!Ids
<1>1. PICK d \in 1..Len(table) : Covers(d, m) /\ ~ToSend(d)
  BY CoveredSoFar
<1>2. Fwd!Wanted(d)
  BY DEF Fwd!Wanted, Broadcasts, Unlimited
<1> QED
  BY <1>1, <1>2 DEF Covers

\* Forward: under a rule for all channels every text behind the cursor has been
\* sent, or repeats one that was, or is history (worker/forwarding.ts).
THEOREM ForwardEveryText ==
    Settings /\ Unlimited => (Fwd!Spec => []Fwd!EveryTextForwarded)
<1> SUFFICES ASSUME Settings, Unlimited PROVE Fwd!Spec => []Fwd!EveryTextForwarded
  OBVIOUS
<1> QED
  BY FwdStart, FwdKept, BroadcastsStay, BroadcastsStart, EveryTextCovered, PTL DEF Fwd!Spec

-----------------------------------------------------------------------------
(* The automatic senders: the inductive invariant.                         *)

\* Rows a duty may queue, and nodes it may queue them for.
Senders ==
    /\ IsFiniteSet(Node) /\ Transports \in Nat /\ Cooldown \in Int /\ Quiet \in Int
    /\ Horizon \in Int /\ Rescan \in Int /\ BACKLOG_MAX \in Nat /\ PerRun \in Nat

RowShape(r) ==
    /\ r = [by |-> r.by, src |-> r.src, t |-> r.t, state |-> r.state, first |-> r.first]
    /\ r.t \in 0..now /\ r.state \in {"queued", "held", "done"}
PassShaped ==
    /\ pass = [duty |-> pass.duty, todo |-> pass.todo, at |-> pass.at, left |-> pass.left]
    /\ pass.left \in Nat
    /\ pass.left # 0 => Send!Duty \in {"reply", "automation"}
    /\ pass.at = "check" => Send!Duty \notin {"welcome", "trace", "probe"}
    /\ pass.at = "claim" => Send!Duty = "trace"
    /\ pass.at = "mark"  => Send!Duty \in {"probe", "alert"}

\* The outbox is a sequence of rows that are as old as they say.
Queued ==
    /\ now \in Nat
    /\ \E S : outbox \in Seq(S)
    /\ \A i \in 1..Len(outbox) : RowShape(outbox[i])

\* A batch of candidates, each of them once.
Batched(todo) ==
    /\ \E S : todo \in Seq(S)
    /\ todo # <<>>
    /\ \A k, l \in 1..Len(todo) : todo[k].subject = todo[l].subject => k = l

\* The row that the tick is about to queue opens a round that is due: the cooldown
\* was looked up since, and the batches that are listed once are due as a whole.
Due ==
    /\ pass.at = "queue" /\ pass.left = 0 /\ Send!Duty \in {"reply", "nudge", "automation"} =>
         ~Send!Served
    /\ pass.at # "list" /\ Send!Duty \in {"welcome", "trace", "probe"} => Batched(pass.todo)
    /\ pass.at # "list" /\ Send!Duty = "welcome" =>
         \A k \in 1..Len(pass.todo) : Send!Rows(<<"welcome", pass.todo[k].subject>>) = {}
    /\ pass.at # "list" /\ Send!Duty = "trace" =>
         \A k \in 1..Len(pass.todo) : \A i \in Send!Rows(<<"trace", pass.todo[k].subject>>) :
            now - outbox[i].t >= Quiet

\* The rows of welcomes and probes that wait, and those that the tick will add.
Waits(i) == outbox[i].by[1] \in {"welcome", "probe"} /\ outbox[i].state \in {"queued", "held"}
Waiting == {i \in 1..Len(outbox) : Waits(i)}
Coming ==
    IF pass.at = "queue" /\ Send!Duty \in {"welcome", "probe"} THEN Len(pass.todo)
    ELSE IF pass.at = "mark" /\ Send!Duty = "probe" THEN Len(pass.todo) - 1 ELSE 0
Bounded == Cardinality(Waiting) + Coming <= BACKLOG_MAX + PerRun

SendInv == PassShaped /\ Queued /\ Due /\ Send!NeverTooSoon /\ Bounded

LEMMA SendSizes ==
    \A S : Send!Cardinality(S) = Cardinality(S)
  BY DEF Send!Cardinality, Cardinality

LEMMA SendStart == ASSUME Senders, Send!Init PROVE SendInv
<1>1. /\ outbox = <<>> /\ now = 0 /\ Len(outbox) = 0 /\ DOMAIN outbox = 1..0
      /\ pass.at = "list" /\ pass.left = 0
      /\ pass = [duty |-> 0, todo |-> <<>>, at |-> "list", left |-> 0]
  BY EmptySeq DEF Send!Init, Send!Idle
<1>2. PassShaped
  BY <1>1 DEF PassShaped
<1>3. Queued
  BY <1>1, EmptySeq DEF Queued
<1>4. Due
  BY <1>1 DEF Due
<1>5. Send!NeverTooSoon
  BY <1>1 DEF Send!NeverTooSoon, Send!TooSoon
<1>6. Bounded
  <2>1. Waiting = {}
    BY <1>1 DEF Waiting
  <2> QED
    BY <1>1, <2>1, FS_EmptySet DEF Bounded, Coming, Senders
<1> QED
  BY <1>2, <1>3, <1>4, <1>5, <1>6 DEF SendInv

\* What may be listed of a set of nodes: PerRun of them, each once.
LEMMA SomeOf ==
    ASSUME Senders, NEW S \in SUBSET Node, NEW todo \in Send!Some(S), todo # <<>>
    PROVE  /\ Batched(todo) /\ Len(todo) \in Nat /\ Len(todo) <= PerRun
           /\ \A k \in 1..Len(todo) : todo[k].subject \in S
           /\ todo \in Seq({Send!Item(n, 0) : n \in S})
<1>1. PICK s \in Send!FirstOf(S) : todo \in Send!SetToSeqs({Send!Item(n, 0) : n \in s})
  BY DEF Send!Some
<1> DEFINE T == {Send!Item(n, 0) : n \in s}
<1>2. s \subseteq S /\ IsFiniteSet(s) /\ Cardinality(s) <= PerRun /\ Cardinality(s) \in Nat
  <2>1. s \subseteq S /\ IsFiniteSet(S) /\ IsFiniteSet(s)
    BY FS_Subset DEF Send!FirstOf, Senders
  <2>2. Cardinality(s) = IF Cardinality(S) < PerRun THEN Cardinality(S) ELSE PerRun
    BY SendSizes DEF Send!FirstOf
  <2>3. Cardinality(S) \in Nat /\ Cardinality(s) \in Nat
    BY <2>1, FS_CardinalityType
  <2> QED
    BY <2>1, <2>2, <2>3 DEF Senders
<1>3. IsFiniteSet(T) /\ Cardinality(T) \in Nat /\ Cardinality(T) <= Cardinality(s)
  <2> DEFINE f == [n \in s |-> Send!Item(n, 0)]
  <2>1. f \in Surjection(s, T)
    BY DEF Surjection
  <2> QED
    BY <1>2, <2>1, FS_Surjection, FS_CardinalityType
<1>4. /\ todo \in [1..Cardinality(T) -> T]
      /\ \A i, j \in 1..Cardinality(T) : i # j => todo[i] # todo[j]
  BY <1>1, SendSizes DEF Send!SetToSeqs
<1>5. todo \in Seq(T) /\ Len(todo) = Cardinality(T)
  BY <1>3, <1>4
<1>6. \A x \in T : x.subject \in s /\ x = Send!Item(x.subject, 0)
  BY DEF Send!Item
<1> HIDE DEF T
<1>7. \A k \in 1..Len(todo) : todo[k] \in T
  BY <1>4, <1>5
<1>8. \A k, l \in 1..Len(todo) : todo[k].subject = todo[l].subject => k = l
  BY <1>4, <1>5, <1>6, <1>7
<1>9. Batched(todo)
  BY <1>5, <1>8, Zenon DEF Batched
<1>10. \A k \in 1..Len(todo) : todo[k].subject \in S
  BY <1>2, <1>6, <1>7
<1>11. todo \in Seq({Send!Item(n, 0) : n \in S})
  <2>1. T \subseteq {Send!Item(n, 0) : n \in S}
    BY <1>2 DEF T
  <2> QED
    BY <1>5, <2>1
<1> QED
  BY <1>2, <1>3, <1>5, <1>9, <1>10, <1>11 DEF Senders

\* What is left of a batch is a batch.
LEMMA RestOf ==
    ASSUME NEW todo, Batched(todo)
    PROVE  /\ Len(todo) \in Nat \ {0} /\ Head(todo) = todo[1]
           /\ \A k \in 2..Len(todo) : todo[k].subject # Head(todo).subject
           /\ Len(todo) # 1 =>
                /\ Batched(Tail(todo)) /\ Len(Tail(todo)) = Len(todo) - 1
                /\ \A k \in 1..Len(Tail(todo)) : Tail(todo)[k] = todo[k + 1] /\ k + 1 \in 2..Len(todo)
<1>1. PICK S : todo \in Seq(S)
  BY DEF Batched
<1>2. /\ Len(todo) \in Nat \ {0} /\ Head(todo) = todo[1]
      /\ Tail(todo) \in Seq(S) /\ Len(Tail(todo)) = Len(todo) - 1
      /\ \A k \in 1..Len(Tail(todo)) : Tail(todo)[k] = todo[k + 1]
  BY <1>1, EmptySeq, HeadTailProperties DEF Batched
<1>3. \A k \in 2..Len(todo) : todo[k].subject # Head(todo).subject
  BY <1>2 DEF Batched
<1>4. ASSUME Len(todo) # 1 PROVE Batched(Tail(todo))
  <2>1. Tail(todo) # <<>>
    <3>1. Len(Tail(todo)) # 0 /\ Len(<<>>) = 0
      BY <1>2, <1>4
    <3> QED
      BY <3>1
  <2>2. \A k, l \in 1..Len(Tail(todo)) : Tail(todo)[k].subject = Tail(todo)[l].subject => k = l
    <3> SUFFICES ASSUME NEW k \in 1..Len(Tail(todo)), NEW l \in 1..Len(Tail(todo)),
                        todo[k + 1].subject = todo[l + 1].subject
                 PROVE  k = l
      BY <1>2
    <3>1. k + 1 \in 1..Len(todo) /\ l + 1 \in 1..Len(todo)
      BY <1>2
    <3>2. k + 1 = l + 1
      BY <3>1 DEF Batched
    <3> QED
      BY <3>2
  <2> QED
    BY <1>2, <2>1, <2>2 DEF Batched
<1>5. \A k \in 1..Len(Tail(todo)) : k + 1 \in 2..Len(todo)
  BY <1>2
<1> QED
  BY <1>2, <1>3, <1>4, <1>5

\* The number of rows that are to come is a number.
LEMMA ComingNat ==
    ASSUME SendInv PROVE Coming \in Nat /\ (pass.at = "list" => Coming = 0)
<1>1. pass.at # "list" /\ Send!Duty \in {"welcome", "probe"} => Len(pass.todo) \in Nat \ {0}
  BY RestOf DEF SendInv, Due
<1> QED
  BY <1>1 DEF Coming

LEMMA WaitingFinite ==
    ASSUME Queued
    PROVE  /\ Len(outbox) \in Nat /\ DOMAIN outbox = 1..Len(outbox)
           /\ IsFiniteSet(Waiting) /\ Cardinality(Waiting) \in Nat
<1>1. Len(outbox) \in Nat /\ DOMAIN outbox = 1..Len(outbox)
  BY LenProperties DEF Queued
<1>2. IsFiniteSet(1..Len(outbox))
  BY <1>1, FS_Interval
<1> QED
  BY <1>1, <1>2, FS_Subset, FS_CardinalityType DEF Waiting

\* The outbox, time and what is served are the same as before.
LEMMA SameOutbox ==
    ASSUME Queued, UNCHANGED <<now, outbox>>
    PROVE  /\ Queued' /\ (Send!NeverTooSoon => Send!NeverTooSoon') /\ Waiting' = Waiting
           /\ \A by : Send!Rows(by)' = Send!Rows(by)
           /\ \A by : \A gap : Send!Since(by, gap)' <=> Send!Since(by, gap)
  BY DEF Queued, RowShape, Send!NeverTooSoon, Send!TooSoon, Send!Gap, Send!Rows,
         Waiting, Waits, Send!Since

\* A step that has nothing to do with the outbox.
LEMMA Elsewhere ==
    ASSUME SendInv, UNCHANGED <<now, outbox, pass>> PROVE SendInv'
<1>1. Queued' /\ Send!NeverTooSoon' /\ Waiting' = Waiting
      /\ (\A by : Send!Rows(by)' = Send!Rows(by))
      /\ \A by : \A gap : Send!Since(by, gap)' <=> Send!Since(by, gap)
  BY SameOutbox DEF SendInv
<1>2. Send!Duty' = Send!Duty /\ Send!By' = Send!By
  BY DEF Send!Duty, Send!By, Send!This
<1>3. PassShaped' /\ Coming' = Coming
  BY <1>2 DEF SendInv, PassShaped, Coming
<1>4. Bounded'
  BY <1>1, <1>3 DEF SendInv, Bounded
<1>5. Due'
  <2>1. Send!Duty \in {"reply", "nudge", "automation"} => (Send!Served' <=> Send!Served)
    BY <1>1, <1>2 DEF Send!Served
  <2> QED
    BY <1>1, <1>2, <2>1 DEF SendInv, Due
<1> QED
  BY <1>1, <1>3, <1>4, <1>5 DEF SendInv

\* The tick goes on to its next duty, or ends.
Turns == /\ pass' = [duty |-> pass'.duty, todo |-> <<>>, at |-> "list", left |-> 0]
         /\ UNCHANGED <<now, outbox>>

LEMMA NextIsList ==
    ASSUME NEW d
    PROVE  Send!NextDuty(d) = [duty |-> Send!NextDuty(d).duty, todo |-> <<>>,
                               at |-> "list", left |-> 0]
  BY DEF Send!NextDuty, Send!Idle

LEMMA TurnKeeps == ASSUME Senders, SendInv, Turns PROVE SendInv'
<1>1. Queued' /\ Send!NeverTooSoon' /\ Waiting' = Waiting
  BY SameOutbox DEF SendInv, Turns
<1>2. pass'.at = "list" /\ pass'.left = 0 /\ PassShaped' /\ Due' /\ Coming' = 0
  BY DEF Turns, PassShaped, Due, Coming
<1>3. Bounded'
  BY <1>1, <1>2, ComingNat, WaitingFinite DEF SendInv, Bounded, Senders
<1> QED
  BY <1>1, <1>2, <1>3 DEF SendInv

\* Time goes on between two duties.
LEMMA TimeKeeps == ASSUME Senders, SendInv, Send!TimePasses PROVE SendInv'
<1>1. pass.at = "list" /\ now' = now + 1 /\ UNCHANGED <<outbox, pass>>
  BY DEF Send!TimePasses
<1>2. Queued'
  BY <1>1 DEF SendInv, Queued, RowShape
<1>3. Send!NeverTooSoon'
  BY <1>1 DEF SendInv, Send!NeverTooSoon, Send!TooSoon, Send!Gap, Send!Rows
<1>4. Send!Duty' = Send!Duty
  BY <1>1 DEF Send!Duty
<1>5. PassShaped' /\ Due' /\ Coming' = Coming /\ Waiting' = Waiting
  BY <1>1, <1>4 DEF SendInv, PassShaped, Due, Coming, Waiting, Waits
<1>6. Bounded'
  BY <1>5 DEF SendInv, Bounded
<1> QED
  BY <1>2, <1>3, <1>5, <1>6 DEF SendInv

\* The outbox is drained: rows are held or settled, and keep their place and time.
LEMMA DrainKeeps == ASSUME Senders, SendInv, Send!Drain PROVE SendInv'
<1>t. PassShaped /\ Queued /\ Due /\ Send!NeverTooSoon /\ Bounded
  BY DEF SendInv
<1>0. Len(outbox) \in Nat /\ DOMAIN outbox = 1..Len(outbox)
  BY <1>t, WaitingFinite
<1>1. PICK k \in DOMAIN outbox, s \in {"held", "done"} :
         /\ outbox[k].state \notin {s, "done"}
         /\ outbox' = [i \in DOMAIN outbox |-> IF i <= k /\ outbox[i].state # "done"
                                              THEN [outbox[i] EXCEPT !.state = s] ELSE outbox[i]]
         /\ UNCHANGED <<now, pass>>
  BY DEF Send!Drain
<1>2. /\ Len(outbox') = Len(outbox) /\ DOMAIN outbox' = 1..Len(outbox)
      /\ \E S : outbox' \in Seq(S)
  <2> DEFINE f(i) == IF i <= k /\ outbox[i].state # "done"
                     THEN [outbox[i] EXCEPT !.state = s] ELSE outbox[i]
             S == {f(i) : i \in 1..Len(outbox)}
  <2>1. outbox' = [i \in 1..Len(outbox) |-> f(i)]
    BY <1>0, <1>1
  <2> HIDE DEF f
  <2>2. outbox' \in [1..Len(outbox) -> S]
    BY <2>1
  <2> HIDE DEF S
  <2>3. outbox' \in Seq(S) /\ Len(outbox') = Len(outbox)
    BY <1>0, <2>2
  <2> QED
    BY <2>2, <2>3
<1>3. \A i \in 1..Len(outbox) : /\ outbox'[i].by = outbox[i].by /\ outbox'[i].t = outbox[i].t
                                /\ outbox'[i].first = outbox[i].first
                                /\ RowShape(outbox[i])'
                                /\ Waits(i)' => Waits(i)
  <2> SUFFICES ASSUME NEW i \in 1..Len(outbox)
               PROVE  /\ outbox'[i].by = outbox[i].by /\ outbox'[i].t = outbox[i].t
                      /\ outbox'[i].first = outbox[i].first
                      /\ RowShape(outbox[i])'
                      /\ Waits(i)' => Waits(i)
    OBVIOUS
  <2> DEFINE r == outbox[i]
  <2>1. /\ r = [by |-> r.by, src |-> r.src, t |-> r.t, state |-> r.state, first |-> r.first]
        /\ r.t \in 0..now /\ r.state \in {"queued", "held", "done"}
    BY <1>t DEF Queued, RowShape
  <2>2. \/ outbox'[i] = r
        \/ r.state \in {"queued", "held"} /\ outbox'[i] = [r EXCEPT !.state = s]
    BY <1>0, <1>1, <2>1
  <2> QED
    BY <1>1, <2>1, <2>2 DEF RowShape, Waits
<1>4. Queued'
  BY <1>1, <1>2, <1>3, <1>t DEF Queued
<1>5. \A by : Send!Rows(by)' = Send!Rows(by)
  BY <1>0, <1>2, <1>3 DEF Send!Rows
<1>6. Send!NeverTooSoon'
  BY <1>0, <1>2, <1>3, <1>5, <1>t DEF Send!NeverTooSoon, Send!TooSoon, Send!Gap, Send!Rows
<1>7. \A by : \A gap : Send!Since(by, gap)' <=> Send!Since(by, gap)
  BY <1>0, <1>1, <1>3, <1>5 DEF Send!Since, Send!Rows
<1>8. Send!Duty' = Send!Duty /\ Send!By' = Send!By
  BY <1>1 DEF Send!Duty, Send!By, Send!This
<1>9. PassShaped' /\ Coming' = Coming
  BY <1>1, <1>8, <1>t DEF PassShaped, Coming
<1>10. Due'
  <2>1. Send!Duty \in {"reply", "nudge", "automation"} => (Send!Served' <=> Send!Served)
    BY <1>7, <1>8 DEF Send!Served
  <2>2. \A by : \A i \in Send!Rows(by) : outbox'[i].t = outbox[i].t
    BY <1>0, <1>3 DEF Send!Rows
  <2> QED
    BY <1>1, <1>5, <1>8, <2>1, <2>2, <1>t DEF Due
<1>11. Bounded'
  <2>1. Waiting' \subseteq Waiting
    BY <1>2, <1>3 DEF Waiting
  <2>2. Cardinality(Waiting') <= Cardinality(Waiting) /\ Cardinality(Waiting') \in Nat
    BY <2>1, <1>t, WaitingFinite, FS_Subset, FS_CardinalityType
  <2> QED
    BY <2>2, <1>9, <1>t, WaitingFinite, ComingNat DEF Bounded, Senders
<1> QED
  BY <1>4, <1>6, <1>9, <1>10, <1>11 DEF SendInv

\* The tick goes on to the next candidate, or to the next duty.
LEMMA OnwardIs ==
    ASSUME PassShaped, pass' = Send!Onward
    PROVE  \/ pass' = [duty |-> pass'.duty, todo |-> <<>>, at |-> "list", left |-> 0]
           \/ /\ Len(pass.todo) # 1
              /\ pass' = [duty |-> pass.duty, todo |-> Tail(pass.todo),
                          at |-> Send!Entry(Send!Duty), left |-> 0]
<1>1. CASE Len(pass.todo) = 1
  <2>1. pass' = Send!NextDuty(pass.duty)
    BY <1>1 DEF Send!Onward
  <2> QED
    BY <2>1, NextIsList
<1>2. CASE Len(pass.todo) # 1
  <2>1. pass' = [pass EXCEPT !.todo = Tail(@), !.at = Send!Entry(Send!Duty), !.left = 0]
    BY <1>2 DEF Send!Onward
  <2> QED
    BY <1>2, <2>1 DEF PassShaped
<1> QED
  BY <1>1, <1>2

\* A duty lists its candidates.
LEMMA ListKeeps == ASSUME Senders, SendInv, Send!List PROVE SendInv'
<1>t. PassShaped /\ Queued /\ Due /\ Send!NeverTooSoon /\ Bounded
  BY DEF SendInv
<1>1. PICK todo \in Send!Candidates :
         pass' = IF todo = <<>> THEN Send!NextDuty(pass.duty)
                 ELSE [pass EXCEPT !.todo = todo, !.at = Send!Entry(Send!Duty)]
  BY DEF Send!List
<1>2. pass.at = "list" /\ UNCHANGED <<now, outbox>>
  BY DEF Send!List
<1>3. CASE todo = <<>>
  <2>1. Turns
    BY <1>1, <1>2, <1>3, NextIsList DEF Turns
  <2> QED
    BY <2>1, TurnKeeps
<1>4. CASE todo # <<>>
  <2>1. /\ pass' = [duty |-> pass.duty, todo |-> todo, at |-> Send!Entry(Send!Duty),
                    left |-> pass.left]
        /\ pass'.at \in {"claim", "queue", "check"}
        /\ Send!Duty = "trace" => pass'.at = "claim"
        /\ Send!Duty \in {"welcome", "probe"} => pass'.at = "queue"
        /\ Send!Duty \notin {"welcome", "probe", "trace"} => pass'.at = "check"
    BY <1>1, <1>4, <1>t DEF PassShaped, Send!Entry
  <2>2. Send!Duty' = Send!Duty /\ pass'.todo = todo /\ pass'.left = pass.left
    BY <2>1 DEF Send!Duty
  <2>3. PassShaped'
    BY <2>1, <2>2, <1>t DEF PassShaped
  <2>4. Queued' /\ Send!NeverTooSoon' /\ Waiting' = Waiting
        /\ \A by : Send!Rows(by)' = Send!Rows(by)
    BY <1>2, <1>t, SameOutbox
  <2>5. Send!Duty \in {"welcome", "trace", "probe"} =>
          Batched(todo) /\ Len(todo) \in Nat /\ Len(todo) <= PerRun
    <3>1. \E S \in SUBSET Node :
            Send!Duty \in {"welcome", "trace", "probe"} => todo \in Send!Some(S)
      <4>1. Send!Newcomers \in SUBSET Node /\ Send!Untraced \in SUBSET Node
            /\ Send!scanCandidates \in SUBSET Node
        BY DEF Send!Newcomers, Send!Untraced, Send!scanCandidates
      <4>2. CASE Send!Duty = "welcome"
        BY <1>4, <4>1, <4>2 DEF Send!Candidates
      <4>3. CASE Send!Duty = "trace"
        BY <1>4, <4>1, <4>3 DEF Send!Candidates
      <4>4. CASE Send!Duty = "probe"
        BY <1>4, <4>1, <4>4 DEF Send!Candidates
      <4> QED
        BY <4>1, <4>2, <4>3, <4>4
    <3> QED
      BY <1>4, <3>1, SomeOf
  <2>6. Send!Duty = "welcome" =>
          \A k \in 1..Len(todo) : Send!Rows(<<"welcome", todo[k].subject>>) = {}
    <3> SUFFICES ASSUME Send!Duty = "welcome", NEW k \in 1..Len(todo)
                 PROVE  Send!Rows(<<"welcome", todo[k].subject>>) = {}
      OBVIOUS
    <3>1. todo \in Send!Some(Send!Newcomers) /\ Send!Newcomers \in SUBSET Node
      BY <1>4 DEF Send!Candidates, Send!Newcomers
    <3>2. todo[k].subject \in Send!Newcomers
      BY <1>4, <3>1, SomeOf
    <3> QED
      BY <3>2 DEF Send!Newcomers
  <2>7. Send!Duty = "trace" =>
          \A k \in 1..Len(todo) : \A i \in Send!Rows(<<"trace", todo[k].subject>>) :
             now - outbox[i].t >= Quiet
    <3> SUFFICES ASSUME Send!Duty = "trace", NEW k \in 1..Len(todo)
                 PROVE  \A i \in Send!Rows(<<"trace", todo[k].subject>>) :
                           now - outbox[i].t >= Quiet
      OBVIOUS
    <3>1. /\ todo \in Send!Some(Send!Untraced) /\ Send!Untraced \in SUBSET Node
          /\ Send!MayTrace
      BY <1>4 DEF Send!Candidates, Send!Untraced
    <3>2. todo[k].subject \in Node
      BY <1>4, <3>1, SomeOf
    <3> QED
      BY <3>1, <3>2 DEF Send!MayTrace
  <2>8. Due'
    BY <1>2, <2>1, <2>2, <2>4, <2>5, <2>6, <2>7 DEF Due
  <2>9. Bounded'
    <3>1. CASE pass'.at = "queue" /\ Send!Duty \in {"welcome", "probe"}
      <4> DEFINE B == {i \in 1..Len(outbox) : outbox[i].state \in {"queued", "held"}}
      <4>2. Send!outboxBacklog = Cardinality(B)
        BY <1>t, WaitingFinite, SendSizes DEF Send!outboxBacklog
      <4>3. IsFiniteSet(B) /\ Waiting \subseteq B
        <5>1. IsFiniteSet(1..Len(outbox)) /\ B \subseteq 1..Len(outbox)
          BY <1>t, WaitingFinite, FS_Interval
        <5> QED
          BY <5>1, FS_Subset DEF Waiting, Waits
      <4>4. Cardinality(Waiting) <= Cardinality(B) /\ Cardinality(B) \in Nat
            /\ Cardinality(Waiting) \in Nat
        BY <4>3, FS_Subset, FS_CardinalityType
      <4>1. Send!outboxBacklog <= BACKLOG_MAX
        <5>1. ~(Send!outboxBacklog > BACKLOG_MAX)
          BY <1>4, <3>1 DEF Send!Candidates
        <5> QED
          BY <5>1, <4>2, <4>4 DEF Senders
      <4>5. Coming' = Len(todo)
        BY <2>2, <3>1 DEF Coming
      <4> QED
        BY <2>4, <2>5, <3>1, <4>1, <4>2, <4>4, <4>5 DEF Bounded, Senders
    <3>2. CASE ~(pass'.at = "queue" /\ Send!Duty \in {"welcome", "probe"})
      <4>1. Coming' = 0
        BY <2>1, <2>2, <3>2 DEF Coming
      <4> QED
        BY <2>4, <4>1, <1>t, WaitingFinite, ComingNat DEF Bounded, Senders
    <3> QED
      BY <3>1, <3>2
  <2> QED
    BY <2>3, <2>4, <2>8, <2>9 DEF SendInv
<1> QED
  BY <1>3, <1>4

\* A duty looks up whether a candidate is served.
LEMMA CheckKeeps == ASSUME Senders, SendInv, Send!Check PROVE SendInv'
<1>t. PassShaped /\ Queued /\ Due /\ Send!NeverTooSoon /\ Bounded
  BY DEF SendInv
<1>1. /\ pass.at = "check" /\ UNCHANGED <<now, outbox>>
      /\ pass' = IF Send!Served THEN Send!Onward ELSE [pass EXCEPT !.at = "queue"]
      /\ Send!Duty \notin {"welcome", "trace", "probe"}
  BY <1>t DEF Send!Check, PassShaped
<1>2. Queued' /\ Send!NeverTooSoon' /\ Waiting' = Waiting
      /\ \A by : \A gap : Send!Since(by, gap)' <=> Send!Since(by, gap)
  BY <1>1, <1>t, SameOutbox
<1>3. CASE Send!Served
  <2>1. \/ Turns
        \/ pass' = [duty |-> pass.duty, todo |-> Tail(pass.todo), at |-> "check", left |-> 0]
    BY <1>1, <1>3, <1>t, OnwardIs DEF Turns, Send!Entry
  <2>2. CASE pass' = [duty |-> pass.duty, todo |-> Tail(pass.todo), at |-> "check", left |-> 0]
    <3>1. Send!Duty' = Send!Duty /\ pass'.at = "check" /\ pass'.left = 0
      BY <2>2 DEF Send!Duty
    <3>2. PassShaped' /\ Due' /\ Coming' = 0
      BY <1>1, <2>2, <3>1 DEF PassShaped, Due, Coming
    <3>3. Bounded'
      BY <1>2, <3>2, <1>t, ComingNat, WaitingFinite DEF Bounded, Senders
    <3> QED
      BY <1>2, <3>2, <3>3 DEF SendInv
  <2> QED
    BY <2>1, <2>2, TurnKeeps
<1>4. CASE ~Send!Served
  <2>1. pass' = [duty |-> pass.duty, todo |-> pass.todo, at |-> "queue", left |-> pass.left]
    BY <1>1, <1>4, <1>t DEF PassShaped
  <2>2. /\ Send!Duty' = Send!Duty /\ Send!By' = Send!By
        /\ pass'.at = "queue" /\ pass'.left = pass.left
    BY <2>1 DEF Send!Duty, Send!By, Send!This
  <2>3. PassShaped' /\ Coming' = 0
    BY <1>1, <2>1, <2>2, <1>t DEF PassShaped, Coming
  <2>4. Send!Duty \in {"reply", "nudge", "automation"} => ~Send!Served'
    BY <1>2, <1>4, <2>2 DEF Send!Served
  <2>5. Due'
    BY <1>1, <2>2, <2>4 DEF Due
  <2>6. Bounded'
    BY <1>2, <2>3, <1>t, ComingNat, WaitingFinite DEF Bounded, Senders
  <2> QED
    BY <1>2, <2>3, <2>5, <2>6 DEF SendInv
<1> QED
  BY <1>3, <1>4

\* A batch of traceroutes is claimed.
LEMMA ClaimKeeps == ASSUME Senders, SendInv, Send!Claim PROVE SendInv'
<1>t. PassShaped /\ Queued /\ Due /\ Send!NeverTooSoon /\ Bounded
  BY DEF SendInv
<1>1. /\ pass.at = "claim" /\ UNCHANGED <<now, outbox>> /\ Send!Duty = "trace"
      /\ pass' = [duty |-> pass.duty, todo |-> pass.todo, at |-> "queue", left |-> pass.left]
  BY <1>t DEF Send!Claim, PassShaped
<1>2. Queued' /\ Send!NeverTooSoon' /\ Waiting' = Waiting
      /\ \A by : Send!Rows(by)' = Send!Rows(by)
  BY <1>1, <1>t, SameOutbox
<1>3. /\ Send!Duty' = Send!Duty /\ pass'.at = "queue" /\ pass'.left = pass.left
      /\ pass'.todo = pass.todo
  BY <1>1 DEF Send!Duty
<1>4. PassShaped' /\ Coming' = 0
  BY <1>1, <1>3, <1>t DEF PassShaped, Coming
<1>5. Due'
  BY <1>1, <1>2, <1>3, <1>t DEF Due
<1>6. Bounded'
  BY <1>2, <1>4, <1>t, ComingNat, WaitingFinite DEF Bounded, Senders
<1> QED
  BY <1>2, <1>4, <1>5, <1>6 DEF SendInv

\* A probe or an alert is marked.
LEMMA MarkKeeps == ASSUME Senders, SendInv, Send!Mark PROVE SendInv'
<1>t. PassShaped /\ Queued /\ Due /\ Send!NeverTooSoon /\ Bounded
  BY DEF SendInv
<1>1. /\ pass.at = "mark" /\ UNCHANGED <<now, outbox>> /\ pass' = Send!Onward
      /\ Send!Duty \in {"probe", "alert"}
  BY <1>t DEF Send!Mark, PassShaped
<1>2. Queued' /\ Send!NeverTooSoon' /\ Waiting' = Waiting
  BY <1>1, <1>t, SameOutbox
<1>3. CASE /\ Len(pass.todo) # 1
           /\ pass' = [duty |-> pass.duty, todo |-> Tail(pass.todo),
                       at |-> Send!Entry(Send!Duty), left |-> 0]
  <2>1. /\ Send!Duty' = Send!Duty /\ pass'.todo = Tail(pass.todo) /\ pass'.left = 0
        /\ Send!Duty = "probe" => pass'.at = "queue"
        /\ Send!Duty = "alert" => pass'.at = "check"
    BY <1>3 DEF Send!Duty, Send!Entry
  <2>2. PassShaped'
    BY <1>1, <1>3, <2>1 DEF PassShaped
  <2>3. Due'
    BY <1>1, <1>3, <2>1, <1>t, RestOf DEF Due
  <2>4. Coming' = Coming
    <3>1. CASE Send!Duty = "probe"
      <4>1. Batched(pass.todo)
        BY <1>1, <3>1, <1>t DEF Due
      <4> QED
        BY <1>1, <1>3, <2>1, <3>1, <4>1, RestOf DEF Coming
    <3>2. CASE Send!Duty = "alert"
      BY <1>1, <2>1, <3>2 DEF Coming
    <3> QED
      BY <1>1, <3>1, <3>2
  <2>5. Bounded'
    BY <1>2, <2>4, <1>t DEF Bounded
  <2> QED
    BY <1>2, <2>2, <2>3, <2>5 DEF SendInv
<1> QED
  BY <1>1, <1>3, <1>t, OnwardIs, TurnKeeps DEF Turns

\* A row is queued behind the others.
LEMMA RowAdded ==
    ASSUME Queued, NEW r, outbox' = Append(outbox, r), now' = now,
           r = [by |-> r.by, src |-> r.src, t |-> r.t, state |-> r.state, first |-> r.first],
           r.t = now, r.state = "queued"
    PROVE  /\ Queued' /\ Len(outbox) \in Nat /\ Len(outbox') = Len(outbox) + 1
           /\ outbox'[Len(outbox) + 1] = r
           /\ \A i \in 1..Len(outbox) : outbox'[i] = outbox[i]
           /\ \A by : by # r.by => Send!Rows(by)' = Send!Rows(by)
           /\ \A by : Send!Rows(by)' \subseteq Send!Rows(by) \union {Len(outbox) + 1}
<1>1. PICK S : outbox \in Seq(S)
  BY DEF Queued
<1>2. /\ outbox \in Seq(S \union {r}) /\ r \in S \union {r}
      /\ Len(outbox) \in Nat /\ DOMAIN outbox = 1..Len(outbox)
  BY <1>1
<1>3. /\ outbox' \in Seq(S \union {r}) /\ Len(outbox') = Len(outbox) + 1
      /\ outbox'[Len(outbox) + 1] = r
      /\ \A i \in 1..Len(outbox) : outbox'[i] = outbox[i]
  BY <1>2, AppendProperties
<1>4. DOMAIN outbox' = 1..(Len(outbox) + 1)
  BY <1>3
<1>5. Queued'
  <2>1. \A i \in 1..Len(outbox') : RowShape(outbox[i])'
    <3> SUFFICES ASSUME NEW i \in 1..Len(outbox') PROVE RowShape(outbox[i])'
      OBVIOUS
    <3>1. CASE i = Len(outbox) + 1
      BY <1>3, <3>1 DEF RowShape, Queued
    <3>2. CASE i \in 1..Len(outbox)
      BY <1>3, <3>2 DEF RowShape, Queued
    <3> QED
      BY <1>2, <1>3, <3>1, <3>2
  <2> QED
    BY <1>3, <2>1 DEF Queued
<1>6. \A by : Send!Rows(by)' = {i \in 1..(Len(outbox) + 1) : outbox'[i].by = by}
  BY <1>4 DEF Send!Rows
<1>7. \A by : Send!Rows(by) = {i \in 1..Len(outbox) : outbox[i].by = by}
  BY <1>2 DEF Send!Rows
<1>8. ASSUME NEW CONSTANT by, NEW CONSTANT i \in Send!Rows(by)'
      PROVE  i \in Send!Rows(by) \/ (i = Len(outbox) + 1 /\ r.by = by)
  <2>1. i \in 1..(Len(outbox) + 1) /\ outbox'[i].by = by
    BY <1>6
  <2> QED
    BY <1>2, <1>3, <1>7, <2>1
<1>9. ASSUME NEW CONSTANT by, NEW CONSTANT i \in Send!Rows(by) PROVE i \in Send!Rows(by)'
  <2>1. i \in 1..Len(outbox) /\ outbox[i].by = by
    BY <1>7
  <2> QED
    BY <1>2, <1>3, <1>6, <2>1
<1>10. \A by : by # r.by => Send!Rows(by)' = Send!Rows(by)
  <2> SUFFICES ASSUME NEW CONSTANT by, by # r.by PROVE Send!Rows(by)' = Send!Rows(by)
    OBVIOUS
  <2>1. Send!Rows(by)' \subseteq Send!Rows(by) /\ Send!Rows(by) \subseteq Send!Rows(by)'
    BY <1>8, <1>9
  <2> QED
    BY <2>1
<1>11. \A by : Send!Rows(by)' \subseteq Send!Rows(by) \union {Len(outbox) + 1}
  BY <1>8
<1> QED
  BY <1>2, <1>3, <1>5, <1>10, <1>11

\* A row that waits for nobody, or for its own turn, is queued.
LEMMA EnqueueKeeps == ASSUME Senders, SendInv, Send!enqueueTx PROVE SendInv'
<1>t. PassShaped /\ Queued /\ Due /\ Send!NeverTooSoon /\ Bounded
  BY DEF SendInv
<1> DEFINE r == [by |-> Send!By, src |-> Send!This.src, t |-> now,
                 state |-> "queued", first |-> pass.left = 0]
           n == Len(outbox)
<1>1. pass.at = "queue" /\ outbox' = Append(outbox, r) /\ now' = now
  BY DEF Send!enqueueTx
<1>2. /\ r = [by |-> r.by, src |-> r.src, t |-> r.t, state |-> r.state, first |-> r.first]
      /\ r.t = now /\ r.state = "queued" /\ r.by = Send!By /\ (r.first <=> pass.left = 0)
  OBVIOUS
<1> HIDE DEF r
<1>3. /\ Queued' /\ n \in Nat /\ Len(outbox') = n + 1 /\ outbox'[n + 1] = r
      /\ \A i \in 1..n : outbox'[i] = outbox[i]
      /\ \A by : by # r.by => Send!Rows(by)' = Send!Rows(by)
      /\ \A by : Send!Rows(by)' \subseteq Send!Rows(by) \union {n + 1}
  BY <1>1, <1>2, <1>t, RowAdded
<1>d. DOMAIN outbox = 1..n /\ DOMAIN outbox' = 1..(n + 1)
  BY <1>3, <1>t, LenProperties DEF Queued
<1> HIDE DEF n
<1>4. Send!By = <<Send!Duty, Head(pass.todo).subject>>
  BY DEF Send!By, Send!This
<1>5. Send!NeverTooSoon'
  <2> SUFFICES ASSUME NEW d \in {"reply", "nudge", "welcome", "trace", "automation"},
                      NEW CONSTANT j \in 1..(n + 1), NEW CONSTANT i \in 1..(n + 1),
                      outbox'[i].by = outbox'[j].by,
                      outbox'[j].by[1] = d, outbox'[j].first, i < j,
                      outbox'[j].t - outbox'[i].t <= Send!Gap(d)
               PROVE  FALSE
    BY <1>d DEF Send!NeverTooSoon, Send!TooSoon, Send!Gap, Send!Rows
  <2>1. /\ i \in 1..n /\ outbox'[i] = outbox[i] /\ outbox[i].by = outbox'[j].by
        /\ i \in Send!Rows(outbox[i].by)
        /\ outbox[i].t \in Int /\ now \in Int
    <3>1. i \in 1..n
      BY <1>3
    <3> QED
      BY <1>3, <1>d, <3>1, <1>t DEF Queued, RowShape, n, Send!Rows
  <2>2. CASE j \in 1..n
    <3>1. outbox'[j] = outbox[j]
      BY <1>3, <2>2
    <3> QED
      BY <1>d, <2>1, <2>2, <3>1, <1>t DEF Send!NeverTooSoon, Send!TooSoon
  <2>3. CASE j = n + 1
    <3>1. outbox'[j] = r /\ Send!Duty = d /\ pass.left = 0 /\ i \in Send!Rows(Send!By)
          /\ now - outbox[i].t <= Send!Gap(d)
      BY <1>2, <1>3, <1>4, <2>1, <2>3
    <3>2. CASE d \in {"reply", "nudge", "automation"}
      <4>1. ~Send!Served
        BY <1>1, <3>1, <3>2, <1>t DEF Due
      <4>2. ~(outbox[i].t >= now - Send!Gap(d))
        BY <3>1, <3>2, <4>1 DEF Send!Served, Send!Since, Send!Gap
      <4>3. Send!Gap(d) \in Int
        BY <3>2 DEF Send!Gap, Senders
      <4> QED
        BY <2>1, <3>1, <4>2, <4>3
    <3>3. CASE d = "welcome"
      <4>1. /\ Batched(pass.todo)
            /\ \A k \in 1..Len(pass.todo) : Send!Rows(<<"welcome", pass.todo[k].subject>>) = {}
        BY <1>1, <3>1, <3>3, <1>t DEF Due
      <4>2. 1 \in 1..Len(pass.todo) /\ Head(pass.todo) = pass.todo[1]
        BY <4>1, RestOf
      <4> QED
        BY <1>4, <3>1, <3>3, <4>1, <4>2
    <3>4. CASE d = "trace"
      <4>1. /\ Batched(pass.todo)
            /\ \A k \in 1..Len(pass.todo) :
                 \A x \in Send!Rows(<<"trace", pass.todo[k].subject>>) :
                    now - outbox[x].t >= Quiet
        BY <1>1, <3>1, <3>4, <1>t DEF Due
      <4>2. 1 \in 1..Len(pass.todo) /\ Head(pass.todo) = pass.todo[1]
        BY <4>1, RestOf
      <4>3. now - outbox[i].t >= Quiet
        BY <1>4, <3>1, <3>4, <4>1, <4>2
      <4>4. Send!Gap(d) = Quiet - 1
        BY <3>4 DEF Send!Gap
      <4> QED
        BY <2>1, <3>1, <4>3, <4>4 DEF Senders
    <3> QED
      BY <3>2, <3>3, <3>4
  <2> QED
    BY <1>3, <2>2, <2>3
<1>6. /\ IsFiniteSet(Waiting) /\ Cardinality(Waiting) \in Nat /\ Cardinality(Waiting') \in Nat
      /\ Send!Duty \notin {"welcome", "probe"} => Waiting' = Waiting
      /\ Cardinality(Waiting') <= Cardinality(Waiting) + 1
  <2>1. IsFiniteSet(Waiting) /\ Cardinality(Waiting) \in Nat
    BY <1>t, WaitingFinite
  <2>2. /\ Waiting' = {i \in 1..(n + 1) : Waits(i)'} /\ Waiting = {i \in 1..n : Waits(i)}
        /\ \A i \in 1..n : Waits(i)' <=> Waits(i)
    BY <1>3 DEF Waiting, Waits, n
  <2>3. \A i \in 1..(n + 1) : i \notin 1..n /\ Waits(i)' => Send!Duty \in {"welcome", "probe"}
    BY <1>2, <1>3, <1>4 DEF Waits
  <2>4. Waiting' = Waiting \/ Waiting' = Waiting \union {n + 1}
    <3>1. \A i \in 1..(n + 1) : i \in 1..n \/ i = n + 1
      BY <1>3
    <3>2. 1..n \subseteq 1..(n + 1) /\ n + 1 \in 1..(n + 1)
      BY <1>3
    <3> QED
      BY <2>2, <3>1, <3>2
  <2>5. Send!Duty \notin {"welcome", "probe"} => Waiting' = Waiting
    <3>1. 1..n \subseteq 1..(n + 1)
      BY <1>3
    <3> QED
      BY <2>2, <2>3, <3>1
  <2>6. /\ Cardinality(Waiting \union {n + 1}) \in Nat
        /\ Cardinality(Waiting \union {n + 1}) <= Cardinality(Waiting) + 1
    BY <2>1, FS_AddElement, FS_CardinalityType
  <2> QED
    BY <2>1, <2>4, <2>5, <2>6
\* The tick stays with the candidate: another transport's row, or its mark.
<1>7. CASE /\ pass' = [duty |-> pass.duty, todo |-> pass.todo, at |-> pass'.at,
                       left |-> pass'.left]
           /\ \/ /\ pass'.at = "queue" /\ Send!Duty \in {"reply", "automation"}
                 /\ pass'.left \in Nat \ {0}
              \/ /\ pass'.at = "mark" /\ Send!Duty \in {"probe", "alert"}
                 /\ pass'.left = 0
  <2>1. Send!Duty' = Send!Duty /\ pass'.todo = pass.todo
    BY <1>7 DEF Send!Duty
  <2>2. PassShaped' /\ Due'
    BY <1>1, <1>7, <2>1, <1>t DEF PassShaped, Due
  <2>3. Bounded'
    <3>1. CASE Send!Duty = "probe"
      <4>1. Batched(pass.todo)
        BY <1>1, <3>1, <1>t DEF Due
      <4>2. Len(pass.todo) \in Nat \ {0} /\ Coming = Len(pass.todo)
            /\ Coming' = Len(pass.todo) - 1
        BY <1>1, <1>7, <2>1, <3>1, <4>1, RestOf DEF Coming
      <4> QED
        BY <1>6, <4>2, <1>t DEF Bounded, Senders
    <3>2. CASE Send!Duty # "probe"
      <4>1. Coming' = 0 /\ Waiting' = Waiting
        BY <1>6, <1>7, <2>1, <3>2 DEF Coming
      <4> QED
        BY <1>6, <4>1, <1>t, ComingNat DEF Bounded, Senders
    <3> QED
      BY <3>1, <3>2
  <2> QED
    BY <1>3, <1>5, <2>2, <2>3 DEF SendInv
\* The tick goes on to the next duty, or ends.
<1>8. CASE pass' = [duty |-> pass'.duty, todo |-> <<>>, at |-> "list", left |-> 0]
  <2>1. PassShaped' /\ Due' /\ Coming' = 0
    BY <1>8 DEF PassShaped, Due, Coming
  <2>2. Bounded'
    <3>1. CASE Send!Duty \in {"welcome", "probe"}
      <4>1. Batched(pass.todo)
        BY <1>1, <3>1, <1>t DEF Due
      <4>2. Len(pass.todo) \in Nat \ {0} /\ Coming = Len(pass.todo)
        BY <1>1, <3>1, <4>1, RestOf DEF Coming
      <4> QED
        BY <1>6, <2>1, <4>2, <1>t DEF Bounded, Senders
    <3>2. CASE Send!Duty \notin {"welcome", "probe"}
      BY <1>6, <2>1, <3>2, <1>t, ComingNat DEF Bounded, Senders
    <3> QED
      BY <3>1, <3>2
  <2> QED
    BY <1>3, <1>5, <2>1, <2>2 DEF SendInv
\* The tick goes on to the next candidate.
<1>9. CASE /\ Len(pass.todo) # 1 /\ Send!Duty \notin {"probe", "alert"}
           /\ pass' = [duty |-> pass.duty, todo |-> Tail(pass.todo), at |-> pass'.at, left |-> 0]
           /\ pass'.at = IF Send!Duty \in {"welcome", "trace"} THEN "queue" ELSE "check"
  <2>1. Send!Duty' = Send!Duty /\ pass'.todo = Tail(pass.todo) /\ pass'.left = 0
    BY <1>9 DEF Send!Duty
  <2>2. PassShaped'
    BY <1>9, <2>1 DEF PassShaped
  <2>3. CASE Send!Duty \in {"welcome", "trace"}
    <3>1. Batched(pass.todo) /\ pass'.at = "queue"
      BY <1>1, <1>9, <2>3, <1>t DEF Due
    <3>2. /\ Batched(Tail(pass.todo)) /\ Len(Tail(pass.todo)) = Len(pass.todo) - 1
          /\ Len(pass.todo) \in Nat \ {0}
          /\ \A k \in 1..Len(Tail(pass.todo)) :
               /\ Tail(pass.todo)[k] = pass.todo[k + 1] /\ k + 1 \in 1..Len(pass.todo)
               /\ <<Send!Duty, pass.todo[k + 1].subject>> # r.by
      BY <1>2, <1>4, <1>9, <3>1, RestOf
    <3>3. ASSUME NEW CONSTANT k \in 1..Len(pass'.todo), NEW CONSTANT by,
                 by = <<Send!Duty, pass'.todo[k].subject>>
          PROVE  /\ k + 1 \in 1..Len(pass.todo) /\ by = <<Send!Duty, pass.todo[k + 1].subject>>
                 /\ Send!Rows(by)' = Send!Rows(by) /\ Send!Rows(by) \subseteq 1..n
      <4>1. /\ k + 1 \in 1..Len(pass.todo) /\ by = <<Send!Duty, pass.todo[k + 1].subject>>
            /\ by # r.by
        BY <2>1, <3>2, <3>3
      <4> QED
        BY <1>3, <1>d, <4>1 DEF Send!Rows
    <3>4. Send!Duty = "welcome" =>
            \A k \in 1..Len(pass'.todo) : Send!Rows(<<"welcome", pass.todo[k].subject>>)' = {}
      <4> SUFFICES ASSUME Send!Duty = "welcome", NEW CONSTANT k \in 1..Len(pass'.todo)
                   PROVE  Send!Rows(<<"welcome", pass.todo[k].subject>>)' = {}
        OBVIOUS
      <4>1. \A by : by = <<"welcome", pass'.todo[k].subject>> => Send!Rows(by)' = {}
        BY <1>1, <3>3, <1>t DEF Due
      <4> QED
        BY <4>1 DEF Send!Rows
    <3>5. Send!Duty = "trace" =>
            \A k \in 1..Len(pass'.todo) :
               \A x \in Send!Rows(<<"trace", pass.todo[k].subject>>)' :
                  now' - outbox'[x].t >= Quiet
      <4> SUFFICES ASSUME Send!Duty = "trace", NEW CONSTANT k \in 1..Len(pass'.todo),
                          NEW CONSTANT x \in Send!Rows(<<"trace", pass.todo[k].subject>>)'
                   PROVE  now' - outbox'[x].t >= Quiet
        OBVIOUS
      <4>1. \A by : by = <<"trace", pass'.todo[k].subject>> =>
              /\ k + 1 \in 1..Len(pass.todo) /\ by = <<"trace", pass.todo[k + 1].subject>>
              /\ Send!Rows(by)' = Send!Rows(by) /\ Send!Rows(by) \subseteq 1..n
        BY <3>3
      <4>2. \A by : by = <<"trace", pass'.todo[k].subject>> => x \in Send!Rows(by)'
        BY DEF Send!Rows
      <4>3. /\ k + 1 \in 1..Len(pass.todo) /\ x \in 1..n
            /\ x \in Send!Rows(<<"trace", pass.todo[k + 1].subject>>)
        BY <4>1, <4>2
      <4>4. now - outbox[x].t >= Quiet
        BY <1>1, <4>3, <1>t DEF Due
      <4> QED
        BY <1>1, <1>3, <4>3, <4>4
    <3>6. Due'
      BY <1>1, <2>1, <2>3, <3>2, <3>4, <3>5 DEF Due
    <3>7. Bounded'
      <4>1. CASE Send!Duty = "welcome"
        <5>1. Coming = Len(pass.todo) /\ Coming' = Len(pass.todo) - 1
          BY <1>1, <2>1, <3>1, <3>2, <4>1 DEF Coming
        <5> QED
          BY <1>6, <3>2, <5>1, <1>t DEF Bounded, Senders
      <4>2. CASE Send!Duty = "trace"
        <5>1. Coming' = 0 /\ Waiting' = Waiting
          BY <1>6, <2>1, <3>1, <4>2 DEF Coming
        <5> QED
          BY <1>6, <5>1, <1>t, ComingNat DEF Bounded, Senders
      <4> QED
        BY <2>3, <4>1, <4>2
    <3> QED
      BY <1>3, <1>5, <2>2, <3>6, <3>7 DEF SendInv
  <2>4. CASE Send!Duty \notin {"welcome", "trace"}
    <3>1. Due' /\ Coming' = 0 /\ Waiting' = Waiting
      BY <1>6, <1>9, <2>1, <2>4 DEF Due, Coming
    <3>2. Bounded'
      BY <1>6, <3>1, <1>t, ComingNat DEF Bounded, Senders
    <3> QED
      BY <1>3, <1>5, <2>2, <3>1, <3>2 DEF SendInv
  <2> QED
    BY <2>3, <2>4
<1>10. Send!Many \in Nat /\ (Send!Many > 1 => Send!Duty \in {"reply", "automation"})
  BY DEF Send!Many, Senders
<1>11. pass' = CASE pass.left = 0 /\ Send!Many > 1 -> [pass EXCEPT !.left = Send!Many - 1]
                 [] pass.left > 1             -> [pass EXCEPT !.left = @ - 1]
                 [] Send!Duty \in {"probe", "alert"} -> [pass EXCEPT !.at = "mark"]
                 [] OTHER                     -> Send!Following
  BY DEF Send!enqueueTx
<1>12. CASE pass.left = 0 /\ Send!Many > 1
  <2>1. pass' = [duty |-> pass.duty, todo |-> pass.todo, at |-> "queue",
                 left |-> Send!Many - 1]
    <3>1. pass' = [pass EXCEPT !.left = Send!Many - 1]
      BY <1>10, <1>11, <1>12
    <3> QED
      BY <1>1, <3>1, <1>t DEF PassShaped
  <2> QED
    BY <1>7, <1>10, <1>12, <2>1
<1>13. CASE pass.left > 1
  <2>1. /\ pass' = [duty |-> pass.duty, todo |-> pass.todo, at |-> "queue",
                    left |-> pass.left - 1]
        /\ pass.left - 1 \in Nat \ {0} /\ Send!Duty \in {"reply", "automation"}
    BY <1>1, <1>11, <1>13, <1>t DEF PassShaped
  <2> QED
    BY <1>7, <2>1
<1>14. CASE /\ ~(pass.left = 0 /\ Send!Many > 1) /\ ~(pass.left > 1)
            /\ Send!Duty \in {"probe", "alert"}
  <2>1. /\ pass' = [duty |-> pass.duty, todo |-> pass.todo, at |-> "mark", left |-> 0]
    BY <1>1, <1>11, <1>14, <1>t DEF PassShaped
  <2> QED
    BY <1>7, <1>14, <2>1
<1>15. CASE /\ ~(pass.left = 0 /\ Send!Many > 1) /\ ~(pass.left > 1)
            /\ Send!Duty \notin {"probe", "alert"}
  <2>1. pass' = Send!Following
    BY <1>11, <1>15
  <2>2. CASE Send!Duty = "trace" /\ Len(pass.todo) > 1
    <3>1. pass' = [duty |-> pass.duty, todo |-> Tail(pass.todo), at |-> "queue", left |-> 0]
      <4>1. pass' = [pass EXCEPT !.todo = Tail(@)]
        BY <2>1, <2>2 DEF Send!Following
      <4>2. pass.left = 0
        BY <1>t, <2>2 DEF PassShaped
      <4> QED
        BY <1>1, <4>1, <4>2, <1>t DEF PassShaped
    <3>2. Batched(pass.todo)
      BY <1>1, <2>2, <1>t DEF Due
    <3>3. Len(pass.todo) # 1
      <4>1. Len(pass.todo) \in Nat
        BY <3>2, RestOf
      <4>2. \A m \in Nat : m > 1 => m # 1
        OBVIOUS
      <4> QED
        BY <2>2, <4>1, <4>2, Zenon
    <3> QED
      BY <1>9, <2>2, <3>1, <3>3
  <2>3. CASE ~(Send!Duty = "trace" /\ Len(pass.todo) > 1)
    <3>1. pass' = Send!Onward
      BY <2>1, <2>3 DEF Send!Following
    <3>2. ~(Send!Duty = "trace" /\ Len(pass.todo) # 1)
      <4> SUFFICES ASSUME Send!Duty = "trace", Len(pass.todo) # 1 PROVE FALSE
        OBVIOUS
      <4>1. Batched(pass.todo)
        BY <1>1, <1>t DEF Due
      <4>2. Len(pass.todo) \in Nat \ {0}
        BY <4>1, RestOf
      <4>3. \A m \in Nat \ {0} : m # 1 => m > 1
        OBVIOUS
      <4> QED
        BY <2>3, <4>2, <4>3, Zenon
    <3>3. Send!Duty \notin {"trace", "probe", "alert"} =>
            Send!Entry(Send!Duty) = IF Send!Duty \in {"welcome", "trace"} THEN "queue" ELSE "check"
      BY DEF Send!Entry
    <3> QED
      BY <1>8, <1>9, <1>15, <3>1, <3>2, <3>3, <1>t, OnwardIs
  <2> QED
    BY <2>2, <2>3
<1> QED
  BY <1>12, <1>13, <1>14, <1>15

LEMMA SendKept == ASSUME Senders, SendInv, [Send!Next]_Send!vars PROVE SendInv'
<1>1. CASE UNCHANGED Send!vars
  <2>1. UNCHANGED <<now, outbox, pass>>
    BY <1>1 DEF Send!vars
  <2> QED
    BY <2>1, Elsewhere
<1>2. ASSUME UNCHANGED <<now, outbox>>, NEW d, pass' = Send!NextDuty(d) PROVE SendInv'
  <2>1. Turns
    BY <1>2, NextIsList DEF Turns
  <2> QED
    BY <2>1, TurnKeeps
<1>3. CASE Send!TickStarts
  BY <1>2, <1>3 DEF Send!TickStarts
<1>4. CASE Send!StatementFails
  BY <1>2, <1>4 DEF Send!StatementFails
<1>5. CASE Send!Restart
  <2>1. Turns
    BY <1>5 DEF Send!Restart, Send!Idle, Turns
  <2> QED
    BY <2>1, TurnKeeps
<1>6. ASSUME NEW n, Send!Appear(n) \/ Send!Say(n) \/ Send!recordAdminOk(n) PROVE SendInv'
  <2>1. UNCHANGED <<now, outbox, pass>>
    BY <1>6 DEF Send!Appear, Send!Say, Send!recordAdminOk
  <2> QED
    BY <2>1, Elsewhere
<1> QED
  BY <1>1, <1>3, <1>4, <1>5, <1>6, ListKeeps, CheckKeeps, ClaimKeeps, EnqueueKeeps,
     MarkKeeps, TimeKeeps, DrainKeeps DEF Send!Next, Send!Tick, Send!Mesh

\* Welcomes and probes that wait are as many as the backlog allowed, and a run.
LEMMA BacklogStays == ASSUME Senders, SendInv PROVE Send!BacklogBounded
<1>1. /\ DOMAIN outbox = 1..Len(outbox)
      /\ Cardinality(Waiting) \in Nat /\ Coming \in Nat
  BY ComingNat, WaitingFinite DEF SendInv
<1>2. Cardinality(Waiting) <= BACKLOG_MAX + PerRun
  BY <1>1 DEF SendInv, Bounded, Senders
<1>3. Waiting = {i \in DOMAIN outbox : /\ outbox[i].by[1] \in {"welcome", "probe"}
                                       /\ outbox[i].state \in {"queued", "held"}}
  BY <1>1 DEF Waiting, Waits
<1> QED
  BY <1>2, <1>3, SendSizes DEF Send!BacklogBounded

-----------------------------------------------------------------------------
(* The automatic senders: types, and what a batch holds.                     *)

\* What TypeOK asks of the constants.
Kinds ==
    /\ Senders /\ MaxFaults \in Nat /\ Horizon \in Nat /\ Ahead \in Nat /\ Lookback \in Int

Items == [subject : Send!Subject, src : Nat]

\* The candidates of the pass, as its duty has listed them.
Listing(d, todo) ==
    /\ todo \in Seq(Items) /\ todo # <<>>
    /\ \A k \in 1..Len(todo) :
         /\ todo[k].src \in 0..Len(text)
         /\ d = "probe" => todo[k].subject \in Node
         /\ d = "alert" => todo[k].subject \in Send!Alert
         /\ d = "reply" => todo[k].src \in 1..Len(text) /\ text[todo[k].src].t >= now - Lookback

Typed ==
    /\ Send!TypeOK
    /\ pass.at # "list" => pass.duty \in 1..7 /\ Listing(Send!Duty, pass.todo)

LEMMA OrderIs ==
    /\ Len(Send!Order) = 7 /\ DOMAIN Send!Order = 1..7
    /\ Send!Range(Send!Order) =
         {"reply", "nudge", "welcome", "trace", "probe", "alert", "automation"}
    /\ \A d \in 1..7 : Send!Order[d] \in Send!Range(Send!Order)
<1>1. Len(Send!Order) = 7 /\ DOMAIN Send!Order = 1..7
  BY DEF Send!Order
<1>2. /\ Send!Order[1] = "reply" /\ Send!Order[2] = "nudge" /\ Send!Order[3] = "welcome"
      /\ Send!Order[4] = "trace" /\ Send!Order[5] = "probe" /\ Send!Order[6] = "alert"
      /\ Send!Order[7] = "automation"
  BY DEF Send!Order
<1>3. \A d \in 1..7 : d = 1 \/ d = 2 \/ d = 3 \/ d = 4 \/ d = 5 \/ d = 6 \/ d = 7
  OBVIOUS
<1> QED
  BY <1>1, <1>2, <1>3 DEF Send!Range

\* The next duty is one of the seven, or the tick is over.
LEMMA NextDutyIs ==
    ASSUME NEW d \in 0..7
    PROVE  /\ Send!NextDuty(d).duty \in 0..7 /\ Send!NextDuty(d).at = "list"
           /\ Send!NextDuty(d).left = 0
<1> DEFINE later == {e \in d+1..Len(Send!Order) : Send!Order[e] \in on}
<1>1. later \in SUBSET Nat /\ \A e \in later : e \in 0..7
  BY OrderIs
<1>2. CASE later = {}
  BY <1>2 DEF Send!NextDuty, Send!Idle
<1>3. CASE later # {}
  <2> HIDE DEF later
  <2>1. \E x \in later : \A y \in later : x <= y
    BY <1>1, <1>3, LeastNat
  <2>2. Send!Min(later) \in later
    BY <2>1 DEF Send!Min
  <2>3. Send!NextDuty(d) = [Send!Idle EXCEPT !.duty = Send!Min(later)]
    BY <1>3 DEF Send!NextDuty, later
  <2> QED
    BY <1>1, <2>2, <2>3 DEF Send!Idle
<1> QED
  BY <1>2, <1>3

\* All the elements of a finite set, in some order, are a sequence of them.
LEMMA InSomeOrder ==
    ASSUME NEW T, IsFiniteSet(T), NEW s \in Send!SetToSeqs(T)
    PROVE  s \in Seq(T) /\ DOMAIN s = 1..Len(s) /\ Len(s) \in Nat
<1>1. Cardinality(T) \in Nat
  BY FS_CardinalityType
<1>2. s \in [1..Cardinality(T) -> T]
  BY SendSizes DEF Send!SetToSeqs
<1> QED
  BY <1>1, <1>2

\* What a duty may list.
LEMMA CandidatesAre ==
    ASSUME Kinds, Send!TypeOK, pass.duty \in 1..7, NEW todo \in Send!Candidates, todo # <<>>
    PROVE  Listing(Send!Duty, todo)
<1>1. Send!Duty \in Send!Range(Send!Order)
  BY OrderIs DEF Send!Duty
<1>2. /\ text \in Seq([from : Node, t : Nat]) /\ Len(text) \in Nat /\ DOMAIN text = 1..Len(text)
      /\ now \in Nat
  BY DEF Send!TypeOK, Kinds
<1>3. ASSUME NEW S \in SUBSET Node, todo \in Send!Some(S), Send!Duty \notin {"alert", "reply"}
      PROVE  Listing(Send!Duty, todo)
  <2> DEFINE T == {Send!Item(n, 0) : n \in S}
  <2>1. todo \in Seq(T)
    BY <1>3, SomeOf DEF Kinds
  <2>2. \A x \in T : x \in Items /\ x.src = 0 /\ x.subject \in Node
    BY DEF Send!Item, Items, Send!Subject
  <2> HIDE DEF T
  <2>3. todo \in Seq(Items) /\ \A k \in 1..Len(todo) : todo[k] \in T
    BY <2>1, <2>2
  <2> QED
    BY <1>2, <1>3, <2>2, <2>3 DEF Listing
<1>4. CASE Send!Duty = "reply"
  <2>1. PICK s \in Send!Texts : todo = [k \in DOMAIN s |-> Send!Item(text[s[k]].from, s[k])]
    BY <1>4 DEF Send!Candidates
  <2>2. Send!InWindow \subseteq 1..Len(text) /\ IsFiniteSet(Send!InWindow)
    BY <1>2, FiniteIds DEF Send!InWindow
  <2>3. s \in Seq(Send!InWindow) /\ DOMAIN s = 1..Len(s) /\ Len(s) \in Nat
    BY <2>2, InSomeOrder DEF Send!Texts
  <2>4. \A k \in 1..Len(s) : s[k] \in 1..Len(text) /\ text[s[k]].t >= now - Lookback
    BY <2>3 DEF Send!InWindow, Send!Texts
  <2>5. /\ todo = [k \in 1..Len(s) |-> Send!Item(text[s[k]].from, s[k])]
        /\ \A k \in 1..Len(s) : todo[k] \in Items /\ todo[k].src = s[k]
    <3>0. \A i \in 1..Len(text) : text[i] \in [from : Node, t : Nat] /\ i \in Nat
      <4> DEFINE L == [from : Node, t : Nat]
      <4>1. text \in Seq(L)
        BY <1>2
      <4> HIDE DEF L
      <4>2. \A i \in 1..Len(text) : text[i] \in L /\ i \in Nat
        BY <1>2, <4>1, ElementOfSeq
      <4> QED
        BY <4>2 DEF L
    <3>1. \A k \in 1..Len(s) : text[s[k]].from \in Node /\ s[k] \in Nat
      <4> TAKE k \in 1..Len(s)
      <4>1. s[k] \in 1..Len(text)
        BY <2>4
      <4> QED
        BY <3>0, <4>1
    <3>2. \A k \in 1..Len(s) : Send!Item(text[s[k]].from, s[k]) \in Items
      BY <3>1 DEF Send!Item, Items, Send!Subject
    <3> QED
      BY <2>1, <2>3, <3>2 DEF Send!Item
  <2>6. todo \in Seq(Items) /\ Len(todo) = Len(s)
    BY <2>3, <2>5
  <2>7. \A k \in 1..Len(todo) : /\ todo[k].src \in 0..Len(text) /\ todo[k].src \in 1..Len(text)
                                /\ text[todo[k].src].t >= now - Lookback
    BY <1>2, <2>4, <2>5, <2>6
  <2> QED
    BY <1>4, <2>6, <2>7 DEF Listing
<1>5. CASE Send!Duty = "nudge"
  BY <1>3, <1>5 DEF Send!Candidates, Send!Offenders
<1>6. CASE Send!Duty = "welcome"
  BY <1>3, <1>6 DEF Send!Candidates, Send!Newcomers
<1>7. CASE Send!Duty = "trace"
  BY <1>3, <1>7 DEF Send!Candidates, Send!Untraced
<1>8. CASE Send!Duty = "probe"
  BY <1>3, <1>8 DEF Send!Candidates, Send!scanCandidates
<1>9. CASE Send!Duty = "alert"
  <2> DEFINE T == {Send!Item(a, 0) : a \in Send!Alert}
  <2>1. todo \in Send!SetToSeqs(T)
    BY <1>9 DEF Send!Candidates
  <2>2. T = {Send!Item("storm", 0)}
    BY DEF Send!Alert
  <2>3. IsFiniteSet(T)
    BY <2>2, FS_Singleton
  <2>4. \A x \in T : x \in Items /\ x.src = 0 /\ x.subject \in Send!Alert
    BY DEF Send!Item, Items, Send!Subject
  <2> HIDE DEF T
  <2>5. todo \in Seq(T)
    BY <2>1, <2>3, InSomeOrder
  <2>6. todo \in Seq(Items) /\ \A k \in 1..Len(todo) : todo[k] \in T
    BY <2>4, <2>5
  <2> QED
    BY <1>2, <1>9, <2>4, <2>6 DEF Listing
<1>10. CASE Send!Duty = "automation"
  <2>1. todo = <<Send!Item("daily", 0)>>
    BY <1>10 DEF Send!Candidates
  <2>2. Send!Item("daily", 0) \in Items
    BY DEF Send!Item, Items, Send!Subject
  <2>3. todo \in Seq(Items) /\ Len(todo) = 1 /\ todo[1].src = 0
    BY <2>1, <2>2 DEF Send!Item
  <2> QED
    BY <1>2, <1>10, <2>3 DEF Listing
<1> QED
  BY <1>1, <1>4, <1>5, <1>6, <1>7, <1>8, <1>9, <1>10, OrderIs

\* What is left of a listing is a listing.
LEMMA RestListed ==
    ASSUME NEW d, NEW todo, Listing(d, todo), text \in Seq([from : Node, t : Nat])
    PROVE  /\ Head(todo) = todo[1] /\ 1 \in 1..Len(todo) /\ todo[1] \in Items
           /\ Len(todo) \in Nat
           /\ Len(todo) # 1 => Listing(d, Tail(todo))
<1>1. /\ todo \in Seq(Items) /\ Len(todo) \in Nat \ {0} /\ Head(todo) = todo[1]
      /\ todo[1] \in Items
      /\ Tail(todo) \in Seq(Items) /\ Len(Tail(todo)) = Len(todo) - 1
      /\ \A k \in 1..Len(Tail(todo)) : Tail(todo)[k] = todo[k + 1]
  BY EmptySeq, HeadTailProperties DEF Listing
<1>2. ASSUME Len(todo) # 1 PROVE Listing(d, Tail(todo))
  <2>1. Tail(todo) # <<>>
    <3>1. Len(Tail(todo)) # 0 /\ Len(<<>>) = 0
      BY <1>1, <1>2
    <3> QED
      BY <3>1
  <2>2. \A k \in 1..Len(Tail(todo)) : k + 1 \in 1..Len(todo)
    BY <1>1
  <2> QED
    BY <1>1, <2>1, <2>2 DEF Listing
<1> QED
  BY <1>1, <1>2

\* A listing stands as long as no time goes by, while messages come in.
LEMMA ListingStands ==
    ASSUME NEW d, NEW todo, Listing(d, todo), now' = now,
           text \in Seq([from : Node, t : Nat]),
           \/ text' = text
           \/ \E x : text' = Append(text, x)
    PROVE  Listing(d, todo)'
<1>1. CASE text' = text
  BY <1>1 DEF Listing
<1>2. ASSUME NEW x, text' = Append(text, x) PROVE Listing(d, todo)'
  <2>1. Len(text) \in Nat /\ Len(text') = Len(text) + 1
        /\ \A i \in 1..Len(text) : text'[i] = text[i]
    BY <1>2
  <2>2. \A i \in 0..Len(text) : i \in 0..Len(text') /\ (i # 0 => i \in 1..Len(text'))
    BY <2>1
  <2> QED
    BY <2>1, <2>2 DEF Listing
<1> QED
  BY <1>1, <1>2

\* How a pass that goes on to its next candidate, or to its next duty, is typed.
PassTyped ==
    /\ pass.duty \in 0..7 /\ pass.at \in {"list", "claim", "check", "queue", "mark"}
    /\ pass.left \in 0..Transports
    /\ pass.at # "list" => pass.duty \in 1..7 /\ Listing(Send!Duty, pass.todo)

LEMMA OnwardTyped ==
    ASSUME Kinds, PassShaped, Typed, pass.at # "list", pass' = Send!Onward,
           UNCHANGED <<now, text>>
    PROVE  PassTyped'
<1>1. CASE Len(pass.todo) = 1
  <2>1. pass' = Send!NextDuty(pass.duty) /\ pass.duty \in 0..7
    BY <1>1 DEF Send!Onward, Typed
  <2> QED
    BY <2>1, NextDutyIs DEF PassTyped, Kinds, Senders
<1>2. CASE Len(pass.todo) # 1
  <2>1. pass' = [duty |-> pass.duty, todo |-> Tail(pass.todo), at |-> Send!Entry(Send!Duty),
                 left |-> 0]
    BY <1>2 DEF Send!Onward, PassShaped
  <2>2. /\ Send!Duty' = Send!Duty /\ pass'.at \in {"claim", "check", "queue"}
        /\ pass'.todo = Tail(pass.todo)
    BY <2>1 DEF Send!Duty, Send!Entry
  <2>3. Listing(Send!Duty, Tail(pass.todo))
    BY <1>2, RestListed DEF Typed, Send!TypeOK
  <2>4. Listing(Send!Duty, pass.todo)'
    <3> DEFINE rest == Tail(pass.todo)
    <3>1. Listing(Send!Duty, rest) /\ pass'.todo = rest
      BY <2>2, <2>3
    <3> HIDE DEF rest
    <3> QED
      BY <2>2, <3>1 DEF Listing
  <2> QED
    BY <2>1, <2>2, <2>4 DEF PassTyped, Typed, Kinds, Senders
<1> QED
  BY <1>1, <1>2

\* The pass and the store are all that TypeOK says more than that.
LEMMA TypedAgain ==
    ASSUME Typed, PassTyped', UNCHANGED <<now, on, text, outbox, born>>,
           scanned' \in [Node -> {Send!Never} \union (0..now)], okAt' = okAt,
           asked' \in [Node -> {Send!Never} \union (0..now)],
           alerted' \subseteq Send!Alert, faults' \in 0..MaxFaults
    PROVE  Typed'
  BY OrderIs DEF Typed, PassTyped, Send!TypeOK, Send!Duty

LEMMA TypedStart == ASSUME Kinds, Send!Init PROVE Typed
<1>1. /\ outbox = <<>> /\ text = <<>> /\ now = 0 /\ DOMAIN outbox = {}
      /\ pass = [duty |-> 0, todo |-> <<>>, at |-> "list", left |-> 0]
      /\ on \in Duties /\ alerted = {} /\ faults = 0
  BY EmptySeq DEF Send!Init, Send!Idle
<1>2. text \in Seq([from : Node, t : Nat])
  BY <1>1
<1>3. /\ scanned \in [Node -> {Send!Never} \union (0..now)]
      /\ okAt \in [Node -> {Send!Never} \union (0..now)]
      /\ asked \in [Node -> {Send!Never} \union (0..now)]
      /\ born \in [Node -> {Send!Never} \union (0..now)]
  BY <1>1 DEF Send!Init, Send!Never
<1> QED
  BY <1>1, <1>2, <1>3, OrderIs DEF Typed, Send!TypeOK, Kinds, Senders

\* Nothing but the mesh moves.
LEMMA TypedMesh ==
    ASSUME Kinds, Typed, Send!Mesh PROVE Typed'
<1>0. now \in 0..Horizon /\ now \in Nat /\ Horizon \in Nat /\ Ahead \in Nat
  BY DEF Typed, Send!TypeOK, Kinds
<1>1. CASE Send!TimePasses
  <2>1. now' = now + 1 /\ now < Horizon /\ pass.at = "list"
        /\ UNCHANGED <<on, text, outbox, scanned, okAt, asked, alerted, born, pass, faults>>
    BY <1>1 DEF Send!TimePasses, Send!store
  <2>2. now' \in 0..Horizon /\ \A x \in 0..now : x \in 0..now'
    BY <1>0, <2>1
  <2>3. /\ {Send!Never} \union (0..now) \subseteq {Send!Never} \union (0..now')
    BY <2>2
  <2> QED
    BY <2>1, <2>2, <2>3 DEF Typed, Send!TypeOK
<1>2. ASSUME NEW n \in Node, Send!Appear(n) PROVE Typed'
  <2>1. born' \in [Node -> {Send!Never} \union (0..now)] /\ now' = now
        /\ UNCHANGED <<on, text, outbox, scanned, okAt, asked, alerted, pass, faults>>
    BY <1>0, <1>2 DEF Send!Appear, Send!store, Typed, Send!TypeOK
  <2>2. (\A d, todo : Listing(d, todo)' <=> Listing(d, todo)) /\ Send!Duty' = Send!Duty
    BY <2>1 DEF Listing, Send!Duty
  <2> QED
    BY <2>1, <2>2 DEF Typed, Send!TypeOK
<1>3. ASSUME NEW n \in Node, Send!recordAdminOk(n) PROVE Typed'
  <2>1. /\ okAt' \in [Node -> {Send!Never} \union (0..now)] /\ now' = now
        /\ scanned' \in [Node -> {Send!Never} \union (0..now)]
        /\ UNCHANGED <<on, text, outbox, asked, alerted, born, pass, faults>>
    BY <1>0, <1>3 DEF Send!recordAdminOk, Typed, Send!TypeOK
  <2>2. (\A d, todo : Listing(d, todo)' <=> Listing(d, todo)) /\ Send!Duty' = Send!Duty
    BY <2>1 DEF Listing, Send!Duty
  <2> QED
    BY <2>1, <2>2 DEF Typed, Send!TypeOK
<1>4. ASSUME NEW n \in Node, Send!Say(n) PROVE Typed'
  <2>1. PICK t \in now..(now + Ahead) : text' = Append(text, [from |-> n, t |-> t])
    BY <1>4 DEF Send!Say
  <2>2. /\ UNCHANGED <<now, on, outbox, scanned, okAt, asked, alerted, born, pass, faults>>
        /\ text \in Seq([from : Node, t : Nat])
    BY <1>4 DEF Send!Say, Send!store, Typed, Send!TypeOK
  <2>3. [from |-> n, t |-> t] \in [from : Node, t : Nat]
    BY <1>0
  <2>4. text' \in Seq([from : Node, t : Nat]) /\ Len(text') = Len(text) + 1 /\ Len(text) \in Nat
    BY <2>1, <2>2, <2>3
  <2>5. \A x \in 0..Len(text) : x \in 0..Len(text')
    BY <2>4
  <2>6. pass.at # "list" => Listing(Send!Duty, pass.todo)' /\ pass'.duty \in 1..7
    <3> SUFFICES ASSUME pass.at # "list"
                 PROVE  Listing(Send!Duty, pass.todo)' /\ pass'.duty \in 1..7
      OBVIOUS
    <3>1. Listing(Send!Duty, pass.todo) /\ pass.duty \in 1..7
      BY DEF Typed
    <3>2. \A d, todo : Listing(d, todo) => Listing(d, todo)'
      BY <2>1, <2>2, ListingStands
    <3>3. Send!Duty' = Send!Duty /\ pass' = pass
      BY <2>2 DEF Send!Duty
    <3> QED
      BY <3>1, <3>2, <3>3
  <2>7. Send!TypeOK'
    BY <2>2, <2>4, <2>5 DEF Typed, Send!TypeOK
  <2> QED
    BY <2>2, <2>6, <2>7 DEF Typed
<1> QED
  BY <1>1, <1>2, <1>3, <1>4 DEF Send!Mesh

\* A row is queued for the first candidate of the pass.
LEMMA TypedQueue ==
    ASSUME Kinds, SendInv, Typed, Send!enqueueTx PROVE Typed'
<1>1. /\ pass.at = "queue" /\ UNCHANGED <<now, on, text, scanned, okAt, asked, alerted, born, faults>>
      /\ outbox' = Append(outbox, [by |-> Send!By, src |-> Send!This.src, t |-> now,
                                   state |-> "queued", first |-> pass.left = 0])
  BY DEF Send!enqueueTx, Send!store
<1>2. /\ Listing(Send!Duty, pass.todo) /\ pass.duty \in 1..7 /\ PassShaped
      /\ text \in Seq([from : Node, t : Nat]) /\ now \in Nat
  BY <1>1 DEF Typed, Send!TypeOK, SendInv, Queued
<1>3. /\ Head(pass.todo) \in Items /\ Head(pass.todo).src \in 0..Len(text)
  BY <1>2, RestListed DEF Listing
<1>4. PassTyped'
  <2>1. CASE pass' = [pass EXCEPT !.left = Send!Many - 1] /\ Send!Many > 1
    <3>1. Send!Many = Transports /\ Send!Many - 1 \in 0..Transports
      <4>1. Send!Many \in {1, Transports} /\ Transports \in Nat
        BY DEF Send!Many, Kinds, Senders
      <4> QED
        BY <2>1, <4>1
    <3>2. /\ pass' = [duty |-> pass.duty, todo |-> pass.todo, at |-> "queue",
                      left |-> Send!Many - 1]
      BY <1>1, <1>2, <2>1 DEF PassShaped
    <3>3. pass'.duty = pass.duty /\ pass'.todo = pass.todo /\ pass'.at = "queue"
          /\ pass'.left = Send!Many - 1 /\ Send!Duty' = Send!Duty
      BY <3>2 DEF Send!Duty
    <3>4. Listing(Send!Duty, pass.todo)'
      BY <1>1, <1>2, <3>3 DEF Listing
    <3> QED
      BY <1>2, <3>1, <3>3, <3>4 DEF PassTyped
  <2>2. CASE pass' = [pass EXCEPT !.left = @ - 1] /\ pass.left > 1
    <3>2. /\ pass' = [duty |-> pass.duty, todo |-> pass.todo, at |-> "queue",
                      left |-> pass.left - 1]
      BY <1>1, <1>2, <2>2 DEF PassShaped
    <3>1. pass.left - 1 \in 0..Transports
      <4>1. pass.left \in 0..Transports /\ Transports \in Nat
        BY DEF Typed, Send!TypeOK, Kinds, Senders
      <4> QED
        BY <2>2, <4>1
    <3>3. pass'.duty = pass.duty /\ pass'.todo = pass.todo /\ pass'.at = "queue"
          /\ pass'.left = pass.left - 1 /\ Send!Duty' = Send!Duty
      BY <3>2 DEF Send!Duty
    <3>4. Listing(Send!Duty, pass.todo)'
      BY <1>1, <1>2, <3>3 DEF Listing
    <3> QED
      BY <1>2, <3>1, <3>3, <3>4 DEF PassTyped
  <2>3. CASE pass' = [pass EXCEPT !.at = "mark"]
    <3>2. /\ pass' = [duty |-> pass.duty, todo |-> pass.todo, at |-> "mark",
                      left |-> pass.left]
      BY <1>2, <2>3 DEF PassShaped
    <3>3. pass'.duty = pass.duty /\ pass'.todo = pass.todo /\ pass'.at = "mark"
          /\ pass'.left = pass.left /\ Send!Duty' = Send!Duty
      BY <3>2 DEF Send!Duty
    <3>4. Listing(Send!Duty, pass.todo)'
      BY <1>1, <1>2, <3>3 DEF Listing
    <3> QED
      BY <1>2, <3>3, <3>4 DEF PassTyped, Typed, Send!TypeOK
  <2>4. CASE Send!Duty = "trace" /\ Len(pass.todo) > 1 /\ pass' = [pass EXCEPT !.todo = Tail(@)]
    <3>2. /\ pass' = [duty |-> pass.duty, todo |-> Tail(pass.todo), at |-> "queue",
                      left |-> pass.left]
      BY <1>1, <1>2, <2>4 DEF PassShaped
    <3> DEFINE rest == Tail(pass.todo)
    <3>3. pass'.duty = pass.duty /\ pass'.todo = rest /\ pass'.at = "queue"
          /\ pass'.left = pass.left /\ Send!Duty' = Send!Duty
      BY <3>2 DEF Send!Duty
    <3>5. Listing(Send!Duty, rest)
      <4>1. Len(pass.todo) # 1
        <5>1. Len(pass.todo) \in Nat
          BY <1>2, RestListed
        <5>2. \A m \in Nat : m > 1 => m # 1
          OBVIOUS
        <5> QED
          BY <2>4, <5>1, <5>2, Zenon
      <4> QED
        BY <1>2, <4>1, RestListed
    <3> HIDE DEF rest
    <3>4. Listing(Send!Duty, pass.todo)'
      BY <1>1, <3>3, <3>5 DEF Listing
    <3> QED
      BY <1>2, <3>3, <3>4 DEF PassTyped, Typed, Send!TypeOK
  <2>5. CASE pass' = Send!Onward
    BY <1>1, <1>2, <2>5, OnwardTyped
  <2> QED
    BY <2>1, <2>2, <2>3, <2>4, <2>5 DEF Send!enqueueTx, Send!Following
<1> DEFINE r == [by |-> Send!By, src |-> Send!This.src, t |-> now, state |-> "queued",
                 first |-> pass.left = 0]
<1>6. /\ r.by \in Send!Range(Send!Order) \X Send!Subject /\ r.src \in 0..Len(text)
      /\ r.t \in 0..now /\ r.state = "queued" /\ r.first \in BOOLEAN
  <2>1. Send!By = <<Send!Order[pass.duty], Head(pass.todo).subject>>
    BY DEF Send!By, Send!This, Send!Duty
  <2>2. Send!Order[pass.duty] \in Send!Range(Send!Order)
    BY <1>2, OrderIs
  <2>3. Head(pass.todo).subject \in Send!Subject
    BY <1>3 DEF Items
  <2> QED
    BY <1>2, <1>3, <2>1, <2>2, <2>3 DEF Send!This
<1>7. \E S : outbox \in Seq(S)
  BY DEF SendInv, Queued
<1> HIDE DEF r
<1>8. /\ Len(outbox) \in Nat /\ DOMAIN outbox' = 1..(Len(outbox) + 1)
      /\ DOMAIN outbox = 1..Len(outbox) /\ outbox'[Len(outbox) + 1] = r
      /\ \A i \in 1..Len(outbox) : outbox'[i] = outbox[i]
  <2>1. PICK S : outbox \in Seq(S)
    BY <1>7
  <2>2. outbox \in Seq(S \union {r}) /\ r \in S \union {r} /\ Len(outbox) \in Nat
    BY <2>1
  <2>3. outbox' = Append(outbox, r)
    BY <1>1 DEF r
  <2> QED
    BY <2>2, <2>3, AppendProperties
<1>9. \A i \in DOMAIN outbox' :
         /\ outbox'[i].by \in Send!Range(Send!Order) \X Send!Subject
         /\ outbox'[i].src \in 0..Len(text)
         /\ outbox'[i].t \in 0..now /\ outbox'[i].state \in {"queued", "held", "done"}
         /\ outbox'[i].first \in BOOLEAN
  <2> TAKE i \in DOMAIN outbox'
  <2>1. CASE i = Len(outbox) + 1
    BY <1>6, <1>8, <2>1
  <2>2. CASE i \in 1..Len(outbox)
    BY <1>8, <2>2 DEF Typed, Send!TypeOK
  <2> QED
    BY <1>8, <2>1, <2>2
<1>10. Send!TypeOK'
  <2>1. /\ pass'.duty \in 0..Len(Send!Order) /\ pass'.left \in 0..Transports
        /\ pass'.at \in {"list", "claim", "check", "queue", "mark"}
    BY <1>4, OrderIs DEF PassTyped
  <2>2. UNCHANGED <<now, on, text, scanned, okAt, asked, alerted, born, faults>>
    BY <1>1
  <2>3. Send!TypeOK
    BY DEF Typed
  <2> QED
    BY <1>9, <2>1, <2>2, <2>3 DEF Send!TypeOK
<1> QED
  BY <1>4, <1>10 DEF Typed, PassTyped

LEMMA TypedStep ==
    ASSUME Kinds, SendInv, Typed, [Send!Next]_Send!vars PROVE Typed'
<1>0. /\ Send!TypeOK /\ PassShaped /\ pass.duty \in 0..7 /\ pass.left \in 0..Transports
      /\ now \in Nat
  BY OrderIs DEF Typed, Send!TypeOK, SendInv, Queued
<1>1. ASSUME UNCHANGED <<now, on, text, outbox, scanned, okAt, asked, alerted, born>>,
             faults' \in 0..MaxFaults, NEW d \in 0..7, pass' = Send!NextDuty(d)
      PROVE  Typed'
  <2>1. PassTyped'
    BY <1>0, <1>1, NextDutyIs DEF PassTyped, Kinds, Senders
  <2> QED
    BY <1>1, <2>1, TypedAgain DEF Typed, Send!TypeOK
<1>f. ASSUME faults < MaxFaults, faults' = faults + 1 PROVE faults' \in 0..MaxFaults
  BY <1>0, <1>f DEF Send!TypeOK, Kinds
<1>2. CASE UNCHANGED Send!vars
  <2>1. UNCHANGED <<now, on, text, outbox, scanned, okAt, asked, alerted, born, pass, faults>>
    BY <1>2 DEF Send!vars, Send!store
  <2>2. (\A d, todo : Listing(d, todo)' <=> Listing(d, todo)) /\ Send!Duty' = Send!Duty
    BY <2>1 DEF Listing, Send!Duty
  <2> QED
    BY <2>1, <2>2 DEF Typed, Send!TypeOK
<1>3. CASE Send!TickStarts
  BY <1>0, <1>1, <1>3 DEF Send!TickStarts, Send!store, Send!TypeOK
<1>4. CASE Send!List
  <2>1. PICK todo \in Send!Candidates :
           pass' = IF todo = <<>> THEN Send!NextDuty(pass.duty)
                   ELSE [pass EXCEPT !.todo = todo, !.at = Send!Entry(Send!Duty)]
    BY <1>4 DEF Send!List
  <2>2. /\ pass.duty \in 1..7 /\ UNCHANGED <<now, on, text, outbox, scanned, okAt, asked, alerted, born, faults>>
    BY <1>0, <1>4 DEF Send!List, Send!store
  <2>3. CASE todo = <<>>
    BY <1>0, <1>1, <2>1, <2>2, <2>3 DEF Send!TypeOK
  <2>4. CASE todo # <<>>
    <3>1. pass' = [duty |-> pass.duty, todo |-> todo, at |-> Send!Entry(Send!Duty),
                   left |-> pass.left]
      BY <1>0, <2>1, <2>4 DEF PassShaped
    <3>2. /\ Send!Duty' = Send!Duty /\ pass'.todo = todo /\ pass'.duty = pass.duty
          /\ pass'.left = pass.left /\ pass'.at \in {"claim", "check", "queue"}
      BY <3>1 DEF Send!Duty, Send!Entry
    <3>3. Listing(Send!Duty, todo)
      BY <1>0, <2>2, <2>4, CandidatesAre
    <3>4. Listing(Send!Duty, pass.todo)'
      BY <2>2, <3>2, <3>3 DEF Listing
    <3>5. PassTyped'
      BY <1>0, <2>2, <3>2, <3>4 DEF PassTyped
    <3> QED
      BY <2>2, <3>5, TypedAgain DEF Typed, Send!TypeOK
  <2> QED
    BY <2>3, <2>4
<1>5. ASSUME pass.at # "list",
             pass' = [duty |-> pass.duty, todo |-> pass.todo, at |-> "queue", left |-> pass.left],
             UNCHANGED <<now, text>>
      PROVE  PassTyped'
  <2>1. /\ Send!Duty' = Send!Duty /\ pass'.todo = pass.todo /\ pass'.duty = pass.duty
        /\ pass'.left = pass.left /\ pass'.at = "queue"
    BY <1>5 DEF Send!Duty
  <2>2. Listing(Send!Duty, pass.todo)'
    BY <1>5, <2>1 DEF Listing, Typed
  <2> QED
    BY <1>0, <1>5, <2>1, <2>2 DEF PassTyped, Typed
<1>6. CASE Send!Check
  <2>1. /\ pass.at = "check" /\ UNCHANGED <<now, on, text, outbox, scanned, okAt, asked, alerted, born, faults>>
        /\ pass' = IF Send!Served THEN Send!Onward ELSE [pass EXCEPT !.at = "queue"]
    BY <1>6 DEF Send!Check, Send!store
  <2>2. PassTyped'
    <3>1. CASE Send!Served
      BY <1>0, <2>1, <3>1, OnwardTyped
    <3>2. CASE ~Send!Served
      <4>1. pass' = [duty |-> pass.duty, todo |-> pass.todo, at |-> "queue", left |-> pass.left]
        BY <1>0, <2>1, <3>2 DEF PassShaped
      <4> QED
        BY <1>5, <2>1, <4>1
    <3> QED
      BY <3>1, <3>2
  <2> QED
    BY <2>1, <2>2, TypedAgain DEF Typed, Send!TypeOK
<1>7. CASE Send!Claim
  <2>1. /\ pass.at = "claim" /\ UNCHANGED <<now, on, text, outbox, scanned, okAt, alerted, born, faults>>
        /\ asked' \in [Node -> {Send!Never} \union (0..now)]
    BY <1>0, <1>7 DEF Send!Claim, Send!TypeOK
  <2>2. pass' = [duty |-> pass.duty, todo |-> pass.todo, at |-> "queue", left |-> pass.left]
    BY <1>0, <1>7 DEF Send!Claim, PassShaped
  <2>3. PassTyped'
    BY <1>5, <2>1, <2>2
  <2> QED
    BY <2>1, <2>3, TypedAgain DEF Typed, Send!TypeOK
<1>8. CASE Send!Mark
  <2>1. /\ pass.at = "mark" /\ UNCHANGED <<now, on, text, outbox, okAt, asked, born, faults>>
        /\ pass' = Send!Onward
    BY <1>8 DEF Send!Mark
  <2>2. PassTyped'
    BY <1>0, <2>1, OnwardTyped
  <2>3. Listing(Send!Duty, pass.todo) /\ Send!Duty \in {"probe", "alert"}
    BY <1>0, <2>1 DEF Typed, PassShaped
  <2>4. /\ Send!Duty = "probe" => Send!This.subject \in Node
        /\ Send!Duty = "alert" => Send!This.subject \in Send!Alert
    BY <2>3, RestListed DEF Listing, Send!This, Typed, Send!TypeOK
  <2>5. /\ scanned' \in [Node -> {Send!Never} \union (0..now)]
        /\ alerted' \subseteq Send!Alert
    <3>0. /\ scanned \in [Node -> {Send!Never} \union (0..now)] /\ alerted \subseteq Send!Alert
          /\ now \in 0..now
      BY <1>0 DEF Send!TypeOK
    <3>1. CASE Send!Duty = "probe"
      <4>1. scanned' = [scanned EXCEPT ![Send!This.subject] = now] /\ alerted' = alerted
        BY <1>8, <3>1 DEF Send!Mark
      <4> QED
        BY <2>4, <3>0, <3>1, <4>1
    <3>2. CASE Send!Duty # "probe"
      <4>1. scanned' = scanned /\ alerted' = alerted \union {Send!This.subject}
        BY <1>8, <3>2 DEF Send!Mark
      <4> QED
        BY <2>3, <2>4, <3>0, <3>2, <4>1
    <3> QED
      BY <3>1, <3>2
  <2> QED
    BY <2>1, <2>2, <2>5, TypedAgain DEF Typed, Send!TypeOK
<1>9. CASE Send!Drain
  <2>1. /\ pass.duty = 0 /\ UNCHANGED <<now, on, text, scanned, okAt, asked, alerted, born, pass, faults>>
    BY <1>9 DEF Send!Drain, Send!store
  <2>2. PICK k \in DOMAIN outbox, s \in {"held", "done"} :
           outbox' = [i \in DOMAIN outbox |-> IF i <= k /\ outbox[i].state # "done"
                                             THEN [outbox[i] EXCEPT !.state = s] ELSE outbox[i]]
    BY <1>9 DEF Send!Drain
  <2>3. \A i \in DOMAIN outbox' :
         /\ outbox'[i].by \in Send!Range(Send!Order) \X Send!Subject
         /\ outbox'[i].src \in 0..Len(text)
         /\ outbox'[i].t \in 0..now /\ outbox'[i].state \in {"queued", "held", "done"}
         /\ outbox'[i].first \in BOOLEAN
    <3> TAKE i \in DOMAIN outbox'
    <3>1. i \in DOMAIN outbox /\ DOMAIN outbox = 1..Len(outbox)
      BY <2>2, WaitingFinite DEF SendInv
    <3>2. RowShape(outbox[i])
      BY <3>1 DEF SendInv, Queued
    <3>3. outbox'[i] = outbox[i] \/ outbox'[i] = [outbox[i] EXCEPT !.state = s]
      BY <2>2, <3>1
    <3>4. /\ outbox'[i].by = outbox[i].by /\ outbox'[i].src = outbox[i].src
          /\ outbox'[i].t = outbox[i].t /\ outbox'[i].first = outbox[i].first
          /\ outbox'[i].state \in {outbox[i].state, s}
      BY <3>2, <3>3 DEF RowShape
    <3> QED
      BY <1>0, <3>1, <3>4 DEF Send!TypeOK
  <2>4. pass.at = "list"
    BY <2>1 DEF Typed
  <2> QED
    BY <2>1, <2>3, <2>4 DEF Typed, Send!TypeOK
<1>10. CASE Send!StatementFails
  BY <1>0, <1>1, <1>f, <1>10 DEF Send!StatementFails, Send!store
<1>11. CASE Send!Restart
  <2>1. /\ UNCHANGED <<now, on, text, outbox, scanned, okAt, asked, alerted, born>>
        /\ faults' \in 0..MaxFaults /\ pass' = Send!Idle
    BY <1>f, <1>11 DEF Send!Restart, Send!store
  <2>2. PassTyped'
    BY <2>1 DEF PassTyped, Send!Idle, Kinds, Senders
  <2> QED
    BY <2>1, <2>2, TypedAgain DEF Typed, Send!TypeOK
<1> QED
  BY <1>2, <1>3, <1>4, <1>6, <1>7, <1>8, <1>9, <1>10, <1>11, TypedQueue, TypedMesh
  DEF Send!Next, Send!Tick

-----------------------------------------------------------------------------
(* The automatic senders: a message is answered once.                        *)

\* auto_responder.cooldown_s covers the time for which a message is looked at.
CooldownCovers == Cooldown >= Lookback + Ahead

\* A message is dated no later than its gateway's clock is ahead, and an answer is
\* queued while its message is in the window.
Answered ==
    /\ \A i \in 1..Len(text) : text[i].t <= now + Ahead
    /\ \A i \in 1..Len(outbox) : outbox[i].by[1] = "reply" =>
         /\ outbox[i].src \in 1..Len(text)
         /\ outbox[i].t <= text[outbox[i].src].t + Lookback
         /\ text[outbox[i].src].t <= outbox[i].t + Ahead

LEMMA Numbers ==
    ASSUME Kinds, SendInv, Typed
    PROVE  /\ now \in Nat /\ Ahead \in Nat /\ Lookback \in Int /\ Cooldown \in Int
           /\ Len(text) \in Nat /\ \A i \in 1..Len(text) : text[i].t \in Nat
           /\ Len(outbox) \in Nat /\ DOMAIN outbox = 1..Len(outbox)
           /\ \A i \in 1..Len(outbox) : outbox[i].t \in Nat
<1> DEFINE L == [from : Node, t : Nat]
<1>1. text \in Seq(L)
  BY DEF Typed, Send!TypeOK
<1>2. \A x \in L : x.t \in Nat
  OBVIOUS
<1> HIDE DEF L
<1>3. Len(text) \in Nat /\ \A i \in 1..Len(text) : text[i].t \in Nat
  BY <1>1, <1>2, ElementOfSeq
<1>4. /\ Len(outbox) \in Nat /\ DOMAIN outbox = 1..Len(outbox)
  BY WaitingFinite DEF SendInv
<1>5. \A i \in 1..Len(outbox) : outbox[i].t \in Nat
  <2> TAKE i \in 1..Len(outbox)
  <2>1. outbox[i].t \in 0..now /\ now \in Nat
    BY DEF SendInv, Queued, RowShape
  <2> QED
    BY <2>1
<1> QED
  BY <1>3, <1>4, <1>5 DEF Kinds, Senders, SendInv, Queued

LEMMA AnsweredStart == ASSUME Kinds, Send!Init PROVE Answered
<1>1. text = <<>> /\ outbox = <<>> /\ Len(text) = 0 /\ Len(outbox) = 0
  BY EmptySeq DEF Send!Init
<1> QED
  BY <1>1 DEF Answered

LEMMA AnsweredStep ==
    ASSUME Kinds, SendInv, Typed, Answered, [Send!Next]_Send!vars PROVE Answered'
<1>0. /\ now \in Nat /\ Ahead \in Nat /\ Lookback \in Int
      /\ Len(text) \in Nat /\ \A i \in 1..Len(text) : text[i].t \in Nat
      /\ Len(outbox) \in Nat /\ DOMAIN outbox = 1..Len(outbox)
      /\ \A i \in 1..Len(outbox) : outbox[i].t \in Nat
  BY Numbers
<1>1. CASE UNCHANGED <<now, text, outbox>>
  BY <1>1 DEF Answered
<1>2. CASE Send!TimePasses
  <2>1. now' = now + 1 /\ UNCHANGED <<text, outbox>>
    BY <1>2 DEF Send!TimePasses
  <2> QED
    BY <1>0, <2>1 DEF Answered
<1>3. ASSUME NEW n, Send!Say(n) PROVE Answered'
  <2>1. PICK t \in now..(now + Ahead) : text' = Append(text, [from |-> n, t |-> t])
    BY <1>3 DEF Send!Say
  <2>2. UNCHANGED <<now, outbox>> /\ \E S : text \in Seq(S)
    BY <1>3 DEF Send!Say, Typed, Send!TypeOK
  <2> DEFINE x == [from |-> n, t |-> t]
  <2>3. x.t <= now + Ahead
    BY <1>0
  <2> HIDE DEF x
  <2>4. /\ Len(text') = Len(text) + 1 /\ text'[Len(text) + 1] = x
        /\ \A i \in 1..Len(text) : text'[i] = text[i] /\ i \in 1..Len(text')
    <3>1. PICK S : text \in Seq(S)
      BY <2>2
    <3>2. text \in Seq(S \union {x}) /\ x \in S \union {x} /\ text' = Append(text, x)
      BY <2>1, <3>1 DEF x
    <3> QED
      BY <1>0, <3>2, AppendProperties
  <2>5. \A i \in 1..Len(text') : i = Len(text) + 1 \/ i \in 1..Len(text)
    BY <1>0, <2>4
  <2> QED
    BY <1>0, <2>2, <2>3, <2>4, <2>5 DEF Answered
<1>4. CASE Send!Drain
  <2>1. PICK k \in DOMAIN outbox, s \in {"held", "done"} :
           outbox' = [i \in DOMAIN outbox |-> IF i <= k /\ outbox[i].state # "done"
                                             THEN [outbox[i] EXCEPT !.state = s] ELSE outbox[i]]
    BY <1>4 DEF Send!Drain
  <2>2. UNCHANGED <<now, text>>
    BY <1>4 DEF Send!Drain
  <2>3. \A i \in 1..Len(outbox) : outbox'[i].by = outbox[i].by
                                  /\ outbox'[i].src = outbox[i].src /\ outbox'[i].t = outbox[i].t
    <3> TAKE i \in 1..Len(outbox)
    <3>1. RowShape(outbox[i])
      BY DEF SendInv, Queued
    <3>2. outbox'[i] = outbox[i] \/ outbox'[i] = [outbox[i] EXCEPT !.state = s]
      BY <1>0, <2>1
    <3> QED
      BY <3>1, <3>2 DEF RowShape
  <2>4. Len(outbox') = Len(outbox)
    BY <1>0, <2>1
  <2> QED
    BY <2>2, <2>3, <2>4 DEF Answered
<1>5. CASE Send!enqueueTx
  <2> DEFINE r == [by |-> Send!By, src |-> Send!This.src, t |-> now,
                   state |-> "queued", first |-> pass.left = 0]
  <2>1. outbox' = Append(outbox, r) /\ UNCHANGED <<now, text>> /\ pass.at = "queue"
    BY <1>5 DEF Send!enqueueTx
  <2>2. /\ r = [by |-> r.by, src |-> r.src, t |-> r.t, state |-> r.state, first |-> r.first]
        /\ r.t = now /\ r.state = "queued" /\ r.src = Head(pass.todo).src
        /\ r.by[1] = Send!Duty
    BY DEF Send!By, Send!This
  <2> HIDE DEF r
  <2>3. /\ Len(outbox') = Len(outbox) + 1 /\ outbox'[Len(outbox) + 1] = r
        /\ \A i \in 1..Len(outbox) : outbox'[i] = outbox[i]
    BY <2>1, <2>2, RowAdded DEF SendInv
  <2>4. Send!Duty = "reply" =>
          /\ r.src \in 1..Len(text) /\ text[r.src].t >= now - Lookback
          /\ text[r.src].t <= now + Ahead
    <3>1. Listing(Send!Duty, pass.todo)
      BY <2>1 DEF Typed
    <3>2. Head(pass.todo) = pass.todo[1] /\ 1 \in 1..Len(pass.todo)
      BY <3>1, RestListed DEF Typed, Send!TypeOK
    <3> QED
      BY <2>2, <3>1, <3>2 DEF Listing, Answered
  <2>5. \A i \in 1..Len(outbox') : i = Len(outbox) + 1 \/ i \in 1..Len(outbox)
    BY <1>0, <2>3
  <2>6. r.by[1] = "reply" => /\ r.src \in 1..Len(text)
                             /\ r.t <= text[r.src].t + Lookback /\ text[r.src].t <= r.t + Ahead
    <3>1. \A t \in Nat : t >= now - Lookback => now <= t + Lookback
      BY <1>0
    <3> QED
      BY <1>0, <2>2, <2>4, <3>1
  <2>7. \A i \in 1..Len(outbox') : outbox'[i].by[1] = "reply" =>
          /\ outbox'[i].src \in 1..Len(text)
          /\ outbox'[i].t <= text[outbox'[i].src].t + Lookback
          /\ text[outbox'[i].src].t <= outbox'[i].t + Ahead
    BY <2>3, <2>5, <2>6 DEF Answered
  <2> QED
    BY <2>1, <2>7 DEF Answered
<1>6. ASSUME NEW n, Send!Appear(n) \/ Send!recordAdminOk(n) PROVE UNCHANGED <<now, text, outbox>>
  BY <1>6 DEF Send!Appear, Send!recordAdminOk
<1>7. CASE Send!TickStarts \/ Send!List \/ Send!Check \/ Send!Claim \/ Send!Mark
           \/ Send!StatementFails \/ Send!Restart \/ UNCHANGED Send!vars
  BY <1>1, <1>7 DEF Send!TickStarts, Send!List, Send!Check, Send!Claim, Send!Mark,
         Send!StatementFails, Send!Restart, Send!vars
<1> QED
  BY <1>1, <1>2, <1>3, <1>4, <1>5, <1>6, <1>7 DEF Send!Next, Send!Tick, Send!Mesh

\* Two answers to the same message would be further apart than it is looked at.
LEMMA OneAnswer ==
    ASSUME Kinds, CooldownCovers, SendInv, Typed, Answered PROVE Send!AnsweredOnce
<1>0. /\ Ahead \in Nat /\ Lookback \in Int /\ Cooldown \in Int
      /\ \A i \in 1..Len(text) : text[i].t \in Nat
      /\ DOMAIN outbox = 1..Len(outbox) /\ \A i \in 1..Len(outbox) : outbox[i].t \in Nat
  BY Numbers
<1>1. ASSUME NEW i \in 1..Len(outbox), NEW j \in 1..Len(outbox), outbox[i].by[1] = "reply",
             outbox[j].first, outbox[i].by = outbox[j].by, outbox[i].src = outbox[j].src, i < j
      PROVE  FALSE
  <2>1. outbox[j].t - outbox[i].t > Cooldown
    <3>1. j \notin Send!TooSoon("reply")
      BY DEF SendInv, Send!NeverTooSoon
    <3>2. i \in Send!Rows(outbox[j].by) /\ Send!Gap("reply") = Cooldown
      BY <1>0, <1>1 DEF Send!Rows, Send!Gap
    <3>3. ~(outbox[j].t - outbox[i].t <= Cooldown)
      BY <1>0, <1>1, <3>1, <3>2 DEF Send!TooSoon
    <3> QED
      BY <1>0, <3>3
  <2>2. /\ outbox[i].src \in 1..Len(text)
        /\ outbox[j].t <= text[outbox[i].src].t + Lookback
        /\ text[outbox[i].src].t <= outbox[i].t + Ahead
    BY <1>1 DEF Answered
  <2>3. /\ outbox[i].t \in Nat /\ outbox[j].t \in Nat /\ text[outbox[i].src].t \in Nat
        /\ Cooldown >= Lookback + Ahead
    BY <1>0, <2>2 DEF CooldownCovers
  <2>4. \A a, b, x \in Nat : b <= x + Lookback /\ x <= a + Ahead => ~(b - a > Cooldown)
    BY <1>0, <2>3
  <2> QED
    BY <2>1, <2>2, <2>3, <2>4
<1>2. \A i, j \in 1..Len(outbox) : i < j \/ j < i \/ i = j
  BY <1>0
<1> QED
  BY <1>0, <1>1, <1>2 DEF Send!AnsweredOnce

-----------------------------------------------------------------------------
(* The automatic senders: what is marked after it has been queued is repeated *)
(* by failures alone.  A round that was queued and not marked is a debt: each *)
(* failure makes at most one, and a repetition settles it until the next.     *)

\* The round that has been queued and is about to be marked.
Marking(d, s) == pass.at = "mark" /\ Send!Duty = d /\ Send!This.subject = s

\* The node is among the candidates of the probe under way.
Probing(s) ==
    /\ pass.at # "list" /\ Send!Duty = "probe"
    /\ \E k \in 1..Len(pass.todo) : pass.todo[k].subject = s

\* A probe that its mark does not show, or one that is not old enough.
Unscanned(s) == okAt[s] = Send!Never /\ \E i \in Send!Rows(<<"probe", s>>) : scanned[s] < outbox[i].t
Recent(s)    == \E i \in Send!Rows(<<"probe", s>>) : now - outbox[i].t <= Rescan

AlertOwed(s) == Send!Rows(<<"alert", s>>) # {} /\ s \notin alerted /\ ~Marking("alert", s)
ProbeOwed(s) ==
    /\ Reconfirm = 0 /\ ~Marking("probe", s)
    /\ Unscanned(s) \/ (Probing(s) /\ Recent(s))
Debts == {<<"alert", s>> : s \in {a \in Send!Alert : AlertOwed(a)}}
         \union {<<"probe", s>> : s \in {n \in Node : ProbeOwed(n)}}

Repeated == Send!TooSoon("alert") \union (IF Reconfirm = 0 THEN Send!TooSoon("probe") ELSE {})

\* An alert that is about to be broadcast has not been; failures pay for the rest.
Paid ==
    /\ pass.at \in {"queue", "mark"} /\ Send!Duty = "alert" =>
          Send!This.subject \notin alerted
    /\ Cardinality(Repeated) + Cardinality(Debts) <= faults

LEMMA DebtsFinite ==
    ASSUME Kinds, SendInv
    PROVE  /\ IsFiniteSet(Debts) /\ Cardinality(Debts) \in Nat
           /\ IsFiniteSet(Repeated) /\ Cardinality(Repeated) \in Nat
<1>1. IsFiniteSet(Node) /\ IsFiniteSet(Send!Alert)
  <2>1. Send!Alert = {"storm"}
    BY DEF Send!Alert
  <2> QED
    BY <2>1, FS_Singleton DEF Kinds, Senders
<1>2. ASSUME NEW d, NEW S, IsFiniteSet(S) PROVE IsFiniteSet({<<d, s>> : s \in S})
  <2> DEFINE f == [s \in S |-> <<d, s>>]
  <2>1. f \in Surjection(S, {<<d, s>> : s \in S})
    BY DEF Surjection
  <2> QED
    BY <1>2, <2>1, FS_Surjection
<1>5. IsFiniteSet(Debts)
  <2> DEFINE A == {a \in Send!Alert : AlertOwed(a)}
             P == {n \in Node : ProbeOwed(n)}
  <2>1. IsFiniteSet(A) /\ IsFiniteSet(P)
    BY <1>1, FS_Subset
  <2>2. IsFiniteSet({<<"alert", s>> : s \in A}) /\ IsFiniteSet({<<"probe", s>> : s \in P})
    BY <1>2, <2>1
  <2> QED
    BY <2>2, FS_Union DEF Debts
<1>6. Repeated \subseteq 1..Len(outbox) /\ Len(outbox) \in Nat
  BY WaitingFinite DEF Repeated, Send!TooSoon, SendInv
<1>7. IsFiniteSet(Repeated)
  BY <1>6, FiniteIds
<1> QED
  BY <1>5, <1>7, FS_CardinalityType

\* The same rounds are repeated, and no debt has come up but one, for a failure.
LEMMA PaidFrame ==
    ASSUME Kinds, SendInv, SendInv', Paid, Repeated' = Repeated, faults \in Nat,
           \/ Debts' \subseteq Debts /\ faults' = faults
           \/ faults' = faults + 1 /\ \E b : Debts' \subseteq Debts \union {b},
           pass'.at \in {"queue", "mark"} /\ Send!Duty' = "alert" =>
              Send!This'.subject \notin alerted'
    PROVE  Paid'
<1>1. /\ IsFiniteSet(Debts) /\ Cardinality(Debts) \in Nat
      /\ Cardinality(Repeated) \in Nat
  BY DebtsFinite
<1>2. CASE Debts' \subseteq Debts /\ faults' = faults
  <2>1. Cardinality(Debts') <= Cardinality(Debts) /\ Cardinality(Debts') \in Nat
    BY <1>1, <1>2, FS_Subset, FS_CardinalityType
  <2>2. Cardinality(Repeated') + Cardinality(Debts') <= faults'
    BY <1>1, <1>2, <2>1 DEF Paid
  <2> QED
    BY <2>2 DEF Paid
<1>3. ASSUME faults' = faults + 1, NEW b, Debts' \subseteq Debts \union {b} PROVE Paid'
  <2>1. IsFiniteSet(Debts \union {b}) /\ Cardinality(Debts \union {b}) <= Cardinality(Debts) + 1
        /\ Cardinality(Debts \union {b}) \in Nat
    <3>1. IsFiniteSet(Debts \union {b})
      BY <1>1, FS_AddElement
    <3>2. \/ Cardinality(Debts \union {b}) = Cardinality(Debts)
          \/ Cardinality(Debts \union {b}) = Cardinality(Debts) + 1
      BY <1>1, FS_AddElement
    <3> QED
      BY <1>1, <3>1, <3>2
  <2>2. Cardinality(Debts') <= Cardinality(Debts \union {b}) /\ Cardinality(Debts') \in Nat
    BY <1>3, <2>1, FS_Subset, FS_CardinalityType
  <2>3. Cardinality(Repeated') + Cardinality(Debts') <= faults'
    BY <1>1, <1>3, <2>1, <2>2 DEF Paid
  <2> QED
    BY <2>3 DEF Paid
<1> QED
  BY <1>2, <1>3

\* A round that was owed is repeated, or one that was not is opened.
LEMMA PaidRepeats ==
    ASSUME Kinds, SendInv, SendInv', Paid, faults' = faults, faults \in Nat, NEW b, NEW x,
           Debts' \subseteq Debts \ {b}, Repeated' \subseteq Repeated \union {x},
           x \in Repeated' => b \in Debts
    PROVE  Cardinality(Repeated') + Cardinality(Debts') <= faults'
<1>1. /\ IsFiniteSet(Debts) /\ Cardinality(Debts) \in Nat
      /\ IsFiniteSet(Repeated) /\ Cardinality(Repeated) \in Nat
  BY DebtsFinite
<1>2. /\ IsFiniteSet(Debts') /\ Cardinality(Debts') \in Nat
      /\ IsFiniteSet(Repeated') /\ Cardinality(Repeated') \in Nat
  <2>1. Debts' \subseteq Debts /\ IsFiniteSet(Repeated \union {x})
    BY <1>1, FS_AddElement
  <2> QED
    BY <1>1, <2>1, FS_Subset, FS_CardinalityType
<1>3. CASE b \in Debts
  <2>1. /\ Cardinality(Debts \ {b}) = Cardinality(Debts) - 1 /\ IsFiniteSet(Debts \ {b})
    BY <1>1, <1>3, FS_RemoveElement
  <2>2. Cardinality(Debts') <= Cardinality(Debts) - 1
    BY <2>1, FS_Subset
  <2>3. /\ IsFiniteSet(Repeated \union {x})
        /\ \/ Cardinality(Repeated \union {x}) = Cardinality(Repeated)
           \/ Cardinality(Repeated \union {x}) = Cardinality(Repeated) + 1
    BY <1>1, FS_AddElement
  <2>4. Cardinality(Repeated') <= Cardinality(Repeated \union {x})
    BY <2>3, FS_Subset
  <2>5. Cardinality(Repeated') <= Cardinality(Repeated) + 1
    BY <1>1, <1>2, <2>3, <2>4
  <2>6. Cardinality(Repeated) + Cardinality(Debts) <= faults
    BY DEF Paid
  <2> QED
    BY <1>1, <1>2, <2>2, <2>5, <2>6
<1>4. CASE b \notin Debts
  <2>1. Debts' \subseteq Debts /\ Repeated' \subseteq Repeated
    BY <1>4
  <2>2. Cardinality(Debts') <= Cardinality(Debts) /\ Cardinality(Repeated') <= Cardinality(Repeated)
    BY <1>1, <2>1, FS_Subset
  <2>6. Cardinality(Repeated) + Cardinality(Debts) <= faults
    BY DEF Paid
  <2> QED
    BY <1>1, <1>2, <2>2, <2>6
<1> QED
  BY <1>3, <1>4

\* What is owed after a step was owed before, or is in X.
LEMMA FewerDebts ==
    ASSUME NEW X,
           \A s \in Send!Alert : AlertOwed(s)' => AlertOwed(s) \/ <<"alert", s>> \in X,
           \A s \in Node : ProbeOwed(s)' => ProbeOwed(s) \/ <<"probe", s>> \in X
    PROVE  Debts' \subseteq Debts \union X
<1>1. \A s \in Send!Alert : AlertOwed(s) => <<"alert", s>> \in Debts
  BY DEF Debts
<1>2. \A s \in Node : ProbeOwed(s) => <<"probe", s>> \in Debts
  BY DEF Debts
<1>3. ASSUME NEW CONSTANT b, b \in Debts' PROVE b \in Debts \union X
  <2>1. \/ \E s \in Send!Alert : b = <<"alert", s>> /\ AlertOwed(s)'
        \/ \E s \in Node : b = <<"probe", s>> /\ ProbeOwed(s)'
    BY <1>3 DEF Debts
  <2> QED
    BY <1>1, <1>2, <2>1
<1> QED
  BY <1>3

\* The outbox is as it was, but for the state of its rows.
SameRounds ==
    /\ now' = now \/ pass.at = "list"
    /\ DOMAIN outbox' = DOMAIN outbox
    /\ \A i \in DOMAIN outbox : /\ outbox'[i].by = outbox[i].by /\ outbox'[i].t = outbox[i].t
                                /\ outbox'[i].first = outbox[i].first

LEMMA RoundsStay ==
    ASSUME SameRounds
    PROVE  /\ Repeated' = Repeated
           /\ \A by : Send!Rows(by)' = Send!Rows(by)
           /\ \A s : now' = now => (Recent(s)' <=> Recent(s))
           /\ \A s : okAt'[s] = okAt[s] /\ scanned'[s] = scanned[s] =>
                        (Unscanned(s)' <=> Unscanned(s))
<1>1. \A by : Send!Rows(by)' = Send!Rows(by)
  BY DEF SameRounds, Send!Rows
<1>2. \A by : \A i \in Send!Rows(by) : i \in DOMAIN outbox /\ outbox'[i].t = outbox[i].t
  BY DEF SameRounds, Send!Rows
<1>3. \A d : Send!TooSoon(d)' = Send!TooSoon(d)
  <2> TAKE d
  <2>1. Send!Gap(d)' = Send!Gap(d)
    BY DEF Send!Gap
  <2>2. ASSUME NEW CONSTANT j, j \in Send!TooSoon(d)' PROVE j \in Send!TooSoon(d)
    <3>1. /\ j \in DOMAIN outbox' /\ outbox'[j].by[1] = d /\ outbox'[j].first
          /\ \E i \in Send!Rows(outbox[j].by)' : i < j /\ outbox'[j].t - outbox'[i].t <= Send!Gap(d)'
      BY <2>2 DEF Send!TooSoon
    <3>2. /\ j \in DOMAIN outbox /\ outbox'[j].by = outbox[j].by /\ outbox'[j].t = outbox[j].t
          /\ outbox'[j].first = outbox[j].first
      BY <3>1 DEF SameRounds
    <3> QED
      BY <1>1, <1>2, <2>1, <3>1, <3>2 DEF Send!TooSoon
  <2>3. ASSUME NEW CONSTANT j, j \in Send!TooSoon(d) PROVE j \in Send!TooSoon(d)'
    <3>1. /\ j \in DOMAIN outbox /\ outbox[j].by[1] = d /\ outbox[j].first
          /\ \E i \in Send!Rows(outbox[j].by) : i < j /\ outbox[j].t - outbox[i].t <= Send!Gap(d)
      BY <2>3 DEF Send!TooSoon
    <3>2. /\ j \in DOMAIN outbox' /\ outbox'[j].by = outbox[j].by /\ outbox'[j].t = outbox[j].t
          /\ outbox'[j].first = outbox[j].first
      BY <3>1 DEF SameRounds
    <3>3. PICK i \in Send!Rows(outbox[j].by) : i < j /\ outbox[j].t - outbox[i].t <= Send!Gap(d)
      BY <3>1
    <3>4. i \in DOMAIN outbox /\ outbox[i].by = outbox[j].by /\ outbox'[i].t = outbox[i].t
      BY <1>2, <3>3 DEF Send!Rows
    <3>5. outbox'[j].t - outbox'[i].t <= Send!Gap(d)'
      BY <2>1, <3>2, <3>3, <3>4
    <3>6. i \in DOMAIN outbox' /\ outbox'[i].by = outbox'[j].by
      BY <3>2, <3>4 DEF SameRounds
    <3> QED
      BY <3>1, <3>2, <3>3, <3>5, <3>6 DEF Send!TooSoon, Send!Rows
  <2> QED
    BY <2>2, <2>3
<1>4. Repeated' = Repeated
  BY <1>3 DEF Repeated
<1>5. \A s : now' = now => (Recent(s)' <=> Recent(s))
  BY <1>1, <1>2 DEF Recent
<1>6. \A s : okAt'[s] = okAt[s] /\ scanned'[s] = scanned[s] => (Unscanned(s)' <=> Unscanned(s))
  BY <1>1, <1>2 DEF Unscanned
<1> QED
  BY <1>1, <1>4, <1>5, <1>6

\* Nothing is queued, marked or answered; the pass ends, or another one begins.
LEMMA PaidTurns ==
    ASSUME Kinds, SendInv, SendInv', Typed, Paid, SameRounds,
           UNCHANGED <<okAt, scanned, alerted>>, pass'.at = "list",
           (faults' = faults /\ pass.at = "list") \/ faults' = faults + 1
    PROVE  Paid'
<1>1. /\ Repeated' = Repeated /\ faults \in Nat
      /\ \A by : Send!Rows(by)' = Send!Rows(by)
      /\ \A s : Unscanned(s)' <=> Unscanned(s)
  BY RoundsStay DEF Typed, Send!TypeOK, Kinds
<1> DEFINE b == <<Send!Duty, Send!This.subject>>
           X == IF pass.at = "list" THEN {} ELSE {b}
<1>2. \A d, s : Marking(d, s) => <<d, s>> \in X
  BY DEF Marking
<1>3. \A s : ~Probing(s)'
  BY DEF Probing
<1> HIDE DEF X
<1>4. \A s \in Send!Alert : AlertOwed(s)' => AlertOwed(s) \/ <<"alert", s>> \in X
  BY <1>1, <1>2 DEF AlertOwed
<1>5. \A s \in Node : ProbeOwed(s)' => ProbeOwed(s) \/ <<"probe", s>> \in X
  BY <1>1, <1>2, <1>3 DEF ProbeOwed
<1>6. Debts' \subseteq Debts \union X
  BY <1>4, <1>5, FewerDebts
<1>7. \/ Debts' \subseteq Debts /\ faults' = faults
      \/ faults' = faults + 1 /\ \E c : Debts' \subseteq Debts \union {c}
  <2>1. CASE pass.at = "list" /\ faults' = faults
    BY <1>6, <2>1 DEF X
  <2>2. CASE faults' = faults + 1
    <3>1. X \subseteq {b}
      BY DEF X
    <3> QED
      BY <1>6, <2>2, <3>1
  <2> QED
    BY <2>1, <2>2
<1>8. ~(pass'.at \in {"queue", "mark"} /\ Send!Duty' = "alert")
  OBVIOUS
<1> QED
  BY <1>1, <1>7, <1>8, PaidFrame

\* The mesh moves, or a row of the outbox is sent.
LEMMA PaidMesh ==
    ASSUME Kinds, SendInv, SendInv', Typed, Paid, SameRounds, UNCHANGED <<alerted, pass, faults>>,
           \A s \in Node : \/ okAt'[s] = okAt[s] /\ scanned'[s] = scanned[s]
                           \/ okAt'[s] # Send!Never
    PROVE  Paid'
<1>1. /\ Repeated' = Repeated /\ faults \in Nat
      /\ \A by : Send!Rows(by)' = Send!Rows(by)
      /\ \A s : okAt'[s] = okAt[s] /\ scanned'[s] = scanned[s] => (Unscanned(s)' <=> Unscanned(s))
      /\ \A s : now' = now => (Recent(s)' <=> Recent(s))
  BY RoundsStay DEF Typed, Send!TypeOK, Kinds
<1>u. \A s \in Node : Unscanned(s)' => Unscanned(s)
  <2> TAKE s \in Node
  <2>1. CASE okAt'[s] # Send!Never
    BY <2>1 DEF Unscanned, Send!Never
  <2>2. CASE okAt'[s] = okAt[s] /\ scanned'[s] = scanned[s]
    BY <1>1, <2>2
  <2> QED
    BY <2>1, <2>2
<1>2. /\ Send!Duty' = Send!Duty /\ Send!This' = Send!This
      /\ \A d, s : Marking(d, s)' <=> Marking(d, s)
      /\ \A s : Probing(s)' <=> Probing(s)
  BY DEF Send!Duty, Send!This, Marking, Probing
<1>3. \A s : Probing(s) => now' = now
  BY DEF Probing, SameRounds
<1>4. \A s \in Send!Alert : AlertOwed(s)' => AlertOwed(s) \/ <<"alert", s>> \in {}
  BY <1>1, <1>2 DEF AlertOwed
<1>5. \A s \in Node : ProbeOwed(s)' => ProbeOwed(s) \/ <<"probe", s>> \in {}
  BY <1>1, <1>u, <1>2, <1>3 DEF ProbeOwed
<1>6. Debts' \subseteq Debts
  BY <1>4, <1>5, FewerDebts
<1>7. pass'.at \in {"queue", "mark"} /\ Send!Duty' = "alert" =>
        Send!This'.subject \notin alerted'
  BY <1>2 DEF Paid
<1> QED
  BY <1>1, <1>6, <1>7, PaidFrame

\* A check or a claim; what is marked afterwards is neither.
LEMMA PaidLooks ==
    ASSUME Kinds, SendInv, SendInv', Typed, Paid, Send!Check \/ Send!Claim
    PROVE  Paid'
<1>0. /\ UNCHANGED <<now, outbox, okAt, scanned, alerted, faults>> /\ PassShaped
      /\ pass.at \in {"check", "claim"} /\ Send!Duty # "probe"
  BY DEF Send!Check, Send!Claim, Send!store, SendInv, PassShaped
<1>1. /\ Repeated' = Repeated /\ faults \in Nat
      /\ \A by : Send!Rows(by)' = Send!Rows(by)
      /\ \A s : Unscanned(s)' <=> Unscanned(s)
  BY <1>0, RoundsStay DEF SameRounds, Typed, Send!TypeOK, Kinds
<1>2. \/ pass'.at = "list"
      \/ /\ Send!Duty' = Send!Duty
         /\ Send!Duty = "alert" /\ pass'.at \in {"queue", "mark"} =>
               pass'.todo = pass.todo /\ ~Send!Served
  <2>1. CASE Send!Claim
    <3>1. pass' = [duty |-> pass.duty, todo |-> pass.todo, at |-> "queue", left |-> pass.left]
      BY <1>0, <2>1 DEF Send!Claim, PassShaped
    <3>2. pass'.duty = pass.duty /\ Send!Duty = "trace"
      BY <1>0, <2>1, <3>1 DEF Send!Claim, PassShaped
    <3> QED
      BY <3>2 DEF Send!Duty
  <2>2. CASE Send!Check /\ ~Send!Served
    <3>1. pass' = [duty |-> pass.duty, todo |-> pass.todo, at |-> "queue", left |-> pass.left]
      BY <1>0, <2>2 DEF Send!Check, PassShaped
    <3>2. pass'.duty = pass.duty /\ pass'.todo = pass.todo
      BY <3>1
    <3> QED
      BY <2>2, <3>2 DEF Send!Duty
  <2>3. CASE Send!Check /\ Send!Served
    <3>1. pass' = Send!Onward
      BY <2>3 DEF Send!Check
    <3>2. \/ pass'.at = "list"
          \/ pass'.duty = pass.duty /\ pass'.at = Send!Entry(Send!Duty)
      BY <1>0, <3>1, OnwardIs
    <3> QED
      BY <3>2 DEF Send!Duty, Send!Entry
  <2> QED
    BY <2>1, <2>2, <2>3
<1>3. (\A s : ~Probing(s)') /\ \A d, s : ~Marking(d, s)
  BY <1>0, <1>2 DEF Probing, Marking
<1>4. \A s \in Send!Alert : AlertOwed(s)' => AlertOwed(s) \/ <<"alert", s>> \in {}
  BY <1>0, <1>1, <1>3 DEF AlertOwed
<1>5. \A s \in Node : ProbeOwed(s)' => ProbeOwed(s) \/ <<"probe", s>> \in {}
  BY <1>1, <1>3 DEF ProbeOwed
<1>6. Debts' \subseteq Debts
  BY <1>4, <1>5, FewerDebts
<1>7. pass'.at \in {"queue", "mark"} /\ Send!Duty' = "alert" =>
        Send!This'.subject \notin alerted'
  <2> SUFFICES ASSUME pass'.at \in {"queue", "mark"}, Send!Duty' = "alert"
               PROVE  Send!This'.subject \notin alerted
    BY <1>0
  <2>1. Send!Duty = "alert" /\ pass'.todo = pass.todo /\ ~Send!Served
    BY <1>2
  <2>2. Send!This' = Send!This
    BY <2>1 DEF Send!This
  <2> QED
    BY <2>1, <2>2 DEF Send!Served
<1> QED
  BY <1>0, <1>1, <1>6, <1>7, PaidFrame

\* The duty that lists probes lists those that are due, or were owed before.
LEMMA PaidLists ==
    ASSUME Kinds, SendInv, SendInv', Typed, Paid, Send!List PROVE Paid'
<1>0. /\ UNCHANGED <<now, outbox, okAt, scanned, alerted, faults>> /\ PassShaped
      /\ pass.at = "list" /\ pass.duty \in 1..7
  BY OrderIs DEF Send!List, Send!store, SendInv, Typed, Send!TypeOK
<1>1. PICK todo \in Send!Candidates :
         pass' = IF todo = <<>> THEN Send!NextDuty(pass.duty)
                 ELSE [pass EXCEPT !.todo = todo, !.at = Send!Entry(Send!Duty)]
  BY DEF Send!List
<1>2. SameRounds
  BY <1>0 DEF SameRounds
<1>3. CASE todo = <<>>
  <2>1. pass'.at = "list"
    BY <1>0, <1>1, <1>3, NextIsList
  <2> QED
    BY <1>0, <1>2, <2>1, PaidTurns
<1>4. CASE todo # <<>>
  <2>1. pass' = [duty |-> pass.duty, todo |-> todo, at |-> Send!Entry(Send!Duty),
                 left |-> pass.left]
    BY <1>0, <1>1, <1>4 DEF PassShaped
  <2>2. /\ Send!Duty' = Send!Duty /\ pass'.todo = todo
        /\ Send!Duty = "alert" => pass'.at = "check"
    BY <2>1 DEF Send!Duty, Send!Entry
  <2>3. /\ Repeated' = Repeated /\ faults \in Nat
        /\ \A by : Send!Rows(by)' = Send!Rows(by)
        /\ \A s : Unscanned(s)' <=> Unscanned(s)
        /\ \A s : Recent(s)' <=> Recent(s)
    BY <1>0, <1>2, RoundsStay DEF Typed, Send!TypeOK, Kinds
  <2>4. \A d, s : ~Marking(d, s)
    BY <1>0 DEF Marking
  <2>5. ASSUME NEW s \in Node, Reconfirm = 0, Probing(s)', Recent(s) PROVE Unscanned(s)
    <3>1. PICK k \in 1..Len(todo) : todo[k].subject = s
      BY <2>2, <2>5 DEF Probing
    <3>2. Send!Duty = "probe"
      BY <2>2, <2>5 DEF Probing
    <3>3. todo \in Send!Some(Send!scanCandidates) /\ Send!scanCandidates \in SUBSET Node
      BY <1>4, <3>2 DEF Send!Candidates, Send!scanCandidates
    <3>4. s \in Send!scanCandidates
      BY <1>4, <3>1, <3>3, SomeOf DEF Kinds
    <3>5. okAt[s] = Send!Never /\ (scanned[s] = Send!Never \/ scanned[s] < now - Rescan)
      BY <2>5, <3>4 DEF Send!scanCandidates
    <3>6. PICK i \in Send!Rows(<<"probe", s>>) : now - outbox[i].t <= Rescan
      BY <2>5 DEF Recent
    <3>7. now \in Nat /\ outbox[i].t \in Nat /\ Rescan \in Int
      BY Numbers DEF Send!Rows, Kinds, Senders
    <3>8. scanned[s] \in {Send!Never} \union (0..now)
      BY DEF Typed, Send!TypeOK
    <3>9. scanned[s] < outbox[i].t
      BY <3>5, <3>6, <3>7, <3>8 DEF Send!Never
    <3> QED
      BY <3>5, <3>9 DEF Unscanned
  <2>6. \A s \in Send!Alert : AlertOwed(s)' => AlertOwed(s) \/ <<"alert", s>> \in {}
    BY <1>0, <2>3, <2>4 DEF AlertOwed
  <2>7. \A s \in Node : ProbeOwed(s)' => ProbeOwed(s) \/ <<"probe", s>> \in {}
    BY <2>3, <2>4, <2>5 DEF ProbeOwed
  <2>8. Debts' \subseteq Debts
    BY <2>6, <2>7, FewerDebts
  <2>9. ~(pass'.at \in {"queue", "mark"} /\ Send!Duty' = "alert")
    BY <2>2
  <2> QED
    BY <1>0, <2>3, <2>8, <2>9, PaidFrame
<1> QED
  BY <1>3, <1>4

\* What is marked is owed no longer.
LEMMA PaidMarks ==
    ASSUME Kinds, SendInv, SendInv', Typed, Paid, Send!Mark PROVE Paid'
<1>0. /\ UNCHANGED <<now, outbox, okAt, faults>> /\ PassShaped
      /\ pass.at = "mark" /\ Send!Duty \in {"probe", "alert"}
      /\ pass' = Send!Onward
      /\ Listing(Send!Duty, pass.todo) /\ text \in Seq([from : Node, t : Nat])
      /\ scanned \in [Node -> {Send!Never} \union (0..now)]
  BY DEF Send!Mark, SendInv, PassShaped, Typed, Send!TypeOK
<1>h. PICK h : h = Send!This.subject
  OBVIOUS
<1>1. /\ \A by : Send!Rows(by)' = Send!Rows(by)
      /\ Repeated' = Repeated /\ faults \in Nat
      /\ \A s : Recent(s)' <=> Recent(s)
      /\ \A s : scanned'[s] = scanned[s] => (Unscanned(s)' <=> Unscanned(s))
  BY <1>0, RoundsStay DEF SameRounds, Typed, Send!TypeOK, Kinds
<1>2. \/ pass'.at = "list"
      \/ /\ Len(pass.todo) # 1 /\ pass'.todo = Tail(pass.todo) /\ Send!Duty' = Send!Duty
         /\ pass'.at \in {"queue", "check"} /\ (Send!Duty = "alert" => pass'.at = "check")
  <2>1. \/ pass'.at = "list"
        \/ /\ Len(pass.todo) # 1
           /\ pass' = [duty |-> pass.duty, todo |-> Tail(pass.todo),
                       at |-> Send!Entry(Send!Duty), left |-> 0]
    BY <1>0, OnwardIs
  <2>2. \/ pass'.at = "list"
        \/ /\ Len(pass.todo) # 1 /\ pass'.todo = Tail(pass.todo) /\ pass'.duty = pass.duty
           /\ pass'.at = Send!Entry(Send!Duty)
    <3> DEFINE rest == Tail(pass.todo)
               next == Send!Entry(Send!Duty)
    <3>1. \/ pass'.at = "list"
          \/ /\ Len(pass.todo) # 1
             /\ pass' = [duty |-> pass.duty, todo |-> rest, at |-> next, left |-> 0]
      BY <2>1
    <3> HIDE DEF rest, next
    <3>2. \/ pass'.at = "list"
          \/ /\ Len(pass.todo) # 1 /\ pass'.todo = rest /\ pass'.duty = pass.duty
             /\ pass'.at = next
      BY <3>1
    <3> QED
      BY <3>2 DEF rest, next
  <2>3. /\ Send!Entry(Send!Duty) \in {"queue", "check"}
        /\ Send!Duty = "alert" => Send!Entry(Send!Duty) = "check"
    BY <1>0 DEF Send!Entry
  <2> QED
    BY <2>2, <2>3 DEF Send!Duty
<1>3. \A d, s : (Marking(d, s) <=> Send!Duty = d /\ h = s) /\ ~Marking(d, s)'
  BY <1>0, <1>h, <1>2 DEF Marking
<1>4. ~(pass'.at \in {"queue", "mark"} /\ Send!Duty' = "alert")
  BY <1>0, <1>2
<1>5. CASE Send!Duty = "probe"
  <2>1. /\ scanned' = [scanned EXCEPT ![h] = now] /\ alerted' = alerted
    BY <1>h, <1>5 DEF Send!Mark
  <2>2. h \in Node /\ h = pass.todo[1].subject
    BY <1>h, <1>0, <1>5, RestListed DEF Listing, Send!This
  <2>3. ~Unscanned(h)'
    <3>1. scanned'[h] = now
      BY <1>0, <2>1, <2>2
    <3>2. ASSUME NEW i \in 1..Len(outbox) PROVE ~(now < outbox[i].t)
      <4>1. outbox[i].t \in 0..now /\ now \in Nat
        BY DEF SendInv, Queued, RowShape
      <4> QED
        BY <4>1
    <3>3. Send!Rows(<<"probe", h>>) \subseteq 1..Len(outbox)
      BY Numbers DEF Send!Rows
    <3>4. \A i \in Send!Rows(<<"probe", h>>)' : ~(scanned'[h] < outbox'[i].t)
      <4>1. Send!Rows(<<"probe", h>>)' = Send!Rows(<<"probe", h>>)
        BY <1>1
      <4> QED
        BY <1>0, <3>1, <3>2, <3>3, <4>1
    <3> QED
      BY <3>4 DEF Unscanned
  <2>4. Batched(pass.todo)
    BY <1>0, <1>5 DEF SendInv, Due
  <2>5. \A s : Probing(s)' => Probing(s) /\ s # h
    <3> TAKE s
    <3> SUFFICES ASSUME Probing(s)' PROVE Probing(s) /\ s # h
      OBVIOUS
    <3>1. /\ Len(pass.todo) # 1 /\ pass'.todo = Tail(pass.todo)
          /\ \E k \in 1..Len(pass'.todo) : pass'.todo[k].subject = s
      BY <1>2 DEF Probing
    <3> DEFINE rest == Tail(pass.todo)
    <3>2. PICK k \in 1..Len(rest) : rest[k].subject = s
      BY <3>1
    <3>3. rest[k] = pass.todo[k + 1] /\ k + 1 \in 2..Len(pass.todo) /\ Len(pass.todo) \in Nat
      BY <2>4, <3>1, RestOf
    <3>4. pass.todo[k + 1].subject # h
      BY <1>h, <2>4, <3>3, RestOf DEF Send!This
    <3>5. pass.todo[k + 1].subject = s /\ k + 1 \in 1..Len(pass.todo)
      BY <3>2, <3>3
    <3> QED
      BY <1>0, <1>5, <3>4, <3>5 DEF Probing
  <2>6. \A s \in Send!Alert : AlertOwed(s)' => AlertOwed(s) \/ <<"alert", s>> \in {}
    BY <1>1, <1>3, <1>5, <2>1 DEF AlertOwed
  <2>7. \A s \in Node : ProbeOwed(s)' => ProbeOwed(s) \/ <<"probe", s>> \in {}
    <3> TAKE s \in Node
    <3> SUFFICES ASSUME ProbeOwed(s)' PROVE ProbeOwed(s)
      OBVIOUS
    <3>1. s # h
      BY <2>3, <2>5 DEF ProbeOwed
    <3>2. scanned'[s] = scanned[s]
      BY <1>0, <2>1, <3>1
    <3>3. ~Marking("probe", s)
      BY <1>3, <3>1
    <3> QED
      BY <1>1, <2>5, <3>2, <3>3 DEF ProbeOwed
  <2>8. Debts' \subseteq Debts
    BY <2>6, <2>7, FewerDebts
  <2> QED
    BY <1>0, <1>1, <1>4, <2>8, PaidFrame
<1>6. CASE Send!Duty = "alert"
  <2>1. /\ alerted' = alerted \union {h} /\ scanned' = scanned
    BY <1>h, <1>6 DEF Send!Mark
  <2>2. \A s : ~Probing(s)'
    BY <1>2, <1>6 DEF Probing
  <2>3. \A s \in Send!Alert : AlertOwed(s)' => AlertOwed(s) \/ <<"alert", s>> \in {}
    BY <1>1, <1>3, <2>1 DEF AlertOwed
  <2>4. \A s \in Node : ProbeOwed(s)' => ProbeOwed(s) \/ <<"probe", s>> \in {}
    BY <1>1, <1>3, <1>6, <2>1, <2>2 DEF ProbeOwed
  <2>5. Debts' \subseteq Debts
    BY <2>3, <2>4, FewerDebts
  <2> QED
    BY <1>0, <1>1, <1>4, <2>5, PaidFrame
<1> QED
  BY <1>0, <1>5, <1>6

\* A row is queued: what it repeats was owed, and is not while it is being marked.
LEMMA PaidQueues ==
    ASSUME Kinds, SendInv, SendInv', Typed, Paid, Send!enqueueTx PROVE Paid'
<1>h. PICK h, n : h = Send!This.subject /\ n = Len(outbox)
  OBVIOUS
<1> DEFINE r == [by |-> Send!By, src |-> Send!This.src, t |-> now, state |-> "queued",
                 first |-> pass.left = 0]
<1>0. /\ UNCHANGED <<now, okAt, scanned, alerted, faults>> /\ PassShaped /\ pass.at = "queue"
      /\ outbox' = Append(outbox, r) /\ faults \in Nat
      /\ Listing(Send!Duty, pass.todo) /\ text \in Seq([from : Node, t : Nat])
  BY DEF Send!enqueueTx, Send!store, SendInv, Typed, Send!TypeOK, Kinds
<1>1. /\ r = [by |-> r.by, src |-> r.src, t |-> r.t, state |-> r.state, first |-> r.first]
      /\ r.t = now /\ r.state = "queued" /\ r.by = <<Send!Duty, h>>
  BY <1>h DEF Send!By
<1> HIDE DEF r
<1>2. /\ n \in Nat /\ DOMAIN outbox = 1..n /\ outbox'[n + 1] = r
      /\ DOMAIN outbox' = 1..(n + 1)
      /\ \A i \in 1..n : outbox'[i] = outbox[i]
      /\ \A by : by # r.by => Send!Rows(by)' = Send!Rows(by)
  <2>1. /\ n \in Nat /\ Len(outbox') = n + 1 /\ outbox'[n + 1] = r /\ Queued'
        /\ \A i \in 1..n : outbox'[i] = outbox[i]
        /\ \A by : by # r.by => Send!Rows(by)' = Send!Rows(by)
    BY <1>h, <1>0, <1>1, RowAdded DEF SendInv
  <2> QED
    BY <1>h, <2>1, WaitingFinite, LenProperties DEF SendInv, Queued
<1>3. ASSUME NEW d PROVE Send!TooSoon(d)' \subseteq Send!TooSoon(d) \union {n + 1}
  <2> SUFFICES ASSUME NEW CONSTANT j \in Send!TooSoon(d)', j # n + 1 PROVE j \in Send!TooSoon(d)
    OBVIOUS
  <2>1. /\ j \in 1..(n + 1) /\ outbox'[j].by[1] = d /\ outbox'[j].first
        /\ \E i \in 1..(n + 1) : /\ outbox'[i].by = outbox'[j].by /\ i < j
                                 /\ outbox'[j].t - outbox'[i].t <= Send!Gap(d)
    BY <1>2 DEF Send!TooSoon, Send!Rows, Send!Gap
  <2>2. j \in 1..n /\ outbox'[j] = outbox[j]
    BY <1>2, <2>1
  <2>3. PICK i \in 1..(n + 1) : /\ outbox'[i].by = outbox'[j].by /\ i < j
                                /\ outbox'[j].t - outbox'[i].t <= Send!Gap(d)
    BY <2>1
  <2>4. i \in 1..n /\ outbox'[i] = outbox[i]
    BY <1>2, <2>2, <2>3
  <2> QED
    BY <1>2, <2>1, <2>2, <2>3, <2>4 DEF Send!TooSoon, Send!Rows
<1>4. ASSUME NEW d, n + 1 \in Send!TooSoon(d)'
      PROVE  /\ Send!Duty = d
             /\ \E i \in Send!Rows(<<d, h>>) : now - outbox[i].t <= Send!Gap(d)
  <2>1. /\ outbox'[n + 1].by[1] = d
        /\ \E i \in 1..(n + 1) : /\ outbox'[i].by = outbox'[n + 1].by /\ i < n + 1
                                 /\ outbox'[n + 1].t - outbox'[i].t <= Send!Gap(d)
    BY <1>2, <1>4 DEF Send!TooSoon, Send!Rows, Send!Gap
  <2>2. PICK i \in 1..(n + 1) : /\ outbox'[i].by = r.by /\ i < n + 1
                                /\ now - outbox'[i].t <= Send!Gap(d)
    BY <1>1, <1>2, <2>1
  <2>3. i \in 1..n /\ outbox'[i] = outbox[i] /\ Send!Duty = d
    BY <1>1, <1>2, <2>1, <2>2
  <2> QED
    BY <1>1, <1>2, <2>2, <2>3 DEF Send!Rows
<1>5. /\ \A s : <<"alert", s>> # r.by => Send!Rows(<<"alert", s>>)' = Send!Rows(<<"alert", s>>)
      /\ \A s : <<"probe", s>> # r.by =>
           /\ Recent(s)' <=> Recent(s)
           /\ Unscanned(s)' <=> Unscanned(s)
  <2>1. ASSUME NEW s, <<"probe", s>> # r.by
        PROVE  /\ Send!Rows(<<"probe", s>>)' = Send!Rows(<<"probe", s>>)
               /\ \A i \in Send!Rows(<<"probe", s>>) : outbox'[i] = outbox[i]
    BY <1>2, <2>1 DEF Send!Rows
  <2>2. ASSUME NEW s, <<"probe", s>> # r.by PROVE Recent(s)' <=> Recent(s)
    BY <1>0, <1>2, <2>1, <2>2 DEF Recent
  <2>3. ASSUME NEW s, <<"probe", s>> # r.by PROVE Unscanned(s)' <=> Unscanned(s)
    BY <1>0, <1>2, <2>1, <2>3 DEF Unscanned
  <2>4. \A s : <<"alert", s>> # r.by => Send!Rows(<<"alert", s>>)' = Send!Rows(<<"alert", s>>)
    BY <1>2 DEF Send!Rows
  <2> QED
    BY <2>2, <2>3, <2>4
<1>6. \A d, s : ~Marking(d, s)
  BY <1>0 DEF Marking
<1>7. CASE Send!Duty \notin {"probe", "alert"}
  <2>1. n + 1 \notin Repeated'
    BY <1>4, <1>7 DEF Repeated
  <2>2. \/ pass'.at = "list"
        \/ Send!Duty' = Send!Duty
    <3>1. CASE pass' = Send!Onward
      <4>1. \/ pass'.at = "list"
            \/ pass'.duty = pass.duty
        BY <1>0, <3>1, OnwardIs
      <4> QED
        BY <4>1 DEF Send!Duty
    <3>2. CASE pass' # Send!Onward
      <4>1. pass'.duty = pass.duty
        BY <1>0, <1>7, <3>2 DEF Send!enqueueTx, Send!Following, PassShaped
      <4> QED
        BY <4>1 DEF Send!Duty
    <3> QED
      BY <3>1, <3>2
  <2>3. \A s : ~Probing(s)'
    BY <1>7, <2>2 DEF Probing
  <2>4. \A s : <<"alert", s>> # r.by /\ <<"probe", s>> # r.by
    BY <1>1, <1>7
  <2>5. \A s \in Send!Alert : AlertOwed(s)' => AlertOwed(s) \/ <<"alert", s>> \in {}
    BY <1>0, <1>5, <1>6, <2>4 DEF AlertOwed
  <2>6. \A s \in Node : ProbeOwed(s)' => ProbeOwed(s) \/ <<"probe", s>> \in {}
    BY <1>5, <1>6, <2>3, <2>4 DEF ProbeOwed
  <2>7. Debts' \subseteq Debts
    BY <2>5, <2>6, FewerDebts
  <2>8. <<"none", h>> \notin Debts
    BY DEF Debts
  <2>9. Repeated' \subseteq Repeated \union {n + 1}
    BY <1>3 DEF Repeated
  <2>10. Cardinality(Repeated') + Cardinality(Debts') <= faults'
    <3>1. Debts' \subseteq Debts \ {<<"none", h>>} /\ faults' = faults
      BY <1>0, <2>7, <2>8
    <3> QED
      BY <1>0, <2>1, <2>9, <3>1, PaidRepeats
  <2>11. ~(pass'.at \in {"queue", "mark"} /\ Send!Duty' = "alert")
    BY <1>7, <2>2
  <2> QED
    BY <2>10, <2>11 DEF Paid
<1>8. CASE Send!Duty \in {"probe", "alert"}
  <2>1. pass' = [duty |-> pass.duty, todo |-> pass.todo, at |-> "mark", left |-> pass.left]
    <3>1. pass.left = 0 /\ Send!Many = 1
      BY <1>0, <1>8 DEF PassShaped, Send!Many
    <3>2. pass' = [pass EXCEPT !.at = "mark"]
      BY <1>8, <3>1 DEF Send!enqueueTx
    <3> QED
      BY <1>0, <3>2 DEF PassShaped
  <2>2. /\ Send!Duty' = Send!Duty /\ Send!This' = Send!This /\ pass'.at = "mark"
        /\ pass'.todo = pass.todo
    BY <2>1 DEF Send!Duty, Send!This
  <2>3. \A d, s : Marking(d, s)' <=> <<d, s>> = r.by
    BY <1>h, <1>1, <2>2 DEF Marking
  <2>4. \A s : Probing(s)' => Probing(s)
    BY <1>0, <2>2 DEF Probing
  <2>5. \A s \in Send!Alert : AlertOwed(s)' => AlertOwed(s) \/ <<"alert", s>> \in {}
    BY <1>0, <1>5, <1>6, <2>3 DEF AlertOwed
  <2>6. \A s \in Node : ProbeOwed(s)' => ProbeOwed(s) \/ <<"probe", s>> \in {}
    BY <1>5, <1>6, <2>3, <2>4 DEF ProbeOwed
  <2>7. Debts' \subseteq Debts
    BY <2>5, <2>6, FewerDebts
  <2>8. r.by \notin Debts'
    <3>1. \A s : ~AlertOwed(s)' \/ <<"alert", s>> # r.by
      BY <2>3 DEF AlertOwed
    <3>2. \A s : ~ProbeOwed(s)' \/ <<"probe", s>> # r.by
      BY <2>3 DEF ProbeOwed
    <3> QED
      BY <3>1, <3>2 DEF Debts
  <2>9. Repeated' \subseteq Repeated \union {n + 1}
    BY <1>3 DEF Repeated
  <2>h. /\ Head(pass.todo) = pass.todo[1] /\ 1 \in 1..Len(pass.todo)
        /\ h = pass.todo[1].subject
    BY <1>h, <1>0, RestListed DEF Send!This
  <2>10. n + 1 \in Repeated' => r.by \in Debts
    <3> SUFFICES ASSUME n + 1 \in Repeated' PROVE r.by \in Debts
      OBVIOUS
    <3>1. CASE n + 1 \in Send!TooSoon("alert")'
      <4>1. Send!Duty = "alert" /\ Send!Rows(<<"alert", h>>) # {}
        BY <1>4, <3>1
      <4>2. h \notin alerted /\ h \in Send!Alert
        BY <1>h, <1>0, <2>h, <4>1 DEF Paid, Listing
      <4>3. AlertOwed(h)
        BY <1>6, <4>1, <4>2 DEF AlertOwed
      <4> QED
        BY <1>1, <4>1, <4>2, <4>3 DEF Debts
    <3>2. CASE n + 1 \in Send!TooSoon("probe")' /\ Reconfirm = 0
      <4>1. Send!Duty = "probe" /\ Recent(h)
        <5>1. Send!Gap("probe") = Rescan
          BY DEF Send!Gap
        <5> QED
          BY <1>4, <3>2, <5>1 DEF Recent
      <4>2. h \in Node /\ Probing(h)
        BY <1>0, <2>h, <4>1 DEF Listing, Probing
      <4>3. ProbeOwed(h)
        BY <1>6, <3>2, <4>1, <4>2 DEF ProbeOwed
      <4> QED
        BY <1>1, <4>1, <4>2, <4>3 DEF Debts
    <3> QED
      BY <3>1, <3>2 DEF Repeated
  <2>11. Cardinality(Repeated') + Cardinality(Debts') <= faults'
    <3> PICK b : b = r.by
      OBVIOUS
    <3>1. Debts' \subseteq Debts \ {b} /\ faults' = faults
      BY <1>0, <2>7, <2>8
    <3> QED
      BY <1>0, <2>9, <2>10, <3>1, PaidRepeats
  <2>12. Send!Duty' = "alert" => Send!This'.subject \notin alerted'
    BY <1>0, <2>2 DEF Paid
  <2> QED
    BY <2>11, <2>12 DEF Paid
<1> QED
  BY <1>7, <1>8

LEMMA PaidStart == ASSUME Kinds, Send!Init PROVE Paid
<1>1. /\ outbox = <<>> /\ DOMAIN outbox = {} /\ faults = 0
      /\ pass = [duty |-> 0, todo |-> <<>>, at |-> "list", left |-> 0]
  BY EmptySeq DEF Send!Init, Send!Idle
<1>2. Repeated = {}
  BY <1>1 DEF Repeated, Send!TooSoon
<1>3. Debts = {}
  BY <1>1 DEF Debts, AlertOwed, ProbeOwed, Unscanned, Recent, Send!Rows
<1>4. Cardinality(Repeated) = 0 /\ Cardinality(Debts) = 0
  BY <1>2, <1>3, FS_EmptySet
<1> QED
  BY <1>1, <1>4 DEF Paid

LEMMA PaidStep ==
    ASSUME Kinds, SendInv, SendInv', Typed, Paid, [Send!Next]_Send!vars PROVE Paid'
<1>0. PassShaped /\ (pass.duty = 0 => pass.at = "list") /\ pass.duty \in 0..7
      /\ now \in Nat /\ okAt \in [Node -> {Send!Never} \union (0..now)]
      /\ scanned \in [Node -> {Send!Never} \union (0..now)]
  <2>1. PassShaped /\ (pass.at # "list" => pass.duty \in 1..7)
    BY DEF SendInv, Typed
  <2>2. /\ pass.duty \in 0..7 /\ okAt \in [Node -> {Send!Never} \union (0..now)]
        /\ scanned \in [Node -> {Send!Never} \union (0..now)]
    BY OrderIs DEF Typed, Send!TypeOK
  <2> QED
    BY <2>1, <2>2, Numbers
<1>1. CASE Send!TickStarts
  <2>1. /\ UNCHANGED <<now, outbox, okAt, scanned, alerted, faults>> /\ pass.at = "list"
        /\ pass'.at = "list"
    BY <1>0, <1>1, NextIsList DEF Send!TickStarts, Send!store
  <2> QED
    BY <2>1, PaidTurns DEF SameRounds
<1>2. CASE Send!StatementFails
  <2>1. /\ UNCHANGED <<now, outbox, okAt, scanned, alerted>> /\ faults' = faults + 1
        /\ pass'.at = "list"
    BY <1>0, <1>2, NextIsList DEF Send!StatementFails, Send!store
  <2> QED
    BY <2>1, PaidTurns DEF SameRounds
<1>3. CASE Send!Restart
  <2>1. /\ UNCHANGED <<now, outbox, okAt, scanned, alerted>> /\ faults' = faults + 1
        /\ pass'.at = "list"
    BY <1>3 DEF Send!Restart, Send!store, Send!Idle
  <2> QED
    BY <2>1, PaidTurns DEF SameRounds
<1>4. CASE Send!TimePasses
  BY <1>4, PaidMesh DEF Send!TimePasses, Send!store, SameRounds
<1>5. ASSUME NEW n \in Node, Send!Appear(n) \/ Send!Say(n) PROVE Paid'
  <2>1. UNCHANGED <<now, outbox, okAt, scanned, alerted, pass, faults>>
    BY <1>5 DEF Send!Appear, Send!Say, Send!store
  <2> QED
    BY <2>1, PaidMesh DEF SameRounds
<1>6. ASSUME NEW n \in Node, Send!recordAdminOk(n) PROVE Paid'
  <2>1. /\ UNCHANGED <<now, outbox, alerted, pass, faults>>
        /\ okAt' = [okAt EXCEPT ![n] = now] /\ scanned' = [scanned EXCEPT ![n] = now]
    BY <1>6 DEF Send!recordAdminOk
  <2>2. ASSUME NEW s \in Node
        PROVE  \/ okAt'[s] = okAt[s] /\ scanned'[s] = scanned[s]
               \/ okAt'[s] # Send!Never
    BY <1>0, <2>1 DEF Send!Never
  <2> QED
    BY <2>1, <2>2, PaidMesh DEF SameRounds
<1>7. CASE Send!Drain
  <2>1. PICK k \in DOMAIN outbox, s \in {"held", "done"} :
           outbox' = [i \in DOMAIN outbox |-> IF i <= k /\ outbox[i].state # "done"
                                             THEN [outbox[i] EXCEPT !.state = s] ELSE outbox[i]]
    BY <1>7 DEF Send!Drain
  <2>2. UNCHANGED <<now, okAt, scanned, alerted, pass, faults>>
    BY <1>7 DEF Send!Drain, Send!store
  <2>3. \A i \in DOMAIN outbox : /\ outbox'[i].by = outbox[i].by /\ outbox'[i].t = outbox[i].t
                                 /\ outbox'[i].first = outbox[i].first
    <3> TAKE i \in DOMAIN outbox
    <3>1. RowShape(outbox[i])
      BY Numbers DEF SendInv, Queued
    <3>2. outbox'[i] = outbox[i] \/ outbox'[i] = [outbox[i] EXCEPT !.state = s]
      BY <2>1
    <3> QED
      BY <3>1, <3>2 DEF RowShape
  <2>4. DOMAIN outbox' = DOMAIN outbox
    BY <2>1
  <2> QED
    BY <2>2, <2>3, <2>4, PaidMesh DEF SameRounds
<1>8. CASE UNCHANGED Send!vars
  <2>1. UNCHANGED <<now, outbox, okAt, scanned, alerted, pass, faults>>
    BY <1>8 DEF Send!vars, Send!store
  <2> QED
    BY <2>1, PaidMesh DEF SameRounds
<1> QED
  BY <1>1, <1>2, <1>3, <1>4, <1>5, <1>6, <1>7, <1>8, PaidLists, PaidLooks, PaidQueues,
     PaidMarks DEF Send!Next, Send!Tick, Send!Mesh

LEMMA RepeatsPaid == ASSUME Kinds, SendInv, Typed, Paid PROVE Send!RepeatsNeedFaults
<1>1. /\ Cardinality(Repeated) \in Nat /\ Cardinality(Debts) \in Nat /\ faults \in Nat
      /\ Cardinality(Repeated) + Cardinality(Debts) <= faults
  BY DebtsFinite DEF Paid, Typed, Send!TypeOK, Kinds
<1>2. Cardinality(Repeated) <= faults
  BY <1>1
<1> QED
  BY <1>2, SendSizes DEF Send!RepeatsNeedFaults, Repeated

-----------------------------------------------------------------------------
(* The folds: the inductive invariant.  Hours at or below the watermark and   *)
(* too old for another reception are counted, once a re-fold has followed.    *)

\* Late receptions fall into hours that are folded again, and raw rows are kept
\* for longer than that.
Hours ==
    /\ MaxHour \in Nat /\ DayLength \in Nat \ {0} /\ LateHours \in Nat /\ RefoldHours \in Nat
    /\ RawDays \in Nat /\ HourDays \in Nat
    /\ LateHours < RefoldHours /\ LateHours + 1 <= DayLength * RawDays

\* No reception comes any more for the hour.
Closed(h) == h + LateHours < now

\* What is left of the hour is in the hourly tables.
Old(h)      == Fold!DayOf(h) < Fold!DayOf(now) - HourDays
InHourly(h) == raw[h] > 0 => hourly[h] = raw[h] \/ Old(h)
InOthers(h) == raw[h] > 0 => others[h] = raw[h]
InTables(h)  == InHourly(h) /\ InOthers(h)

Steps == {"idle", "refold", "refoldOthers", "daily", "fold", "mark", "retention", "drop",
          "dropHours"}
HoursTyped ==
    /\ now \in 0..MaxHour
    /\ raw \in [0..MaxHour -> Nat]
    /\ hourly \in [0..MaxHour -> Nat] /\ others \in [0..MaxHour -> Nat]
    /\ wmHour \in Int /\ -1 <= wmHour /\ (wmHour = -1 \/ wmHour < now)
    /\ refolded \in BOOLEAN /\ missed \in BOOLEAN
    /\ fast = [at |-> fast.at, h |-> fast.h, last |-> fast.last, n |-> fast.n]
    /\ fast.at \in {"idle", "hourly", "others", "mark"}
    /\ slow = [at |-> slow.at, x |-> slow.x, end |-> slow.end, wm |-> slow.wm]
    /\ slow.at \in Steps

\* The fast loop folds the hour after the watermark; all hours before the first one
\* with receptions are empty.
FastFolds ==
    fast.at # "idle" =>
        /\ fast.h \in 0..MaxHour /\ fast.last \in Int /\ fast.h < fast.last /\ fast.last <= now
        /\ wmHour # -1 => fast.h = wmHour + 1
        /\ wmHour = -1 => \A h \in 0..MaxHour : h < fast.h /\ Closed(h) => raw[h] = 0
        /\ fast.at \in {"others", "mark"} /\ Closed(fast.h) => InHourly(fast.h)
        /\ fast.at = "mark" /\ Closed(fast.h) => InOthers(fast.h)

\* The slow loop's re-fold goes down from the watermark it has read.
Refolds == slow.at \in {"refold", "refoldOthers"}
SlowFolds ==
    /\ Refolds => slow.x \in 0..MaxHour /\ slow.wm \in Int
    /\ slow.at = "drop" => slow.wm \in Int /\ -1 <= slow.wm /\ slow.wm <= wmHour
Redone(h) == Refolds /\ (h > slow.x \/ h > slow.wm)

\* An hour that was closed when it was last folded is counted.
CountedOnce ==
    ~missed => \A h \in 0..MaxHour : h <= wmHour =>
        /\ h + LateHours + 1 < now => InTables(h)
        /\ h + LateHours + 1 = now /\ (refolded \/ Redone(h)) => InTables(h)
        /\ h + LateHours + 1 = now /\ slow.at = "refoldOthers" /\ h = slow.x => InHourly(h)

FoldInv == HoursTyped /\ FastFolds /\ SlowFolds /\ CountedOnce

LEMMA DaysGoOn ==
    ASSUME Hours, NEW a \in Nat, NEW b \in Nat
    PROVE  /\ Fold!DayOf(a) \in Nat /\ (a <= b => Fold!DayOf(a) <= Fold!DayOf(b))
           /\ Fold!DayOf(a) < Fold!DayOf(b) => a < b
           /\ Fold!DayOf(a) < Fold!DayOf(b) - RawDays => a + LateHours + 1 < b
<1>0. DayLength \in Nat \ {0} /\ RawDays \in Nat /\ LateHours \in Nat
  BY DEF Hours
<1>1. ASSUME NEW x \in Nat
      PROVE  /\ x \div DayLength \in Nat
             /\ DayLength * (x \div DayLength) <= x /\ x < DayLength * (x \div DayLength) + DayLength
  BY <1>0
<1>2. ASSUME NEW x \in Nat, NEW y \in Nat, x <= y PROVE x \div DayLength <= y \div DayLength
  BY <1>0, <1>2
<1>3. ASSUME NEW p \in Nat, NEW q \in Nat, p < q - RawDays
      PROVE  DayLength * p + DayLength + DayLength * RawDays <= DayLength * q
  BY <1>0, <1>3
<1>4. ASSUME Fold!DayOf(a) < Fold!DayOf(b) - RawDays PROVE a + LateHours + 1 < b
  <2>1. DayLength * (a \div DayLength) + DayLength + DayLength * RawDays
          <= DayLength * (b \div DayLength)
    BY <1>1, <1>3, <1>4 DEF Fold!DayOf
  <2>2. /\ DayLength * RawDays \in Nat /\ DayLength * (a \div DayLength) \in Nat
        /\ DayLength * (b \div DayLength) \in Nat
    BY <1>0, <1>1
  <2>3. LateHours + 1 <= DayLength * RawDays
    BY DEF Hours
  <2> QED
    BY <1>0, <1>1, <2>1, <2>2, <2>3
<1>5. Fold!DayOf(a) < Fold!DayOf(b) => a < b
  <2>1. b <= a => b \div DayLength <= a \div DayLength
    BY <1>2
  <2> QED
    BY <1>1, <2>1 DEF Fold!DayOf
<1> QED
  BY <1>1, <1>2, <1>4, <1>5 DEF Fold!DayOf

LEMMA FoldStart == ASSUME Hours, Fold!Init PROVE FoldInv
<1>1. /\ now = 0 /\ raw = [h \in 0..MaxHour |-> 0]
      /\ hourly = [h \in 0..MaxHour |-> 0] /\ others = [h \in 0..MaxHour |-> 0]
      /\ wmHour = -1 /\ refolded = FALSE /\ missed = FALSE
      /\ fast = [at |-> "idle", h |-> 0, last |-> 0, n |-> 0]
      /\ slow = [at |-> "idle", x |-> 0, end |-> 0, wm |-> -1]
  BY DEF Fold!Init, Fold!Hour, Fold!None, Fold!FastIdle, Fold!SlowIdle
<1>2. HoursTyped
  <2>1. now \in 0..MaxHour /\ wmHour \in Int /\ -1 <= wmHour
    BY <1>1 DEF Hours
  <2>2. /\ raw \in [0..MaxHour -> Nat] /\ hourly \in [0..MaxHour -> Nat]
        /\ others \in [0..MaxHour -> Nat]
    BY <1>1
  <2>3. /\ fast = [at |-> fast.at, h |-> fast.h, last |-> fast.last, n |-> fast.n]
        /\ fast.at \in {"idle", "hourly", "others", "mark"}
        /\ slow = [at |-> slow.at, x |-> slow.x, end |-> slow.end, wm |-> slow.wm]
        /\ slow.at \in Steps
    BY <1>1 DEF Steps
  <2> QED
    BY <1>1, <2>1, <2>2, <2>3 DEF HoursTyped
<1>3. FastFolds /\ SlowFolds
  BY <1>1 DEF FastFolds, SlowFolds, Refolds
<1>4. CountedOnce
  BY <1>1 DEF CountedOnce
<1> QED
  BY <1>2, <1>3, <1>4 DEF FoldInv


LEMMA HoursAreNat ==
    ASSUME Hours, HoursTyped
    PROVE  /\ MaxHour \in Nat /\ LateHours \in Nat /\ RefoldHours \in Nat /\ HourDays \in Nat
           /\ now \in Nat /\ now <= MaxHour /\ now \in 0..MaxHour
           /\ wmHour \in Int /\ -1 <= wmHour /\ (wmHour = -1 \/ wmHour < now)
           /\ \A h \in 0..MaxHour : h \in Nat /\ raw[h] \in Nat
  BY DEF Hours, HoursTyped

\* What the duties do that are no part of the folds.
LEMMA FoldElsewhere ==
    ASSUME FoldInv, UNCHANGED <<now, raw, hourly, others, wmHour, refolded, missed>>,
           fast' = fast \/ fast' = Fold!FastIdle,
           \/ slow' = slow
           \/ /\ slow' = [at |-> slow'.at, x |-> slow'.x, end |-> slow'.end, wm |-> slow'.wm]
              /\ slow'.at \in Steps \ {"refold", "refoldOthers"}
              /\ slow'.at = "drop" =>
                   slow'.wm \in Int /\ -1 <= slow'.wm /\ slow'.wm <= wmHour
    PROVE  FoldInv'
<1> USE DEF FoldInv
<1>1. HoursTyped'
  BY DEF HoursTyped, Fold!FastIdle
<1>2. FastFolds'
  BY DEF FastFolds, Fold!FastIdle, Closed, InHourly, InOthers, Old
<1>3. SlowFolds'
  BY DEF SlowFolds, Refolds
<1>4. CountedOnce'
  <2>1. slow' = slow \/ ~Refolds'
    BY DEF Refolds
  <2> QED
    BY <2>1 DEF CountedOnce, Redone, Refolds, InTables, InHourly, InOthers, Old
<1> QED
  BY <1>1, <1>2, <1>3, <1>4

LEMMA ReceiveKeeps == ASSUME Hours, FoldInv, Fold!Receive PROVE FoldInv'
<1> USE DEF FoldInv
<1>1. PICK g \in 0..MaxHour :
        /\ g <= now /\ now - g <= LateHours /\ raw' = [raw EXCEPT ![g] = @ + 1]
        /\ UNCHANGED <<now, hourly, others, wmHour, fast, slow, refolded, missed>>
  BY DEF Fold!Receive, Fold!Hour, Fold!clock
<1>2. \A h \in 0..MaxHour : h + LateHours < now => raw'[h] = raw[h]
  BY <1>1 DEF HoursTyped, Hours
<1>3. HoursTyped'
  BY <1>1 DEF HoursTyped
<1>4. FastFolds'
  BY <1>1, <1>2 DEF FastFolds, HoursTyped, Hours, Closed, InHourly, InOthers, Old
<1>5. SlowFolds'
  BY <1>1 DEF SlowFolds, Refolds
<1>6. CountedOnce'
  <2> SUFFICES ASSUME ~missed, NEW h \in 0..MaxHour, h <= wmHour, h + LateHours + 1 <= now
               PROVE  /\ h + LateHours + 1 < now => InTables(h)'
                      /\ h + LateHours + 1 = now /\ (refolded \/ Redone(h)) => InTables(h)'
                      /\ h + LateHours + 1 = now /\ slow.at = "refoldOthers" /\ h = slow.x
                           => InHourly(h)'
    BY <1>1, HoursAreNat DEF CountedOnce, Redone, Refolds
  <2>1. raw'[h] = raw[h]
    BY <1>2, HoursAreNat
  <2>2. (InTables(h) => InTables(h)') /\ (InHourly(h) => InHourly(h)')
    BY <1>1, <2>1 DEF InTables, InHourly, InOthers, Old
  <2> QED
    BY <2>2 DEF CountedOnce
<1> QED
  BY <1>3, <1>4, <1>5, <1>6

\* An hour that is closed now was folded again in this one.
LEMMA HourEndsKeeps == ASSUME Hours, FoldInv, Fold!HourEnds PROVE FoldInv'
<1> USE DEF FoldInv
<1>1. /\ now < MaxHour /\ slow.at = "idle" /\ fast.at = "idle"
      /\ now' = now + 1 /\ missed' = (missed \/ ~refolded) /\ refolded' = FALSE
      /\ UNCHANGED <<raw, hourly, others, wmHour, fast, slow>>
  BY DEF Fold!HourEnds
<1>2. HoursTyped'
  <2>1. now' \in 0..MaxHour /\ (wmHour' = -1 \/ wmHour' < now')
    BY <1>1, HoursAreNat
  <2> QED
    BY <1>1, <2>1 DEF HoursTyped
<1>3. FastFolds' /\ SlowFolds'
  BY <1>1 DEF FastFolds, SlowFolds, Refolds
<1>4. ASSUME NEW h \in 0..MaxHour, InTables(h) PROVE InTables(h)'
  <2>1. Old(h) => Old(h)'
    <3>1. /\ Fold!DayOf(now) \in Int /\ Fold!DayOf(now + 1) \in Int /\ Fold!DayOf(h) \in Int
          /\ Fold!DayOf(now) <= Fold!DayOf(now + 1)
      BY HoursAreNat, DaysGoOn
    <3>2. Old(h)' = (Fold!DayOf(h) < Fold!DayOf(now + 1) - HourDays)
      BY <1>1 DEF Old, Fold!DayOf
    <3> QED
      BY <3>1, <3>2 DEF Old, Hours
  <2> QED
    BY <1>1, <1>4, <2>1 DEF InTables, InHourly, InOthers
<1>5. ASSUME ~missed, refolded, NEW h \in 0..MaxHour, h <= wmHour, h + LateHours + 1 <= now
      PROVE  InTables(h)'
  <2>1. InTables(h)
    BY <1>5, HoursAreNat DEF CountedOnce
  <2> QED
    BY <1>4, <2>1
<1>6. CountedOnce'
  <2>1. (\A h \in 0..MaxHour : ~Redone(h)') /\ slow'.at # "refoldOthers" /\ ~refolded'
    BY <1>1 DEF Redone, Refolds
  <2>2. \A h \in 0..MaxHour : h + LateHours + 1 < now' => h + LateHours + 1 <= now
    BY <1>1, HoursAreNat
  <2> QED
    BY <1>1, <1>5, <2>1, <2>2 DEF CountedOnce
<1> QED
  BY <1>2, <1>3, <1>6

\* One statement of a fold counts its hour and leaves the others as they are.
LEMMA FoldCounts ==
    ASSUME HoursTyped, NEW g \in 0..MaxHour, UNCHANGED <<now, raw>>,
           hourly' = hourly \/ hourly' = Fold!Fold(hourly, g),
           others' = others \/ others' = Fold!Fold(others, g)
    PROVE  /\ hourly' \in [0..MaxHour -> Nat] /\ others' \in [0..MaxHour -> Nat]
           /\ \A h \in 0..MaxHour : /\ InHourly(h) => InHourly(h)'
                                    /\ InOthers(h) => InOthers(h)'
           /\ hourly' = Fold!Fold(hourly, g) => InHourly(g)'
           /\ others' = Fold!Fold(others, g) => InOthers(g)'
<1>1. ASSUME NEW t \in [0..MaxHour -> Nat]
      PROVE  /\ Fold!Fold(t, g) \in [0..MaxHour -> Nat]
             /\ raw[g] > 0 => Fold!Fold(t, g)[g] = raw[g]
             /\ \A h \in 0..MaxHour : t[h] = raw[h] => Fold!Fold(t, g)[h] = raw[h]
             /\ \A h \in 0..MaxHour : h # g => Fold!Fold(t, g)[h] = t[h]
  BY DEF Fold!Fold, HoursTyped
<1>2. hourly \in [0..MaxHour -> Nat] /\ others \in [0..MaxHour -> Nat]
  BY DEF HoursTyped
<1>3. hourly' \in [0..MaxHour -> Nat] /\ others' \in [0..MaxHour -> Nat]
  BY <1>1, <1>2
<1>4. hourly' = Fold!Fold(hourly, g) => InHourly(g)'
  BY <1>1, <1>2 DEF InHourly
<1>5. others' = Fold!Fold(others, g) => InOthers(g)'
  BY <1>1, <1>2 DEF InOthers
<1>6. ASSUME NEW h \in 0..MaxHour
      PROVE  (InHourly(h) => InHourly(h)') /\ (InOthers(h) => InOthers(h)')
  <2>1. hourly[h] = raw[h] => hourly'[h] = raw[h]
    <3>1. hourly[h] = raw[h] => Fold!Fold(hourly, g)[h] = raw[h]
      BY <1>1, <1>2
    <3> QED
      BY <3>1
  <2>2. others[h] = raw[h] => others'[h] = raw[h]
    <3>1. others[h] = raw[h] => Fold!Fold(others, g)[h] = raw[h]
      BY <1>1, <1>2
    <3> QED
      BY <3>1
  <2>3. Old(h)' = Old(h)
    BY DEF Old
  <2> QED
    BY <2>1, <2>2, <2>3 DEF InHourly, InOthers
<1> QED
  BY <1>3, <1>4, <1>5, <1>6

LEMMA FastHourlyKeeps == ASSUME Hours, FoldInv, Fold!foldReceptionHour PROVE FoldInv'
<1> USE DEF FoldInv
<1>1. /\ fast.at = "hourly" /\ hourly' = Fold!Fold(hourly, fast.h)
      /\ fast' = [fast EXCEPT !.at = "others"]
      /\ UNCHANGED <<now, raw, others, wmHour, slow, refolded, missed>>
  BY DEF Fold!foldReceptionHour, Fold!clock
<1>2. fast.h \in 0..MaxHour
  BY <1>1 DEF FastFolds
<1>3. /\ hourly' \in [0..MaxHour -> Nat] /\ InHourly(fast.h)'
      /\ \A h \in 0..MaxHour : /\ InHourly(h) => InHourly(h)'
                               /\ InOthers(h) => InOthers(h)'
  BY <1>1, <1>2, FoldCounts
<1>4. fast'.at = "others" /\ fast'.h = fast.h /\ fast'.last = fast.last /\ HoursTyped'
  BY <1>1, <1>3 DEF HoursTyped
<1>5. FastFolds'
  BY <1>1, <1>3, <1>4 DEF FastFolds, Closed, InHourly, Old
<1>6. SlowFolds'
  BY <1>1 DEF SlowFolds, Refolds
<1>7. CountedOnce'
  BY <1>1, <1>3 DEF CountedOnce, InTables, Redone, Refolds
<1> QED
  BY <1>4, <1>5, <1>6, <1>7

LEMMA FastOthersKeeps == ASSUME Hours, FoldInv, Fold!foldOtherHours PROVE FoldInv'
<1> USE DEF FoldInv
<1>1. /\ fast.at = "others" /\ others' = Fold!Fold(others, fast.h)
      /\ fast' = [fast EXCEPT !.at = "mark"]
      /\ UNCHANGED <<now, raw, hourly, wmHour, slow, refolded, missed>>
  BY DEF Fold!foldOtherHours, Fold!clock
<1>2. fast.h \in 0..MaxHour
  BY <1>1 DEF FastFolds
<1>3. /\ others' \in [0..MaxHour -> Nat] /\ InOthers(fast.h)'
      /\ \A h \in 0..MaxHour : /\ InHourly(h) => InHourly(h)'
                               /\ InOthers(h) => InOthers(h)'
  BY <1>1, <1>2, FoldCounts
<1>4. fast'.at = "mark" /\ fast'.h = fast.h /\ fast'.last = fast.last /\ HoursTyped'
  BY <1>1, <1>3 DEF HoursTyped
<1>5. FastFolds'
  BY <1>1, <1>3, <1>4 DEF FastFolds, Closed, InHourly, InOthers, Old
<1>6. SlowFolds'
  BY <1>1 DEF SlowFolds, Refolds
<1>7. CountedOnce'
  BY <1>1, <1>3 DEF CountedOnce, InTables, Redone, Refolds
<1> QED
  BY <1>4, <1>5, <1>6, <1>7

LEMMA MarkKeepsHours == ASSUME Hours, FoldInv, Fold!MarkHour PROVE FoldInv'
<1> USE DEF FoldInv
<1>1. /\ fast.at = "mark" /\ wmHour' = fast.h
      /\ \/ /\ fast.h + 1 < fast.last
            /\ fast' = [fast EXCEPT !.at = "hourly", !.h = @ + 1, !.n = @ + 1]
         \/ fast' = Fold!FastIdle
      /\ UNCHANGED <<now, raw, hourly, others, slow, refolded, missed>>
  BY DEF Fold!MarkHour, Fold!clock
<1>2. /\ fast.h \in 0..MaxHour /\ fast.h \in Nat /\ fast.last \in Int
      /\ fast.h < fast.last /\ fast.last <= now
  BY <1>1 DEF FastFolds
<1>3. wmHour <= wmHour' /\ wmHour' < now
  BY <1>1, <1>2, HoursAreNat DEF FastFolds
<1>4. ASSUME NEW h \in 0..MaxHour, wmHour < h, h <= wmHour', Closed(h) PROVE InTables(h)
  <2>1. CASE h = fast.h
    BY <1>1, <1>4, <2>1 DEF FastFolds, InTables
  <2>2. CASE h < fast.h
    <3>1. wmHour = -1
      BY <1>1, <1>2, <1>4, <2>2, HoursAreNat DEF FastFolds
    <3>2. raw[h] = 0
      BY <1>1, <1>4, <2>2, <3>1 DEF FastFolds
    <3> QED
      BY <3>2 DEF InTables, InHourly, InOthers
  <2> QED
    BY <1>1, <1>2, <1>4, <2>1, <2>2, HoursAreNat
<1>5. HoursTyped'
  <2>1. wmHour' \in Int /\ -1 <= wmHour' /\ (wmHour' = -1 \/ wmHour' < now')
    BY <1>1, <1>2, <1>3
  <2>2. /\ fast' = [at |-> fast'.at, h |-> fast'.h, last |-> fast'.last, n |-> fast'.n]
        /\ fast'.at \in {"idle", "hourly", "others", "mark"}
    <3>1. fast = [at |-> fast.at, h |-> fast.h, last |-> fast.last, n |-> fast.n]
      BY DEF HoursTyped
    <3>2. CASE fast' = Fold!FastIdle
      BY <3>2 DEF Fold!FastIdle
    <3>3. CASE fast' = [fast EXCEPT !.at = "hourly", !.h = @ + 1, !.n = @ + 1]
      <4>1. fast' = [at |-> "hourly", h |-> fast.h + 1, last |-> fast.last, n |-> fast.n + 1]
        BY <3>1, <3>3
      <4> QED
        BY <4>1
    <3> QED
      BY <1>1, <3>2, <3>3
  <2> QED
    BY <1>1, <2>1, <2>2 DEF HoursTyped
<1>6. FastFolds'
  <2>1. CASE fast' = Fold!FastIdle
    BY <2>1 DEF FastFolds, Fold!FastIdle
  <2>2. CASE fast.h + 1 < fast.last /\ fast' = [fast EXCEPT !.at = "hourly", !.h = @ + 1, !.n = @ + 1]
    <3>1. fast'.at = "hourly" /\ fast'.h = fast.h + 1 /\ fast'.last = fast.last
      BY <2>2 DEF HoursTyped
    <3>2. fast.h + 1 \in 0..MaxHour
      BY <1>2, <2>2, HoursAreNat
    <3>3. wmHour' # -1
      BY <1>1, <1>2
    <3> QED
      BY <1>1, <1>2, <2>2, <3>1, <3>2, <3>3 DEF FastFolds
  <2> QED
    BY <1>1, <2>1, <2>2
<1>7. SlowFolds'
  BY <1>1, <1>2, <1>3, HoursAreNat DEF SlowFolds, Refolds
<1>8. CountedOnce'
  <2>1. \A h \in 0..MaxHour :
           /\ (InTables(h)' <=> InTables(h)) /\ (InHourly(h)' <=> InHourly(h))
           /\ (Redone(h)' <=> Redone(h))
    BY <1>1 DEF InTables, InHourly, InOthers, Old, Redone, Refolds
  <2>2. \A h \in 0..MaxHour : h + LateHours + 1 <= now => Closed(h)
    BY HoursAreNat DEF Closed
  <2>3. ASSUME ~missed, NEW h \in 0..MaxHour, h <= wmHour'
        PROVE  /\ h + LateHours + 1 < now => InTables(h)
               /\ h + LateHours + 1 = now /\ (refolded \/ Redone(h)) => InTables(h)
               /\ h + LateHours + 1 = now /\ slow.at = "refoldOthers" /\ h = slow.x
                    => InHourly(h)
    <3>1. CASE h <= wmHour
      BY <2>3, <3>1 DEF CountedOnce
    <3>2. CASE wmHour < h
      BY <1>4, <2>2, <2>3, <3>2, HoursAreNat DEF InTables
    <3> QED
      BY <3>1, <3>2, HoursAreNat
  <2> QED
    BY <1>1, <2>1, <2>3 DEF CountedOnce
<1> QED
  BY <1>5, <1>6, <1>7, <1>8

\* All hours before the first reception are empty.
LEMMA FastStartKeeps == ASSUME Hours, FoldInv, Fold!runHourlyRollups PROVE FoldInv'
<1> USE DEF FoldInv
<1> DEFINE some == {h \in 0..MaxHour : raw[h] > 0}
           g == IF wmHour # -1 THEN wmHour + 1 ELSE Fold!EarliestReceptionHour
<1>1. /\ wmHour # -1 \/ some # {}
      /\ g < now /\ fast' = [at |-> "hourly", h |-> g, last |-> now, n |-> 0]
      /\ UNCHANGED <<now, raw, hourly, others, wmHour, slow, refolded, missed>>
  BY DEF Fold!runHourlyRollups, Fold!clock, Fold!None, Fold!Hour, Fold!LastComplete
<1>2. some # {} => /\ Fold!EarliestReceptionHour \in some
                   /\ \A h \in some : Fold!EarliestReceptionHour <= h
  <2>1. some \in SUBSET Nat
    BY HoursAreNat
  <2>2. some # {} => \E x \in some : \A y \in some : x <= y
    BY <2>1, LeastNat
  <2>3. Fold!EarliestReceptionHour = CHOOSE x \in some : \A y \in some : x <= y
    BY DEF Fold!EarliestReceptionHour, Fold!Hour, Fold!Min
  <2> HIDE DEF some
  <2> QED
    BY <2>2, <2>3
<1>3. g \in 0..MaxHour /\ g \in Int
  <2>1. CASE wmHour # -1
    BY <1>1, <2>1, HoursAreNat
  <2>2. CASE wmHour = -1
    BY <1>1, <1>2, <2>2, HoursAreNat
  <2> QED
    BY <2>1, <2>2
<1>4. wmHour = -1 => \A h \in 0..MaxHour : h < g => raw[h] = 0
  <2> SUFFICES ASSUME wmHour = -1, NEW h \in 0..MaxHour, h < g, raw[h] # 0 PROVE FALSE
    OBVIOUS
  <2>1. h \in some
    BY HoursAreNat
  <2> QED
    BY <1>2, <1>3, <2>1, HoursAreNat
<1>5. fast'.at = "hourly" /\ fast'.h = g /\ fast'.last = now
  BY <1>1
<1>6. HoursTyped'
  BY <1>1 DEF HoursTyped
<1>7. FastFolds'
  <2>1. wmHour # -1 => g = wmHour + 1
    OBVIOUS
  <2> HIDE DEF g
  <2> QED
    BY <1>1, <1>3, <1>4, <1>5, <2>1, HoursAreNat DEF FastFolds
<1>8. SlowFolds'
  BY <1>1 DEF SlowFolds, Refolds
<1>9. CountedOnce'
  BY <1>1 DEF CountedOnce, InTables, InHourly, InOthers, Old, Redone, Refolds
<1> QED
  BY <1>6, <1>7, <1>8, <1>9

\* The slow loop goes on at the newest hour that is left to fold again.
LEMMA RefoldGoesOn ==
    ASSUME Hours, HoursTyped, NEW todo \in SUBSET {h \in 0..MaxHour : h < now}, NEW wm
    PROVE  /\ todo = {} => Fold!RefoldAt(todo, wm) = [at |-> "daily", x |-> 0, end |-> 0, wm |-> -1]
           /\ todo # {} => \E x \in todo :
                /\ \A h \in todo : h <= x
                /\ Fold!RefoldAt(todo, wm) = [at |-> "refold", x |-> x, end |-> 0, wm |-> wm]
<1>1. todo = {} => Fold!RefoldAt(todo, wm) = [at |-> "daily", x |-> 0, end |-> 0, wm |-> -1]
  BY DEF Fold!RefoldAt, Fold!None
<1>2. ASSUME todo # {}
      PROVE  \E x \in todo :
               /\ \A h \in todo : h <= x
               /\ Fold!RefoldAt(todo, wm) = [at |-> "refold", x |-> x, end |-> 0, wm |-> wm]
  <2>1. \E x \in todo : \A h \in todo : x >= h
    BY <1>2, LastNat, HoursAreNat
  <2>2. Fold!Max(todo) = CHOOSE x \in todo : \A h \in todo : x >= h
    BY DEF Fold!Max
  <2>3. Fold!Max(todo) \in todo /\ \A h \in todo : Fold!Max(todo) >= h
    BY <2>1, <2>2
  <2>4. \A h \in todo : h <= Fold!Max(todo)
    BY <2>3, HoursAreNat
  <2> QED
    BY <1>2, <2>3, <2>4 DEF Fold!RefoldAt
<1> QED
  BY <1>1, <1>2

\* An hour whose last receptions could still come is among those folded again.
LEMMA RefoldReaches ==
    ASSUME Hours, HoursTyped, NEW h \in 0..MaxHour, h + LateHours + 1 = now,
           NEW wm \in Int, h <= wm
    PROVE  h \in Fold!RefoldSet(wm)
<1>1. LateHours < RefoldHours
  BY DEF Hours
<1>2. h < now /\ h >= now - RefoldHours
  BY <1>1, HoursAreNat
<1> QED
  BY <1>2 DEF Fold!RefoldSet, Fold!Hour

LEMMA RefoldStartKeeps == ASSUME Hours, FoldInv, Fold!SlowStarts PROVE FoldInv'
<1> USE DEF FoldInv
<1> DEFINE todo == Fold!RefoldSet(wmHour)
<1>1. /\ slow.at = "idle" /\ slow' = Fold!RefoldAt(todo, wmHour) /\ refolded' = (todo = {})
      /\ UNCHANGED <<now, raw, hourly, others, wmHour, fast, missed>>
  BY DEF Fold!SlowStarts
<1>2. /\ todo \in SUBSET {h \in 0..MaxHour : h < now}
      /\ \A h \in 0..MaxHour : h <= wmHour /\ h + LateHours + 1 = now => h \in todo
  BY RefoldReaches, HoursAreNat DEF Fold!RefoldSet, Fold!Hour
<1> HIDE DEF todo
<1>3. ASSUME todo = {} PROVE FoldInv'
  <2>1. slow' = [at |-> "daily", x |-> 0, end |-> 0, wm |-> -1]
    BY <1>1, <1>2, <1>3, RefoldGoesOn
  <2>2. HoursTyped'
    BY <1>1, <2>1 DEF HoursTyped, Steps
  <2>3. FastFolds' /\ SlowFolds'
    BY <1>1, <2>1 DEF FastFolds, SlowFolds, Refolds, Closed, InHourly, InOthers, Old
  <2>4. CountedOnce'
    BY <1>1, <1>2, <1>3, <2>1 DEF CountedOnce, InTables, InHourly, InOthers, Old, Redone, Refolds
  <2> QED
    BY <2>2, <2>3, <2>4
<1>4. ASSUME todo # {} PROVE FoldInv'
  <2>1. PICK x \in todo : /\ \A h \in todo : h <= x
                          /\ slow' = [at |-> "refold", x |-> x, end |-> 0, wm |-> wmHour]
    BY <1>1, <1>2, <1>4, RefoldGoesOn
  <2>2. HoursTyped'
    BY <1>1, <2>1 DEF HoursTyped, Steps
  <2>3. FastFolds' /\ SlowFolds'
    BY <1>1, <1>2, <2>1, HoursAreNat
    DEF FastFolds, SlowFolds, Refolds, Closed, InHourly, InOthers, Old
  <2>4. \A h \in 0..MaxHour : h <= wmHour /\ h + LateHours + 1 = now => ~Redone(h)'
    BY <1>1, <1>2, <2>1, HoursAreNat DEF Redone
  <2>5. slow'.at = "refold" /\ ~refolded'
    <3>1. slow'.at = "refold"
      BY <2>1
    <3>2. ~refolded'
      BY <1>1, <1>4, Zenon
    <3> QED
      BY <3>1, <3>2
  <2>6. \A h \in 0..MaxHour : InTables(h) => InTables(h)'
    BY <1>1 DEF InTables, InHourly, InOthers, Old
  <2>7. CountedOnce'
    BY <1>1, <2>4, <2>5, <2>6 DEF CountedOnce
  <2> QED
    BY <2>2, <2>3, <2>7
<1> QED
  BY <1>3, <1>4

LEMMA RefoldKeeps == ASSUME Hours, FoldInv, Fold!RefoldReceptions PROVE FoldInv'
<1> USE DEF FoldInv
<1>1. /\ slow.at = "refold" /\ hourly' = Fold!Fold(hourly, slow.x)
      /\ slow' = [slow EXCEPT !.at = "refoldOthers"]
      /\ UNCHANGED <<now, raw, others, wmHour, fast, refolded, missed>>
  BY DEF Fold!RefoldReceptions, Fold!clock
<1>2. slow.x \in 0..MaxHour
  BY <1>1 DEF SlowFolds, Refolds
<1>3. /\ hourly' \in [0..MaxHour -> Nat] /\ InHourly(slow.x)'
      /\ \A h \in 0..MaxHour : /\ InHourly(h) => InHourly(h)'
                               /\ InOthers(h) => InOthers(h)'
  BY <1>1, <1>2, FoldCounts
<1>4. slow'.at = "refoldOthers" /\ slow'.x = slow.x /\ slow'.wm = slow.wm /\ HoursTyped'
  BY <1>1, <1>3 DEF HoursTyped, Steps
<1>5. FastFolds'
  BY <1>1, <1>3 DEF FastFolds, Closed
<1>6. SlowFolds'
  BY <1>1, <1>4 DEF SlowFolds, Refolds
<1>7. CountedOnce'
  BY <1>1, <1>3, <1>4 DEF CountedOnce, InTables, Redone, Refolds
<1> QED
  BY <1>4, <1>5, <1>6, <1>7

\* After the last of them every hour that is closed now has been folded again.
LEMMA RefoldNextKeeps == ASSUME Hours, FoldInv, Fold!RefoldOthers PROVE FoldInv'
<1> USE DEF FoldInv
<1>0. slow.at = "refoldOthers"
  BY DEF Fold!RefoldOthers
<1>2. slow.x \in 0..MaxHour /\ slow.x \in Nat /\ slow.wm \in Int
  BY <1>0 DEF SlowFolds, Refolds
<1> PICK s \in 0..MaxHour, wm \in Int : s = slow.x /\ wm = slow.wm
  BY <1>2
<1> PICK todo : todo = Fold!RefoldFrom(s - 1)
  OBVIOUS
<1>1. /\ others' = Fold!Fold(others, s)
      /\ slow' = Fold!RefoldAt(todo, wm) /\ refolded' = (todo = {})
      /\ UNCHANGED <<now, raw, hourly, wmHour, fast, missed>>
  BY DEF Fold!RefoldOthers
<1>3. /\ others' \in [0..MaxHour -> Nat] /\ InOthers(s)'
      /\ \A h \in 0..MaxHour : /\ InHourly(h) => InHourly(h)'
                               /\ InOthers(h) => InOthers(h)'
  BY <1>1, <1>2, FoldCounts
<1>4. /\ todo \in SUBSET {h \in 0..MaxHour : h < now}
      /\ \A h \in todo : h < s
      /\ \A h \in 0..MaxHour :
           h <= wm /\ h < s /\ h + LateHours + 1 = now => h \in todo
  <2>1. todo = {h \in Fold!RefoldSet(wm) : h <= s - 1}
    BY DEF Fold!RefoldFrom
  <2>2. \A h \in Fold!RefoldSet(wm) : h \in 0..MaxHour /\ h < now
    BY DEF Fold!RefoldSet, Fold!Hour
  <2>3. \A h \in 0..MaxHour : h <= wm /\ h + LateHours + 1 = now => h \in Fold!RefoldSet(wm)
    BY RefoldReaches
  <2>4. \A h \in 0..MaxHour : h < s <=> h <= s - 1
    BY <1>2
  <2> QED
    BY <2>1, <2>2, <2>3, <2>4
<1>5. ASSUME ~missed, NEW h \in 0..MaxHour, h <= wmHour, h + LateHours + 1 = now, h \notin todo
      PROVE  InTables(h)'
  <2>1. CASE h = s
    BY <1>0, <1>3, <1>5, <2>1 DEF CountedOnce, InTables
  <2>2. CASE h > s \/ h > wm
    <3>1. Redone(h)
      BY <1>0, <2>2 DEF Redone, Refolds
    <3> QED
      BY <1>3, <1>5, <3>1 DEF CountedOnce, InTables
  <2> QED
    BY <1>2, <1>4, <1>5, <2>1, <2>2, HoursAreNat
<1>6. ASSUME NEW h \in 0..MaxHour, InTables(h) PROVE InTables(h)'
  BY <1>3, <1>6 DEF InTables
<1>7. FastFolds'
  BY <1>1, <1>3 DEF FastFolds, Closed
<1>8. ASSUME todo = {} PROVE FoldInv'
  <2>1. slow' = [at |-> "daily", x |-> 0, end |-> 0, wm |-> -1]
    BY <1>1, <1>4, <1>8, RefoldGoesOn
  <2>2. HoursTyped'
    BY <1>1, <1>3, <2>1 DEF HoursTyped, Steps
  <2>3. SlowFolds'
    BY <2>1 DEF SlowFolds, Refolds
  <2>4. CountedOnce'
    BY <1>1, <1>5, <1>6, <1>8, <2>1 DEF CountedOnce
  <2> QED
    BY <1>7, <2>2, <2>3, <2>4
<1>9. ASSUME todo # {} PROVE FoldInv'
  <2>1. PICK x \in todo : /\ \A h \in todo : h <= x
                          /\ slow' = [at |-> "refold", x |-> x, end |-> 0, wm |-> wm]
    BY <1>1, <1>4, <1>9, RefoldGoesOn
  <2>2. HoursTyped'
    BY <1>1, <1>3, <2>1 DEF HoursTyped, Steps
  <2>3. SlowFolds'
    BY <1>2, <1>4, <2>1 DEF SlowFolds, Refolds
  <2>4. \A h \in 0..MaxHour : Redone(h)' /\ h \in todo => h > wm
    BY <1>4, <2>1, HoursAreNat DEF Redone
  <2>5. \A h \in todo : h <= wm
    BY DEF Fold!RefoldFrom, Fold!RefoldSet
  <2>6. \A h \in 0..MaxHour : Redone(h)' => h \notin todo
    BY <1>2, <2>4, <2>5, HoursAreNat
  <2>7. slow'.at = "refold" /\ ~refolded'
    <3>1. slow'.at = "refold"
      BY <2>1
    <3>2. ~refolded'
      BY <1>1, <1>9, Zenon
    <3> QED
      BY <3>1, <3>2
  <2>8. CountedOnce'
    BY <1>1, <1>5, <1>6, <2>6, <2>7 DEF CountedOnce
  <2> QED
    BY <1>7, <2>2, <2>3, <2>8
<1> QED
  BY <1>8, <1>9

\* Days and the retention that follows; cut off or not.
LEMMA OtherDutiesKeep ==
    ASSUME Hours, FoldInv,
           \/ Fold!runDailyRollups \/ Fold!foldReceptionDay \/ Fold!MarkDay \/ Fold!readHoldBack
           \/ Fold!FastFails \/ Fold!SlowFails \/ Fold!Restart \/ Fold!Done
    PROVE  FoldInv'
<1>1. /\ slow = [at |-> slow.at, x |-> slow.x, end |-> slow.end, wm |-> slow.wm]
      /\ slow.at \in Steps
  BY DEF FoldInv, HoursTyped
<1>2. ASSUME NEW x, NEW e, NEW w, NEW s,
             s \in {"idle", "daily", "fold", "mark", "retention", "dropHours"},
             UNCHANGED <<now, raw, hourly, others, wmHour, refolded, missed>>,
             fast' = fast \/ fast' = Fold!FastIdle,
             slow' = [at |-> s, x |-> x, end |-> e, wm |-> w]
      PROVE  FoldInv'
  BY <1>2, FoldElsewhere DEF Steps
<1>3. ASSUME NEW w \in Int, -1 <= w, w <= wmHour,
             UNCHANGED <<now, raw, hourly, others, wmHour, refolded, missed>>,
             fast' = fast,
             slow' = [at |-> "drop", x |-> 0, end |-> 0, wm |-> w]
      PROVE  FoldInv'
  BY <1>3, FoldElsewhere DEF Steps
<1>4. -1 \in Int /\ -1 <= -1 /\ -1 <= wmHour /\ wmHour \in Int /\ wmHour <= wmHour
  BY HoursAreNat DEF FoldInv
<1>5. CASE Fold!runDailyRollups
  <2>1. \/ \E x, e : slow' = [at |-> "fold", x |-> x, end |-> e, wm |-> -1]
        \/ slow' = [at |-> "retention", x |-> 0, end |-> 0, wm |-> -1]
    BY <1>5 DEF Fold!runDailyRollups, Fold!SlowIdle, Fold!None
  <2> QED
    BY <1>2, <1>5, <2>1 DEF Fold!runDailyRollups, Fold!clock
<1>6. CASE Fold!foldReceptionDay
  <2>1. slow' = [at |-> "mark", x |-> slow.x, end |-> slow.end, wm |-> slow.wm]
    BY <1>1, <1>6 DEF Fold!foldReceptionDay
  <2> QED
    BY <1>2, <1>6, <2>1 DEF Fold!foldReceptionDay, Fold!clock
<1>7. CASE Fold!MarkDay
  <2>1. \/ slow' = [at |-> "fold", x |-> slow.x + 1, end |-> slow.end, wm |-> slow.wm]
        \/ slow' = [at |-> "retention", x |-> 0, end |-> 0, wm |-> -1]
    BY <1>1, <1>7 DEF Fold!MarkDay, Fold!SlowIdle, Fold!None
  <2> QED
    BY <1>2, <1>7, <2>1 DEF Fold!MarkDay, Fold!clock
<1>8. CASE Fold!readHoldBack
  <2>1. slow' = [at |-> "drop", x |-> 0, end |-> 0, wm |-> wmHour]
    BY <1>8 DEF Fold!readHoldBack, Fold!SlowIdle
  <2> QED
    BY <1>3, <1>4, <1>8, <2>1 DEF Fold!readHoldBack, Fold!clock
<1>9. CASE Fold!FastFails
  BY <1>9, FoldElsewhere DEF Fold!FastFails, Fold!clock
<1>10. CASE Fold!SlowFails
  <2>1. \/ slow' = [at |-> "drop", x |-> 0, end |-> 0, wm |-> -1]
        \/ \E s \in {"idle", "daily", "retention", "dropHours"} :
             slow' = [at |-> s, x |-> 0, end |-> 0, wm |-> -1]
    BY <1>1, <1>10 DEF Fold!SlowFails, Fold!SlowIdle, Fold!None, Steps
  <2> QED
    BY <1>2, <1>3, <1>4, <1>10, <2>1 DEF Fold!SlowFails, Fold!clock
<1>11. CASE Fold!Restart
  <2>1. slow' = [at |-> "retention", x |-> 0, end |-> 0, wm |-> -1]
    BY <1>11 DEF Fold!Restart, Fold!SlowIdle, Fold!None
  <2> QED
    BY <1>2, <1>11, <2>1 DEF Fold!Restart, Fold!clock
<1>12. CASE Fold!Done
  BY <1>12, FoldElsewhere DEF Fold!Done, Fold!vars, Fold!clock
<1> QED
  BY <1>5, <1>6, <1>7, <1>8, <1>9, <1>10, <1>11, <1>12

LEMMA DropKeeps == ASSUME Hours, FoldInv, Fold!DropReceptions PROVE FoldInv'
<1> USE DEF FoldInv
<1>1. /\ raw' \in [0..MaxHour -> Nat] /\ \A h \in 0..MaxHour : raw'[h] = raw[h] \/ raw'[h] = 0
      /\ slow' = [at |-> "dropHours", x |-> 0, end |-> 0, wm |-> -1]
      /\ UNCHANGED <<now, hourly, others, wmHour, fast, refolded, missed>>
  BY DEF Fold!DropReceptions, Fold!clock, Fold!Hour, Fold!SlowIdle, Fold!None, HoursTyped
<1>2. \A h \in 0..MaxHour : /\ InHourly(h) => InHourly(h)'
                            /\ InOthers(h) => InOthers(h)'
  BY <1>1 DEF InHourly, InOthers, Old
<1>3. HoursTyped'
  BY <1>1 DEF HoursTyped, Steps
<1>4. SlowFolds'
  BY <1>1 DEF SlowFolds, Refolds
<1>5. FastFolds'
  BY <1>1, <1>2, HoursAreNat DEF FastFolds, Closed
<1>6. CountedOnce'
  BY <1>1, <1>2 DEF CountedOnce, InTables, Redone, Refolds
<1> QED
  BY <1>3, <1>4, <1>5, <1>6

LEMMA DropHoursKeeps == ASSUME Hours, FoldInv, Fold!DropReceptionHours PROVE FoldInv'
<1> USE DEF FoldInv
<1>1. /\ hourly' \in [0..MaxHour -> Nat]
      /\ \A h \in 0..MaxHour : hourly'[h] = hourly[h] \/ Old(h)
      /\ slow' = [at |-> "idle", x |-> 0, end |-> 0, wm |-> -1]
      /\ UNCHANGED <<now, raw, others, wmHour, fast, refolded, missed>>
  BY DEF Fold!DropReceptionHours, Fold!clock, Fold!Hour, Fold!SlowIdle, Fold!None, HoursTyped,
         Fold!Expired, Old
<1>2. \A h \in 0..MaxHour : /\ InHourly(h) => InHourly(h)'
                            /\ InOthers(h) => InOthers(h)'
  BY <1>1 DEF InHourly, InOthers, Old
<1>3. HoursTyped'
  BY <1>1 DEF HoursTyped, Steps
<1>4. SlowFolds'
  BY <1>1 DEF SlowFolds, Refolds
<1>5. FastFolds'
  BY <1>1, <1>2 DEF FastFolds, Closed
<1>6. CountedOnce'
  BY <1>1, <1>2 DEF CountedOnce, InTables, Redone, Refolds
<1> QED
  BY <1>3, <1>4, <1>5, <1>6

LEMMA FoldKept == ASSUME Hours, FoldInv, [Fold!Next]_Fold!vars PROVE FoldInv'
<1>1. CASE UNCHANGED Fold!vars
  BY <1>1, FoldElsewhere DEF Fold!vars, Fold!clock
<1>2. CASE Fold!Next
  BY <1>2, ReceiveKeeps, HourEndsKeeps, FastHourlyKeeps, FastOthersKeeps, MarkKeepsHours,
     FastStartKeeps, RefoldStartKeeps, RefoldKeeps, RefoldNextKeeps, OtherDutiesKeep, DropKeeps,
     DropHoursKeeps DEF Fold!Next, Fold!FastStep, Fold!SlowStep
<1> QED
  BY <1>1, <1>2

\* Only the retention takes receptions away, of hours that no reception comes for
\* any more and that the fold is past.
LEMMA DropsCounted == ASSUME Hours, FoldInv, [Fold!Next]_Fold!vars PROVE Fold!DropIsCounted
<1> SUFFICES ASSUME NEW h \in 0..MaxHour, raw'[h] < raw[h], ~missed
             PROVE  /\ others[h] = raw[h]
                    /\ hourly[h] = raw[h] \/ h \in Fold!Expired(HourDays, Fold!DayOf(now))
  BY DEF Fold!DropIsCounted, Fold!Hour
<1> USE DEF FoldInv
<1>1. raw[h] \in Nat /\ h \in Nat /\ now \in Nat /\ wmHour \in Int /\ MaxHour \in Nat
  BY HoursAreNat
<1>2. raw' # raw
  BY <1>1
<1>3. Fold!DropReceptions
  <2>1. ~Fold!Receive
    <3>1. ASSUME NEW g \in 0..MaxHour, raw' = [raw EXCEPT ![g] = @ + 1]
          PROVE  ~(raw'[h] < raw[h])
      BY <1>1, <3>1 DEF HoursTyped
    <3> QED
      BY <1>1, <3>1 DEF Fold!Receive, Fold!Hour
  <2>2. /\ ~Fold!HourEnds /\ ~Fold!FastStep /\ ~Fold!FastFails /\ ~Fold!SlowFails
        /\ ~Fold!Restart /\ ~Fold!Done /\ ~(UNCHANGED Fold!vars)
    BY <1>2 DEF Fold!HourEnds, Fold!FastStep, Fold!FastFails, Fold!SlowFails, Fold!Restart, Fold!Done,
       Fold!vars, Fold!runHourlyRollups, Fold!foldReceptionHour, Fold!foldOtherHours, Fold!MarkHour
  <2>3. /\ ~Fold!SlowStarts /\ ~Fold!RefoldReceptions /\ ~Fold!RefoldOthers
        /\ ~Fold!runDailyRollups /\ ~Fold!foldReceptionDay /\ ~Fold!MarkDay
        /\ ~Fold!readHoldBack /\ ~Fold!DropReceptionHours
    BY <1>2 DEF Fold!SlowStarts, Fold!RefoldReceptions, Fold!RefoldOthers, Fold!runDailyRollups,
       Fold!foldReceptionDay, Fold!MarkDay, Fold!readHoldBack, Fold!DropReceptionHours
  <2> QED
    BY <2>1, <2>2, <2>3 DEF Fold!Next, Fold!SlowStep
<1>4. h \in Fold!Expired(RawDays, Fold!HoldBack(slow.wm)) /\ slow.at = "drop"
  BY <1>1, <1>3 DEF Fold!DropReceptions, Fold!Hour
<1>5. slow.wm \in Int /\ -1 <= slow.wm /\ slow.wm <= wmHour
  BY <1>4 DEF SlowFolds
<1>6. Fold!DayOf(h) < Fold!DayOf(now) - RawDays /\ Fold!DayOf(h) < Fold!HoldBack(slow.wm)
  BY <1>4 DEF Fold!Expired
<1>7. h < slow.wm
  <2>1. Fold!DayOf(h) \in Nat
    BY <1>1, DaysGoOn
  <2>2. slow.wm # -1 /\ Fold!DayOf(h) < Fold!DayOf(slow.wm)
    BY <1>6, <2>1 DEF Fold!HoldBack, Fold!None
  <2>3. slow.wm \in Nat
    BY <1>5, <2>2
  <2> QED
    BY <1>1, <2>2, <2>3, DaysGoOn
<1>8. InTables(h)
  <2>1. h + LateHours + 1 < now
    BY <1>1, <1>6, DaysGoOn
  <2>2. h <= wmHour
    BY <1>1, <1>5, <1>7
  <2> QED
    BY <2>1, <2>2 DEF CountedOnce
<1>9. raw[h] > 0
  <2>1. raw'[h] \in Nat
    BY <1>1, <1>3 DEF Fold!DropReceptions, Fold!Hour
  <2> QED
    BY <1>1, <2>1
<1>10. Old(h) => h \in Fold!Expired(HourDays, Fold!DayOf(now))
  <2>1. Fold!DayOf(h) \in Nat /\ Fold!DayOf(now) \in Nat /\ HourDays \in Nat
    BY <1>1, DaysGoOn DEF Hours
  <2> QED
    BY <2>1 DEF Old, Fold!Expired, Fold!Hour
<1> QED
  BY <1>8, <1>9, <1>10 DEF InTables, InHourly, InOthers

-----------------------------------------------------------------------------
(* The folds: types, and the days that the daily fold has left behind.       *)

\* Late hours are folded again for a day at most (refold_hours, by default 6).
RefoldsWithinADay == RefoldHours <= DayLength

\* What TypeOK asks of the other constants.
FoldLimits ==
    /\ Hours /\ RefoldsWithinADay
    /\ MaxReceptions \in Nat /\ MaxFaults \in Nat /\ MAX_HOURS_PER_RUN \in Nat \ {0}

\* The receptions there are, or were when their hour was folded.
Receptions ==
    UNION {{h} \X ((1..raw[h]) \union (1..hourly[h])) : h \in 0..MaxHour}

Tables ==
    /\ \A h \in 0..MaxHour : raw[h] <= arrived /\ hourly[h] <= arrived /\ others[h] <= arrived
    /\ IsFiniteSet(Receptions) /\ Cardinality(Receptions) <= arrived
    /\ daily \in [Fold!Day -> 0..MaxReceptions]

Places ==
    /\ arrived \in 0..MaxReceptions /\ faults \in 0..MaxFaults /\ ahead \in BOOLEAN
    /\ fast.h \in 0..MaxHour /\ fast.last \in 0..MaxHour /\ fast.n \in 0..(MAX_HOURS_PER_RUN - 1)
    /\ slow.x \in Int /\ slow.end \in Int /\ slow.wm \in (0..MaxHour) \union {-1}

FoldTyped == Tables /\ Places

\* The daily fold goes up from the watermark to yesterday.
DayFolds ==
    /\ wmDay \in Int /\ -1 <= wmDay /\ (wmDay = -1 \/ wmDay < Fold!DayOf(now))
    /\ Refolds => now - RefoldHours <= slow.x
    /\ slow.at \in {"fold", "mark"} =>
         /\ slow.x \in Nat /\ slow.x < slow.end /\ slow.end <= Fold!DayOf(now)
         /\ wmDay <= slow.x

\* The fold, or its watermark, has passed the day.
LeftBehind(d) ==
    \/ d < wmDay
    \/ slow.at \in {"fold", "mark"} /\ d < slow.x
    \/ slow.at = "mark" /\ d = slow.x /\ slow.x + 1 < slow.end

\* Its hours change no more: they are too old for another reception, and folded or
\* empty.
Settled(d) ==
    /\ Fold!AddedUp(d) /\ d + 2 <= Fold!DayOf(now)
    /\ \A h \in Fold!HoursOf(d) : h <= wmHour \/ raw[h] = 0
DaysSettled == ~ahead => \A d \in Fold!Day : LeftBehind(d) => Settled(d)

DayInv == FoldTyped /\ DayFolds /\ DaysSettled

LEMMA FoldSizes == \A S : Fold!Cardinality(S) = Cardinality(S)
  BY DEF Fold!Cardinality, Cardinality

\* The number of receptions in the hours of a day depends on those hours alone.
LEMMA SameSum ==
    ASSUME NEW d, \A h \in Fold!HoursOf(d) : hourly'[h] = hourly[h]
    PROVE  Fold!DaySum(d)' = Fold!DaySum(d)
<1>1. {{h} \X (1..hourly'[h]) : h \in Fold!HoursOf(d)}
        = {{h} \X (1..hourly[h]) : h \in Fold!HoursOf(d)}
  OBVIOUS
<1>2. Fold!HoursOf(d)' = Fold!HoursOf(d)
  BY DEF Fold!HoursOf, Fold!Hour, Fold!DayOf
<1>3. \A S : Fold!Cardinality(S)' = Fold!Cardinality(S)
  BY DEF Fold!Cardinality
<1> QED
  BY <1>1, <1>2, <1>3, FoldSizes DEF Fold!DaySum

LEMMA EmptySum ==
    ASSUME NEW d, \A h \in Fold!HoursOf(d) : hourly[h] = 0
    PROVE  Fold!DaySum(d) = 0
<1>1. \A h \in Fold!HoursOf(d) : {h} \X (1..hourly[h]) = {}
  OBVIOUS
<1>2. UNION {{h} \X (1..hourly[h]) : h \in Fold!HoursOf(d)} = {}
  BY <1>1
<1> QED
  BY <1>2, FS_EmptySet, FoldSizes DEF Fold!DaySum

\* No day has more of them than there are.
LEMMA SumBounded ==
    ASSUME MaxReceptions \in Nat, FoldTyped, NEW d
    PROVE  Fold!DaySum(d) \in 0..MaxReceptions
<1> DEFINE own == UNION {{h} \X (1..hourly[h]) : h \in Fold!HoursOf(d)}
<1>1. own \subseteq Receptions
  <2> SUFFICES ASSUME NEW h \in Fold!HoursOf(d) PROVE {h} \X (1..hourly[h]) \subseteq Receptions
    OBVIOUS
  <2>1. h \in 0..MaxHour
    BY DEF Fold!HoursOf, Fold!Hour
  <2>2. {h} \X (1..hourly[h]) \subseteq {h} \X ((1..raw[h]) \union (1..hourly[h]))
    OBVIOUS
  <2> QED
    BY <2>1, <2>2 DEF Receptions
<1> HIDE DEF own
<1>2. IsFiniteSet(own) /\ Cardinality(own) <= Cardinality(Receptions)
  BY <1>1, FS_Subset DEF FoldTyped, Tables, Places
<1>3. Cardinality(own) \in Nat /\ Cardinality(Receptions) \in Nat
  BY <1>2, FS_CardinalityType DEF FoldTyped, Tables, Places
<1>4. Cardinality(own) \in 0..MaxReceptions
  BY <1>2, <1>3 DEF FoldTyped, Tables, Places
<1> QED
  BY <1>4, FoldSizes DEF Fold!DaySum, own

\* Two days further on, more than a day has gone by.
LEMMA DaysApart ==
    ASSUME Hours, NEW a \in Nat, NEW b \in Nat, Fold!DayOf(a) + 2 <= Fold!DayOf(b)
    PROVE  a + DayLength < b
<1>0. DayLength \in Nat \ {0}
  BY DEF Hours
<1>1. ASSUME NEW x \in Nat
      PROVE  /\ x \div DayLength \in Nat /\ DayLength * (x \div DayLength) \in Nat
             /\ DayLength * (x \div DayLength) <= x /\ x < DayLength * (x \div DayLength) + DayLength
  BY <1>0
<1>2. ASSUME NEW p \in Nat, NEW q \in Nat, p + 2 <= q
      PROVE  DayLength * p + DayLength + DayLength <= DayLength * q
  BY <1>0, <1>2
<1>3. DayLength * (a \div DayLength) + DayLength + DayLength <= DayLength * (b \div DayLength)
  BY <1>1, <1>2 DEF Fold!DayOf
<1> QED
  BY <1>0, <1>1, <1>3

\* Receptions are only ever forgotten, except when one comes in.
LEMMA FewerReceptions ==
    ASSUME FoldTyped,
           \A h \in 0..MaxHour : /\ raw'[h] = raw[h] \/ raw'[h] = 0
                                 /\ hourly'[h] = hourly[h] \/ hourly'[h] = raw[h] \/ hourly'[h] = 0
    PROVE  IsFiniteSet(Receptions') /\ Cardinality(Receptions') <= arrived
<1>1. Receptions' \subseteq Receptions
  <2> SUFFICES ASSUME NEW h \in 0..MaxHour
               PROVE  {h} \X ((1..raw'[h]) \union (1..hourly'[h])) \subseteq Receptions
    BY DEF Receptions
  <2>1. (1..raw'[h]) \union (1..hourly'[h]) \subseteq (1..raw[h]) \union (1..hourly[h])
    <3>1. 1..0 = {}
      OBVIOUS
    <3> QED
      BY <3>1
  <2>2. {h} \X ((1..raw'[h]) \union (1..hourly'[h]))
          \subseteq {h} \X ((1..raw[h]) \union (1..hourly[h]))
    BY <2>1
  <2> QED
    BY <2>2 DEF Receptions
<1>2. IsFiniteSet(Receptions') /\ Cardinality(Receptions') <= Cardinality(Receptions)
  BY <1>1, FS_Subset DEF FoldTyped, Tables, Places
<1>3. Cardinality(Receptions') \in Nat /\ Cardinality(Receptions) \in Nat
  BY <1>2, FS_CardinalityType DEF FoldTyped, Tables, Places
<1> QED
  BY <1>2, <1>3 DEF FoldTyped, Tables, Places

\* A settled day stays so: its hours are kept, or all go together.
LEMMA SettledStays ==
    ASSUME FoldLimits, HoursTyped, NEW d \in Fold!Day, Settled(d), Fold!DayOf(now) <= Fold!DayOf(now'),
           Fold!DayOf(now) \in Int, Fold!DayOf(now') \in Int, d \in Int,
           daily'[d] = daily[d], wmHour \in Int, wmHour' \in Int, wmHour <= wmHour',
           \/ \A h \in Fold!HoursOf(d) : hourly'[h] = hourly[h]
           \/ \A h \in Fold!HoursOf(d) : hourly'[h] = 0,
           \A h \in Fold!HoursOf(d) : raw'[h] = raw[h] \/ raw'[h] = 0
    PROVE  Settled(d)'
<1>1. Fold!AddedUp(d)'
  <2>1. CASE \A h \in Fold!HoursOf(d) : hourly'[h] = hourly[h]
    BY <2>1, SameSum DEF Settled, Fold!AddedUp
  <2>2. CASE \A h \in Fold!HoursOf(d) : hourly'[h] = 0
    <3>1. Fold!HoursOf(d)' = Fold!HoursOf(d)
      BY DEF Fold!HoursOf, Fold!Hour, Fold!DayOf
    <3>2. Fold!DaySum(d)' = 0
      <4>1. \A h \in Fold!HoursOf(d) : {h} \X (1..hourly'[h]) = {}
        BY <2>2
      <4>2. UNION {{h} \X (1..hourly'[h]) : h \in Fold!HoursOf(d)} = {}
        BY <4>1
      <4>3. \A S : Fold!Cardinality(S)' = Cardinality(S)
        BY DEF Fold!Cardinality, Cardinality
      <4> QED
        BY <3>1, <4>2, <4>3, FS_EmptySet DEF Fold!DaySum
    <3> QED
      BY <3>2 DEF Fold!AddedUp
  <2> QED
    BY <2>1, <2>2
<1>2. \A h \in Fold!HoursOf(d) : h \in Int /\ (h <= wmHour' \/ raw'[h] = 0)
  <2> TAKE h \in Fold!HoursOf(d)
  <2>1. h \in Int
    BY DEF Fold!HoursOf, Fold!Hour, FoldLimits, Hours
  <2> QED
    BY <2>1 DEF Settled
<1>3. d + 2 <= Fold!DayOf(now')
  BY DEF Settled
<1>4. Fold!DayOf(now)' = Fold!DayOf(now')
  BY DEF Fold!DayOf
<1>5. Fold!HoursOf(d)' = Fold!HoursOf(d)
  BY DEF Fold!HoursOf, Fold!Hour, Fold!DayOf
<1> QED
  BY <1>1, <1>2, <1>3, <1>4, <1>5 DEF Settled

LEMMA DaysAre ==
    ASSUME Hours, HoursTyped
    PROVE  /\ \A d \in Fold!Day : d \in Nat
           /\ \A h \in 0..MaxHour : Fold!DayOf(h) \in Nat /\ Fold!DayOf(h) \in Fold!Day
           /\ Fold!DayOf(now) \in Nat /\ Fold!DayOf(now) \in Fold!Day
           /\ \A d : Fold!HoursOf(d) = {h \in 0..MaxHour : Fold!DayOf(h) = d}
<1>1. \A h \in 0..MaxHour : Fold!DayOf(h) \in Nat /\ Fold!DayOf(h) <= Fold!DayOf(MaxHour)
  BY DaysGoOn, HoursAreNat
<1>2. Fold!DayOf(MaxHour) \in Nat /\ Fold!Day = 0..Fold!DayOf(MaxHour)
  BY DaysGoOn, HoursAreNat DEF Fold!Day, Fold!DayOf
<1> QED
  BY <1>1, <1>2, HoursAreNat DEF Fold!HoursOf, Fold!Hour

\* The hours of a settled day are past receiving and past folding again.
LEMMA LongPast ==
    ASSUME FoldLimits, HoursTyped, NEW d, Settled(d), NEW h \in Fold!HoursOf(d)
    PROVE  h \in 0..MaxHour /\ h + LateHours < now /\ h < now - RefoldHours
<1>1. /\ h \in 0..MaxHour /\ h \in Nat /\ now \in Nat /\ Fold!DayOf(h) = d
      /\ LateHours \in Nat /\ RefoldHours \in Nat /\ DayLength \in Nat
  BY DaysAre, HoursAreNat DEF FoldLimits, Hours
<1>2. Fold!DayOf(h) + 2 <= Fold!DayOf(now)
  BY <1>1 DEF Settled
<1>3. h + DayLength < now
  BY <1>1, <1>2, DaysApart DEF FoldLimits
<1>4. LateHours < RefoldHours /\ RefoldHours <= DayLength
  BY DEF FoldLimits, Hours, RefoldsWithinADay
<1> QED
  BY <1>1, <1>3, <1>4

\* The settled days, when no further day is left behind.
LEMMA DaysStay ==
    ASSUME FoldLimits, FoldInv, HoursTyped', DayInv, now <= now', daily' = daily,
           wmHour <= wmHour', ~ahead' => ~ahead,
           \A d \in Fold!Day : LeftBehind(d)' => LeftBehind(d),
           \A h \in 0..MaxHour : raw'[h] = raw[h] \/ raw'[h] = 0 \/ now <= h + LateHours,
           \A d \in Fold!Day : Settled(d) =>
             \/ \A h \in Fold!HoursOf(d) : hourly'[h] = hourly[h]
             \/ \A h \in Fold!HoursOf(d) : hourly'[h] = 0
    PROVE  DaysSettled'
<1> SUFFICES ASSUME ~ahead', NEW d \in Fold!Day, LeftBehind(d)' PROVE Settled(d)'
  BY DEF DaysSettled, Fold!Day, Fold!DayOf
<1>0. Hours /\ HoursTyped
  BY DEF FoldLimits, FoldInv
<1>1. Settled(d)
  BY DEF DayInv, DaysSettled
<1>2. now \in Nat /\ now' \in 0..MaxHour /\ wmHour \in Int /\ wmHour' \in Int
  BY <1>0, HoursAreNat DEF HoursTyped
<1>3. /\ Fold!DayOf(now) \in Int /\ Fold!DayOf(now') \in Int
      /\ Fold!DayOf(now) <= Fold!DayOf(now')
  <2>1. now' \in Nat
    BY <1>2
  <2>2. PICK n \in Nat : n = now'
    BY <2>1
  <2>3. PICK m \in Nat : m = now
    BY <1>2
  <2>4. Fold!DayOf(m) \in Nat /\ Fold!DayOf(n) \in Nat /\ Fold!DayOf(m) <= Fold!DayOf(n)
    BY <1>0, <2>2, <2>3, DaysGoOn
  <2> QED
    BY <2>2, <2>3, <2>4
<1>4. \A h \in Fold!HoursOf(d) : raw'[h] = raw[h] \/ raw'[h] = 0
  <2> TAKE h \in Fold!HoursOf(d)
  <2>1. h \in 0..MaxHour /\ h + LateHours < now
    BY <1>0, <1>1, LongPast
  <2>2. ~(now <= h + LateHours)
    BY <1>0, <1>2, <2>1, HoursAreNat
  <2> QED
    BY <2>1, <2>2
<1>5. d \in Int
  BY <1>0, DaysAre
<1> QED
  BY <1>0, <1>1, <1>2, <1>3, <1>4, <1>5, SettledStays

\* The tables when nothing is received and no day is folded.
LEMMA TablesStay ==
    ASSUME FoldLimits, HoursTyped, FoldTyped, arrived' = arrived, daily' = daily,
           \A h \in 0..MaxHour :
             /\ raw'[h] = raw[h] \/ raw'[h] = 0
             /\ hourly'[h] = hourly[h] \/ hourly'[h] = raw[h] \/ hourly'[h] = 0
             /\ others'[h] = others[h] \/ others'[h] = raw[h]
    PROVE  Tables'
<1>1. arrived \in Nat /\ 0 <= arrived
  BY DEF FoldTyped, Places, FoldLimits
<1>2. \A h \in 0..MaxHour : raw'[h] <= arrived /\ hourly'[h] <= arrived /\ others'[h] <= arrived
  BY <1>1 DEF FoldTyped, Tables
<1>3. IsFiniteSet(Receptions') /\ Cardinality(Receptions') <= arrived
  BY FewerReceptions
<1>4. daily' \in [Fold!Day -> 0..MaxReceptions]
  BY DEF FoldTyped, Tables
<1>5. Fold!Day' = Fold!Day
  BY DEF Fold!Day, Fold!DayOf
<1> QED
  BY <1>2, <1>3, <1>4, <1>5 DEF Tables

\* A reception comes in: one more.
LEMMA DaysReceive ==
    ASSUME FoldLimits, FoldInv, FoldInv', DayInv, Fold!Receive PROVE DayInv'
<1>0. Hours /\ HoursTyped /\ HoursTyped'
  BY DEF FoldLimits, FoldInv
<1>1. PICK g \in 0..MaxHour :
        /\ g <= now /\ now - g <= LateHours /\ raw' = [raw EXCEPT ![g] = @ + 1]
        /\ arrived < MaxReceptions /\ arrived' = arrived + 1
        /\ UNCHANGED <<now, hourly, others, daily, wmHour, wmDay, fast, slow, faults, ahead>>
  BY DEF Fold!Receive, Fold!Hour, Fold!clock
<1>2. Places'
  <2>1. arrived' \in 0..MaxReceptions
    BY <1>1 DEF DayInv, FoldTyped, Places, FoldLimits
  <2> QED
    BY <1>1, <2>1 DEF DayInv, FoldTyped, Places
<1>3. DayFolds'
  BY <1>1 DEF DayInv, DayFolds, Refolds, Fold!DayOf
<1>4. DaysSettled'
  <2>1. \A h \in 0..MaxHour : raw'[h] = raw[h] \/ now <= h + LateHours
    BY <1>0, <1>1, HoursAreNat DEF HoursTyped
  <2>2. \A d \in Fold!Day : LeftBehind(d)' => LeftBehind(d)
    BY <1>1 DEF LeftBehind
  <2>3. now <= now' /\ wmHour <= wmHour'
    BY <1>0, <1>1, HoursAreNat
  <2> QED
    BY <1>0, <1>1, <2>1, <2>2, <2>3, DaysStay
<1>5. Tables'
  <2> DEFINE one == <<g, raw[g] + 1>>
  <2>1. Receptions' \subseteq Receptions \union {one}
    <3> SUFFICES ASSUME NEW x \in Receptions' PROVE x \in Receptions \union {one}
      OBVIOUS
    <3>1. PICK h \in 0..MaxHour : x \in {h} \X ((1..raw'[h]) \union (1..hourly'[h]))
      BY DEF Receptions
    <3>2. PICK i \in (1..raw'[h]) \union (1..hourly[h]) : x = <<h, i>>
      BY <1>1, <3>1
    <3>3. raw[h] \in Nat /\ raw[g] \in Nat
      BY <1>0, HoursAreNat
    <3>4. raw'[h] = raw[h] \/ (h = g /\ raw'[h] = raw[g] + 1)
      BY <1>0, <1>1 DEF HoursTyped
    <3>5. i \in (1..raw[h]) \union (1..hourly[h]) \/ (h = g /\ i = raw[g] + 1)
      BY <3>2, <3>3, <3>4
    <3>6. i \in (1..raw[h]) \union (1..hourly[h])
            => x \in {h} \X ((1..raw[h]) \union (1..hourly[h]))
      BY <3>2
    <3>7. x \in {h} \X ((1..raw[h]) \union (1..hourly[h])) => x \in Receptions
      BY DEF Receptions
    <3> QED
      BY <3>2, <3>5, <3>6, <3>7
  <2> HIDE DEF one
  <2>2. IsFiniteSet(Receptions) /\ Cardinality(Receptions) \in Nat
        /\ Cardinality(Receptions) <= arrived /\ arrived \in Nat
    BY FS_CardinalityType DEF DayInv, FoldTyped, Tables, Places, FoldLimits
  <2>3. /\ IsFiniteSet(Receptions \union {one})
        /\ Cardinality(Receptions \union {one}) <= Cardinality(Receptions) + 1
    BY <2>2, FS_AddElement
  <2>4. IsFiniteSet(Receptions') /\ Cardinality(Receptions') <= Cardinality(Receptions \union {one})
    BY <2>1, <2>3, FS_Subset
  <2>5. Cardinality(Receptions') \in Nat /\ Cardinality(Receptions \union {one}) \in Nat
    BY <2>3, <2>4, FS_CardinalityType
  <2>6. Cardinality(Receptions') <= arrived'
    BY <1>1, <2>2, <2>3, <2>4, <2>5
  <2>7. \A h \in 0..MaxHour : raw'[h] <= arrived' /\ hourly'[h] <= arrived' /\ others'[h] <= arrived'
    <3> TAKE h \in 0..MaxHour
    <3>1. /\ raw[h] \in Nat /\ hourly[h] \in Nat /\ others[h] \in Nat
          /\ raw'[h] = raw[h] \/ raw'[h] = raw[h] + 1
      BY <1>0, <1>1 DEF HoursTyped
    <3>2. raw[h] <= arrived /\ hourly[h] <= arrived /\ others[h] <= arrived
      BY DEF DayInv, FoldTyped, Tables
    <3> QED
      BY <1>1, <2>2, <3>1, <3>2
  <2>8. daily' \in [Fold!Day -> 0..MaxReceptions] /\ Fold!Day' = Fold!Day
    BY <1>1 DEF DayInv, FoldTyped, Tables, Fold!Day, Fold!DayOf
  <2> QED
    BY <2>4, <2>6, <2>7, <2>8 DEF Tables
<1> QED
  BY <1>2, <1>3, <1>4, <1>5 DEF DayInv, FoldTyped

\* An hour goes by, between two passes.
LEMMA DaysHourEnds ==
    ASSUME FoldLimits, FoldInv, FoldInv', DayInv, Fold!HourEnds PROVE DayInv'
<1>0. Hours /\ HoursTyped /\ HoursTyped'
  BY DEF FoldLimits, FoldInv
<1>1. /\ slow.at = "idle" /\ now' = now + 1
      /\ UNCHANGED <<raw, hourly, others, daily, wmHour, wmDay, fast, slow, faults, ahead, arrived>>
  BY DEF Fold!HourEnds
<1>2. Places'
  BY <1>1 DEF DayInv, FoldTyped, Places
<1>3. Tables'
  BY <1>0, <1>1, TablesStay DEF DayInv
<1>4. DayFolds'
  <2>1. /\ Fold!DayOf(now) \in Int /\ Fold!DayOf(now + 1) \in Int
        /\ Fold!DayOf(now) <= Fold!DayOf(now + 1)
    BY <1>0, HoursAreNat, DaysGoOn
  <2>2. Fold!DayOf(now)' = Fold!DayOf(now + 1)
    BY <1>1 DEF Fold!DayOf
  <2> QED
    BY <1>1, <2>1, <2>2 DEF DayInv, DayFolds, Refolds
<1>5. DaysSettled'
  <2>1. now <= now' /\ wmHour <= wmHour'
    BY <1>0, <1>1, HoursAreNat
  <2>2. \A d \in Fold!Day : LeftBehind(d)' => LeftBehind(d)
    BY <1>1 DEF LeftBehind
  <2> QED
    BY <1>0, <1>1, <2>1, <2>2, DaysStay
<1> QED
  BY <1>2, <1>3, <1>4, <1>5 DEF DayInv, FoldTyped

\* Steps of the fast loop.
LEMMA DaysFast ==
    ASSUME FoldLimits, FoldInv, FoldInv', DayInv, Fold!FastStep \/ Fold!FastFails PROVE DayInv'
<1>0. Hours /\ HoursTyped /\ HoursTyped'
  BY DEF FoldLimits, FoldInv
<1>1. UNCHANGED <<now, raw, daily, wmDay, slow, ahead, arrived>>
  BY DEF Fold!FastStep, Fold!FastFails, Fold!runHourlyRollups, Fold!foldReceptionHour,
         Fold!foldOtherHours, Fold!MarkHour
<1>2. DayFolds'
  BY <1>1 DEF DayInv, DayFolds, Refolds, Fold!DayOf
<1>3. /\ \A d \in Fold!Day : LeftBehind(d)' => LeftBehind(d)
      /\ now <= now' /\ wmHour <= wmHour
  BY <1>0, <1>1, HoursAreNat DEF LeftBehind
<1>4. Places'
  <2>0. fast = [at |-> fast.at, h |-> fast.h, last |-> fast.last, n |-> fast.n]
    BY <1>0 DEF HoursTyped
  <2>1. /\ fast'.h \in 0..MaxHour /\ fast'.last \in 0..MaxHour
        /\ fast'.n \in 0..(MAX_HOURS_PER_RUN - 1)
    <3>1. CASE fast' = Fold!FastIdle
      BY <3>1 DEF Fold!FastIdle, FoldLimits, Hours
    <3>2. CASE fast' # Fold!FastIdle /\ Fold!MarkHour
      <4>1. fast.n + 1 < MAX_HOURS_PER_RUN
            /\ fast' = [fast EXCEPT !.at = "hourly", !.h = @ + 1, !.n = @ + 1]
        BY <3>2 DEF Fold!MarkHour
      <4>2. fast' = [at |-> "hourly", h |-> fast.h + 1, last |-> fast.last, n |-> fast.n + 1]
        BY <2>0, <4>1
      <4>3. fast'.h \in 0..MaxHour
        BY <4>2 DEF FoldInv, FastFolds
      <4> QED
        BY <4>1, <4>2, <4>3 DEF DayInv, FoldTyped, Places, FoldLimits
    <3>3. CASE Fold!runHourlyRollups
      <4>1. fast'.at = "hourly" /\ fast'.last = now /\ fast'.n = 0
        BY <3>3 DEF Fold!runHourlyRollups, Fold!LastComplete
      <4>2. fast'.h \in 0..MaxHour
        BY <4>1 DEF FoldInv, FastFolds
      <4> QED
        BY <1>0, <4>1, <4>2, HoursAreNat DEF FoldLimits
    <3>4. CASE Fold!foldReceptionHour \/ Fold!foldOtherHours
      <4>1. \/ fast' = [at |-> "others", h |-> fast.h, last |-> fast.last, n |-> fast.n]
            \/ fast' = [at |-> "mark", h |-> fast.h, last |-> fast.last, n |-> fast.n]
        BY <2>0, <3>4 DEF Fold!foldReceptionHour, Fold!foldOtherHours
      <4> QED
        BY <4>1 DEF DayInv, FoldTyped, Places
    <3>5. Fold!FastFails => fast' = Fold!FastIdle
      BY DEF Fold!FastFails
    <3> QED
      BY <3>1, <3>2, <3>3, <3>4, <3>5 DEF Fold!FastStep
  <2>2. faults' \in 0..MaxFaults
    <3>1. faults' = faults \/ (faults < MaxFaults /\ faults' = faults + 1)
      BY DEF Fold!FastStep, Fold!FastFails, Fold!runHourlyRollups, Fold!foldReceptionHour,
             Fold!foldOtherHours, Fold!MarkHour
    <3> QED
      BY <3>1 DEF DayInv, FoldTyped, Places, FoldLimits
  <2> QED
    BY <1>1, <2>1, <2>2 DEF DayInv, FoldTyped, Places
<1>5. CASE UNCHANGED <<hourly, others>>
  <2>1. wmHour <= wmHour'
    <3>1. CASE Fold!MarkHour
      <4>1. fast.at = "mark" /\ wmHour' = fast.h
        BY <3>1 DEF Fold!MarkHour
      <4>2. fast.h \in 0..MaxHour /\ (wmHour # -1 => fast.h = wmHour + 1)
        BY <4>1 DEF FoldInv, FastFolds
      <4> QED
        BY <1>0, <4>1, <4>2, HoursAreNat
    <3>2. CASE ~Fold!MarkHour
      <4>1. wmHour' = wmHour
        BY <3>2 DEF Fold!FastStep, Fold!FastFails, Fold!runHourlyRollups,
               Fold!foldReceptionHour, Fold!foldOtherHours
      <4> QED
        BY <1>3, <4>1
    <3> QED
      BY <3>1, <3>2
  <2>2. Tables'
    BY <1>0, <1>1, <1>5, TablesStay DEF DayInv
  <2>3. DaysSettled'
    BY <1>0, <1>1, <1>3, <1>5, <2>1, DaysStay
  <2> QED
    BY <1>2, <1>4, <2>2, <2>3 DEF DayInv, FoldTyped
<1>6. CASE Fold!foldReceptionHour \/ Fold!foldOtherHours
  <2>1. /\ fast.at # "idle" /\ wmHour' = wmHour
        /\ hourly' = hourly \/ hourly' = Fold!Fold(hourly, fast.h)
        /\ others' = others \/ others' = Fold!Fold(others, fast.h)
    BY <1>6 DEF Fold!foldReceptionHour, Fold!foldOtherHours
  <2>2. PICK g \in 0..MaxHour : g = fast.h /\ (wmHour # -1 => g = wmHour + 1)
    BY <2>1 DEF FoldInv, FastFolds
  <2>3. /\ \A h \in 0..MaxHour : h # g \/ raw[h] = 0 => hourly'[h] = hourly[h]
        /\ hourly'[g] = hourly[g] \/ hourly'[g] = raw[g]
        /\ \A h \in 0..MaxHour : h # g => others'[h] = others[h]
        /\ others'[g] = others[g] \/ others'[g] = raw[g]
    <3>1. ASSUME NEW t \in [0..MaxHour -> Nat]
          PROVE  /\ \A h \in 0..MaxHour : h # g \/ raw[h] = 0 => Fold!Fold(t, g)[h] = t[h]
                 /\ Fold!Fold(t, g)[g] = t[g] \/ Fold!Fold(t, g)[g] = raw[g]
      <4>1. raw[g] \in Nat
        BY <1>0, HoursAreNat
      <4> QED
        BY <4>1 DEF Fold!Fold
    <3>2. hourly \in [0..MaxHour -> Nat] /\ others \in [0..MaxHour -> Nat]
      BY <1>0 DEF HoursTyped
    <3>3. /\ hourly' = hourly \/ hourly' = Fold!Fold(hourly, g)
          /\ others' = others \/ others' = Fold!Fold(others, g)
      BY <2>1, <2>2
    <3> QED
      BY <3>1, <3>2, <3>3
  <2>4. Tables'
    BY <1>0, <1>1, <2>3, TablesStay DEF DayInv
  <2>5. ASSUME NEW d \in Fold!Day, Settled(d), NEW h \in Fold!HoursOf(d)
        PROVE  hourly'[h] = hourly[h]
    <3>1. h \in 0..MaxHour /\ (h <= wmHour \/ raw[h] = 0)
      BY <1>0, <2>5, LongPast DEF Settled
    <3>2. h = g => ~(h <= wmHour)
      BY <1>0, <2>2, <3>1, HoursAreNat
    <3> QED
      BY <2>3, <3>1, <3>2
  <2>6. DaysSettled'
    BY <1>0, <1>1, <1>3, <2>1, <2>5, DaysStay
  <2> QED
    BY <1>2, <1>4, <2>4, <2>6 DEF DayInv, FoldTyped
<1> QED
  BY <1>5, <1>6 DEF Fold!FastStep, Fold!FastFails, Fold!runHourlyRollups, Fold!MarkHour

\* The re-fold: hours of the last day alone.
LEMMA RefoldAtIs ==
    ASSUME Hours, HoursTyped, NEW wm \in (0..MaxHour) \union {-1},
           NEW todo \in SUBSET Fold!RefoldSet(wm), slow' = Fold!RefoldAt(todo, wm)
    PROVE  /\ slow'.x \in Int /\ slow'.end = 0 /\ slow'.wm \in (0..MaxHour) \union {-1}
           /\ slow'.at \in {"refold", "daily"}
           /\ slow'.at = "refold" => now - RefoldHours <= slow'.x
<1>1. todo \in SUBSET {h \in 0..MaxHour : h < now} /\ \A h \in todo : now - RefoldHours <= h
  BY HoursAreNat DEF Fold!RefoldSet, Fold!Hour
<1>2. CASE todo = {}
  <2>1. slow' = [at |-> "daily", x |-> 0, end |-> 0, wm |-> -1]
    BY <1>1, <1>2, RefoldGoesOn
  <2> QED
    BY <2>1
<1>3. CASE todo # {}
  <2>1. PICK x \in todo : slow' = [at |-> "refold", x |-> x, end |-> 0, wm |-> wm]
    BY <1>1, <1>3, RefoldGoesOn
  <2>2. x \in Int
    BY <1>1
  <2> QED
    BY <1>1, <2>1, <2>2
<1> QED
  BY <1>2, <1>3

LEMMA DaysRefold ==
    ASSUME FoldLimits, FoldInv, FoldInv', DayInv,
           Fold!SlowStarts \/ Fold!RefoldReceptions \/ Fold!RefoldOthers
    PROVE  DayInv'
<1>0. Hours /\ HoursTyped /\ HoursTyped'
  BY DEF FoldLimits, FoldInv
<1>1. UNCHANGED <<now, raw, daily, wmHour, wmDay, fast, faults, ahead, arrived>>
  BY DEF Fold!SlowStarts, Fold!RefoldReceptions, Fold!RefoldOthers
<1>3. /\ slow'.x \in Int /\ slow'.end \in Int /\ slow'.wm \in (0..MaxHour) \union {-1}
      /\ slow'.at \in {"refold", "refoldOthers", "daily"}
      /\ Refolds' => now - RefoldHours <= slow'.x
  <2>1. CASE Fold!SlowStarts
    <3>1. slow' = Fold!RefoldAt(Fold!RefoldSet(wmHour), wmHour)
      BY <2>1 DEF Fold!SlowStarts
    <3>2. wmHour \in (0..MaxHour) \union {-1}
      BY <1>0, HoursAreNat
    <3>3. PICK w \in (0..MaxHour) \union {-1} : w = wmHour
      BY <3>2
    <3>4. PICK todo : todo = Fold!RefoldSet(w)
      OBVIOUS
    <3>5. todo \in SUBSET Fold!RefoldSet(w) /\ slow' = Fold!RefoldAt(todo, w)
      BY <3>1, <3>3, <3>4
    <3> QED
      BY <1>0, <3>5, RefoldAtIs DEF Refolds
  <2>2. CASE Fold!RefoldOthers
    <3>1. slow' = Fold!RefoldAt(Fold!RefoldFrom(slow.x - 1), slow.wm)
      BY <2>2 DEF Fold!RefoldOthers
    <3>2. PICK w \in (0..MaxHour) \union {-1} : w = slow.wm
      BY DEF DayInv, FoldTyped, Places
    <3>3. PICK todo : todo = Fold!RefoldFrom(slow.x - 1)
      OBVIOUS
    <3>4. todo \in SUBSET Fold!RefoldSet(w) /\ slow' = Fold!RefoldAt(todo, w)
      BY <3>1, <3>2, <3>3 DEF Fold!RefoldFrom
    <3> QED
      BY <1>0, <3>4, RefoldAtIs DEF Refolds
  <2>3. CASE Fold!RefoldReceptions
    <3>1. slow.at = "refold" /\ slow' = [slow EXCEPT !.at = "refoldOthers"]
      BY <2>3 DEF Fold!RefoldReceptions
    <3>2. slow' = [at |-> "refoldOthers", x |-> slow.x, end |-> slow.end, wm |-> slow.wm]
      BY <1>0, <3>1 DEF HoursTyped
    <3> QED
      BY <3>1, <3>2 DEF DayInv, DayFolds, FoldTyped, Places, Refolds
  <2> QED
    BY <2>1, <2>2, <2>3
<1>4. Places'
  BY <1>1, <1>3 DEF DayInv, FoldTyped, Places
<1>5. DayFolds'
  BY <1>1, <1>3 DEF DayInv, DayFolds, Refolds, Fold!DayOf
<1>6. /\ \A d \in Fold!Day : LeftBehind(d)' => LeftBehind(d)
      /\ now <= now' /\ wmHour <= wmHour'
  BY <1>0, <1>1, <1>3, HoursAreNat DEF LeftBehind
<1>7. PICK g : g = slow.x
  OBVIOUS
<1>8. /\ hourly' = hourly \/ (Fold!RefoldReceptions /\ hourly' = Fold!Fold(hourly, g))
      /\ others' = others \/ others' = Fold!Fold(others, g)
  BY <1>7 DEF Fold!SlowStarts, Fold!RefoldReceptions, Fold!RefoldOthers
<1>9. \A h \in 0..MaxHour :
        /\ hourly'[h] = hourly[h] \/ hourly'[h] = raw[h]
        /\ others'[h] = others[h] \/ others'[h] = raw[h]
  <2>1. ASSUME NEW t \in [0..MaxHour -> Nat], NEW h \in 0..MaxHour
        PROVE  Fold!Fold(t, g)[h] = t[h] \/ Fold!Fold(t, g)[h] = raw[h]
    BY DEF Fold!Fold
  <2>2. hourly \in [0..MaxHour -> Nat] /\ others \in [0..MaxHour -> Nat]
    BY <1>0 DEF HoursTyped
  <2> QED
    BY <1>8, <2>1, <2>2
<1>10. Tables'
  BY <1>0, <1>1, <1>9, TablesStay DEF DayInv
<1>11. ASSUME NEW d \in Fold!Day, Settled(d), NEW h \in Fold!HoursOf(d)
      PROVE  hourly'[h] = hourly[h]
  <2>1. h \in 0..MaxHour /\ h < now - RefoldHours
    BY <1>0, <1>11, LongPast
  <2>2. Fold!RefoldReceptions => now - RefoldHours <= g /\ g \in Int
    BY <1>7 DEF Fold!RefoldReceptions, DayInv, DayFolds, Refolds, FoldTyped, Places
  <2>3. Fold!RefoldReceptions => h # g
    BY <1>0, <2>1, <2>2, HoursAreNat
  <2>4. hourly \in [0..MaxHour -> Nat]
    BY <1>0 DEF HoursTyped
  <2>5. h # g => Fold!Fold(hourly, g)[h] = hourly[h]
    BY <2>1, <2>4 DEF Fold!Fold
  <2> QED
    BY <1>8, <2>3, <2>5
<1>12. DaysSettled'
  BY <1>0, <1>1, <1>6, <1>11, DaysStay
<1> QED
  BY <1>4, <1>5, <1>10, <1>12 DEF DayInv, FoldTyped

\* The daily fold begins: what it leaves behind at once has no hours at all.
LEMMA DaysBegin ==
    ASSUME FoldLimits, FoldInv, FoldInv', DayInv, Fold!runDailyRollups PROVE DayInv'
<1>0. Hours /\ HoursTyped /\ HoursTyped'
  BY DEF FoldLimits, FoldInv
<1>1. UNCHANGED <<now, raw, hourly, others, daily, wmHour, wmDay, fast, faults, arrived>>
  BY DEF Fold!runDailyRollups
<1>2. Tables'
  BY <1>0, <1>1, TablesStay DEF DayInv
<1>3. CASE slow' = [Fold!SlowIdle EXCEPT !.at = "retention"] /\ ahead' = ahead
  <2>1. slow' = [at |-> "retention", x |-> 0, end |-> 0, wm |-> -1]
    BY <1>3 DEF Fold!SlowIdle, Fold!None
  <2>2. Places'
    BY <1>1, <1>3, <2>1 DEF DayInv, FoldTyped, Places
  <2>3. DayFolds'
    BY <1>1, <2>1 DEF DayInv, DayFolds, Refolds, Fold!DayOf
  <2>4. /\ \A d \in Fold!Day : LeftBehind(d)' => LeftBehind(d)
        /\ now <= now' /\ wmHour <= wmHour'
    BY <1>0, <1>1, <2>1, HoursAreNat DEF LeftBehind
  <2>5. DaysSettled'
    BY <1>0, <1>1, <1>3, <2>4, DaysStay
  <2> QED
    BY <1>2, <2>2, <2>3, <2>5 DEF DayInv, FoldTyped
<1>4. CASE /\ Fold!FirstDay < Fold!DayOf(now)
           /\ wmDay # -1 \/ \E h \in Fold!Hour : hourly[h] > 0
           /\ slow' = [at |-> "fold", x |-> Fold!FirstDay, end |-> Fold!DayOf(now), wm |-> -1]
           /\ ahead' = (ahead \/ Fold!Unfolded(Fold!FirstDay))
  <2> DEFINE some == {h \in 0..MaxHour : hourly[h] > 0}
  <2>1. wmDay = -1 => \E e \in some : /\ Fold!FirstDay = Fold!DayOf(e)
                                      /\ \A h \in some : e <= h
    <3> SUFFICES ASSUME wmDay = -1
                 PROVE  \E e \in some : /\ Fold!FirstDay = Fold!DayOf(e)
                                        /\ \A h \in some : e <= h
      OBVIOUS
    <3>1. some # {} /\ some \in SUBSET Nat
      BY <1>0, <1>4, HoursAreNat DEF Fold!Hour
    <3>2. \E x \in some : \A y \in some : x <= y
      BY <3>1, LeastNat
    <3>3. Fold!FirstDay = Fold!DayOf(CHOOSE x \in some : \A y \in some : x <= y)
      BY DEF Fold!FirstDay, Fold!EarliestRollupDay, Fold!Hour, Fold!Min, Fold!None
    <3> HIDE DEF some
    <3> QED
      BY <3>2, <3>3
  <2>2. PICK f : f = Fold!FirstDay
    OBVIOUS
  <2>3. f \in Nat /\ wmDay <= f /\ f < Fold!DayOf(now) /\ wmDay \in Int
    <3>1. wmDay \in Int /\ -1 <= wmDay
      BY DEF DayInv, DayFolds
    <3>2. CASE wmDay = -1
      <4>1. f \in Nat
        BY <1>0, <2>1, <2>2, <3>2, DaysAre
      <4> QED
        BY <1>4, <2>2, <3>2, <4>1
    <3>3. CASE wmDay # -1
      BY <1>4, <2>2, <3>1, <3>3 DEF Fold!FirstDay, Fold!None
    <3> QED
      BY <3>2, <3>3
  <2>4. slow' = [at |-> "fold", x |-> f, end |-> Fold!DayOf(now), wm |-> -1]
    BY <1>4, <2>2
  <2>5. Fold!DayOf(now) \in Nat /\ Fold!DayOf(now)' = Fold!DayOf(now)
    BY <1>0, <1>1, DaysAre DEF Fold!DayOf
  <2>6. Places'
    <3>1. ahead' \in BOOLEAN
      BY <1>4 DEF DayInv, FoldTyped, Places, Fold!Unfolded
    <3> QED
      BY <1>1, <2>3, <2>4, <2>5, <3>1 DEF DayInv, FoldTyped, Places
  <2>7. DayFolds'
    BY <1>1, <2>3, <2>4, <2>5 DEF DayInv, DayFolds, Refolds
  <2>8. ASSUME ~ahead', NEW d \in Fold!Day, LeftBehind(d)' PROVE Settled(d)'
    <3>1. d < f /\ d \in Nat
      <4>1. d \in Nat
        BY <1>0, DaysAre
      <4> QED
        BY <1>1, <2>3, <2>4, <2>8, <4>1 DEF LeftBehind
    <3>2. Settled(d)
      <4>1. CASE wmDay # -1
        <5>1. d < wmDay
          BY <2>2, <3>1, <4>1 DEF Fold!FirstDay, Fold!None
        <5> QED
          BY <1>4, <2>8, <5>1 DEF DayInv, DaysSettled, LeftBehind
      <4>2. CASE wmDay = -1
        <5>1. PICK e \in some : f = Fold!DayOf(e) /\ \A h \in some : e <= h
          BY <2>1, <2>2, <4>2
        <5>2. ASSUME NEW h \in Fold!HoursOf(d)
              PROVE  hourly[h] = 0 /\ (h <= wmHour \/ raw[h] = 0)
          <6>1. h \in 0..MaxHour /\ h \in Nat /\ Fold!DayOf(h) = d /\ e \in Nat
            BY <1>0, DaysAre, HoursAreNat
          <6>2. h < e
            BY <1>0, <3>1, <5>1, <6>1, DaysGoOn
          <6>3. h \notin some
            BY <5>1, <6>1, <6>2
          <6>4. hourly[h] \in Nat /\ raw[h] \in Nat
            BY <1>0, <6>1 DEF HoursTyped
          <6>5. ~Fold!Unfolded(f)
            BY <1>4, <2>2, <2>8
          <6>6. ~(h > wmHour /\ raw[h] > 0)
            BY <3>1, <6>1, <6>5 DEF Fold!Unfolded, Fold!Hour
          <6> QED
            BY <1>0, <6>1, <6>3, <6>4, <6>6, HoursAreNat
        <5>3. Fold!DaySum(d) = 0
          BY <5>2, EmptySum
        <5>4. d + 2 <= Fold!DayOf(now)
          BY <2>3, <2>5, <3>1
        <5> QED
          BY <5>2, <5>3, <5>4 DEF Settled, Fold!AddedUp
      <4> QED
        BY <4>1, <4>2
    <3>3. Fold!AddedUp(d)' <=> Fold!AddedUp(d)
      <4>1. Fold!DaySum(d)' = Fold!DaySum(d)
        BY <1>1, SameSum
      <4> QED
        BY <1>1, <4>1 DEF Fold!AddedUp
    <3>4. Fold!HoursOf(d)' = Fold!HoursOf(d)
      BY DEF Fold!HoursOf, Fold!Hour, Fold!DayOf
    <3> QED
      BY <1>1, <2>5, <3>2, <3>3, <3>4 DEF Settled
  <2>9. DaysSettled'
    BY <2>8 DEF DaysSettled, Fold!Day, Fold!DayOf
  <2> QED
    BY <1>2, <2>6, <2>7, <2>9 DEF DayInv, FoldTyped
<1> QED
  BY <1>3, <1>4 DEF Fold!runDailyRollups, Fold!None

\* A day is summed.
LEMMA DaysSum ==
    ASSUME FoldLimits, FoldInv, FoldInv', DayInv, Fold!foldReceptionDay PROVE DayInv'
<1>0. Hours /\ HoursTyped /\ HoursTyped' /\ MaxReceptions \in Nat
  BY DEF FoldLimits, FoldInv
<1>1. /\ slow.at = "fold"
      /\ UNCHANGED <<now, raw, hourly, others, wmHour, wmDay, fast, faults, arrived>>
      /\ slow' = [slow EXCEPT !.at = "mark"]
  BY DEF Fold!foldReceptionDay
<1>2. PICK x : x = slow.x
  OBVIOUS
<1>3. /\ x \in Nat /\ slow.end \in Int /\ x < slow.end /\ slow.end <= Fold!DayOf(now)
      /\ Fold!DayOf(now) \in Nat /\ x \in Fold!Day
  <2>1. /\ x \in Nat /\ slow.end \in Int /\ x < slow.end /\ slow.end <= Fold!DayOf(now)
        /\ Fold!DayOf(now) \in Nat /\ Fold!DayOf(now) \in Fold!Day
    BY <1>0, <1>1, <1>2, DaysAre DEF DayInv, DayFolds, FoldTyped, Places
  <2>2. PICK k \in Nat : Fold!Day = 0..k
    BY <1>0, DaysGoOn, HoursAreNat DEF Fold!Day, Fold!DayOf
  <2> QED
    BY <2>1, <2>2
<1>4. slow' = [at |-> "mark", x |-> x, end |-> slow.end, wm |-> slow.wm]
  BY <1>0, <1>1, <1>2 DEF HoursTyped
<1>5. /\ daily' = IF Fold!DaySum(x) > 0 THEN [daily EXCEPT ![x] = Fold!DaySum(x)] ELSE daily
      /\ ahead' = (ahead \/ (x + 1 < slow.end /\ Fold!Unfolded(x + 1)))
  BY <1>2 DEF Fold!foldReceptionDay
<1>6. /\ daily \in [Fold!Day -> 0..MaxReceptions] /\ Fold!DaySum(x) \in 0..MaxReceptions
      /\ \A d : Fold!DaySum(d)' = Fold!DaySum(d)
  <2>1. \A d : Fold!DaySum(d)' = Fold!DaySum(d)
    BY <1>1, SameSum
  <2>2. Fold!DaySum(x) \in 0..MaxReceptions
    BY <1>0, SumBounded DEF DayInv
  <2> QED
    BY <2>1, <2>2 DEF DayInv, FoldTyped, Tables
<1>7. /\ daily' \in [Fold!Day -> 0..MaxReceptions]
      /\ \A d \in Fold!Day : d # x => daily'[d] = daily[d]
      /\ Fold!DaySum(x) > 0 => daily'[x] = Fold!DaySum(x)
  BY <1>3, <1>5, <1>6
<1>8. Tables'
  <2>1. Receptions' = Receptions
    BY <1>1 DEF Receptions
  <2>2. Fold!Day' = Fold!Day
    BY DEF Fold!Day, Fold!DayOf
  <2> QED
    BY <1>1, <1>7, <2>1, <2>2 DEF DayInv, FoldTyped, Tables
<1>9. Places'
  <2>1. ahead' \in BOOLEAN
    BY <1>5 DEF DayInv, FoldTyped, Places, Fold!Unfolded
  <2> QED
    BY <1>1, <1>3, <1>4, <2>1 DEF DayInv, FoldTyped, Places
<1>10. Fold!DayOf(now)' = Fold!DayOf(now)
  BY <1>1 DEF Fold!DayOf
<1>11. DayFolds'
  BY <1>1, <1>2, <1>3, <1>4, <1>10 DEF DayInv, DayFolds, Refolds
<1>12. ASSUME ~ahead', NEW d \in Fold!Day, LeftBehind(d)' PROVE Settled(d)'
  <2>1. Fold!HoursOf(d)' = Fold!HoursOf(d)
    BY DEF Fold!HoursOf, Fold!Hour, Fold!DayOf
  <2>2. ~ahead /\ d \in Nat
    BY <1>0, <1>5, <1>12, DaysAre
  <2>3. CASE d = x
    <3>1. x + 1 < slow.end
      <4>1. ~(d < x)
        BY <2>3, <2>2
      <4>2. ~(d < wmDay')
        BY <1>1, <1>2, <1>3, <2>2, <2>3 DEF DayInv, DayFolds
      <4> QED
        BY <1>4, <1>12, <4>1, <4>2 DEF LeftBehind
    <3>2. ~Fold!Unfolded(x + 1)
      BY <1>5, <1>12, <3>1
    <3>3. ASSUME NEW h \in Fold!HoursOf(d) PROVE h <= wmHour \/ raw[h] = 0
      <4>1. h \in 0..MaxHour /\ h \in Nat /\ Fold!DayOf(h) = d /\ raw[h] \in Nat
        BY <1>0, DaysAre, HoursAreNat
      <4>2. ~(h > wmHour /\ raw[h] > 0)
        BY <1>3, <2>3, <3>2, <4>1 DEF Fold!Unfolded, Fold!Hour
      <4> QED
        BY <1>0, <4>1, <4>2, HoursAreNat
    <3>4. Fold!AddedUp(d)'
      BY <1>6, <1>7, <2>3 DEF Fold!AddedUp
    <3>5. d + 2 <= Fold!DayOf(now)
      BY <1>3, <2>3, <3>1
    <3> QED
      BY <1>1, <1>10, <2>1, <3>3, <3>4, <3>5 DEF Settled
  <2>4. CASE d # x
    <3>1. LeftBehind(d)
      BY <1>1, <1>2, <1>4, <1>12, <2>4 DEF LeftBehind
    <3>2. Settled(d)
      BY <2>2, <3>1 DEF DayInv, DaysSettled
    <3>3. Fold!AddedUp(d)' <=> Fold!AddedUp(d)
      BY <1>6, <1>7, <2>4 DEF Fold!AddedUp
    <3> QED
      BY <1>1, <1>10, <2>1, <3>2, <3>3 DEF Settled
  <2> QED
    BY <2>3, <2>4
<1>13. DaysSettled'
  BY <1>12 DEF DaysSettled, Fold!Day, Fold!DayOf
<1> QED
  BY <1>8, <1>9, <1>11, <1>13 DEF DayInv, FoldTyped

\* The watermark of the days moves on.
LEMMA DaysMark ==
    ASSUME FoldLimits, FoldInv, FoldInv', DayInv, Fold!MarkDay PROVE DayInv'
<1>0. Hours /\ HoursTyped /\ HoursTyped'
  BY DEF FoldLimits, FoldInv
<1>1. /\ slow.at = "mark" /\ wmDay' = slow.x
      /\ UNCHANGED <<now, raw, hourly, others, daily, wmHour, fast, faults, ahead, arrived>>
  BY DEF Fold!MarkDay
<1>2. /\ slow.x \in Nat /\ slow.end \in Int /\ slow.x < slow.end /\ slow.end <= Fold!DayOf(now)
      /\ wmDay \in Int /\ wmDay <= slow.x /\ Fold!DayOf(now) \in Nat
      /\ Fold!DayOf(now)' = Fold!DayOf(now)
  BY <1>0, <1>1, DaysAre DEF DayInv, DayFolds, FoldTyped, Places, Fold!DayOf
<1>3. Tables'
  BY <1>0, <1>1, TablesStay DEF DayInv
<1>4. \/ /\ slow.x + 1 < slow.end
         /\ slow' = [at |-> "fold", x |-> slow.x + 1, end |-> slow.end, wm |-> slow.wm]
      \/ /\ slow' = [at |-> "retention", x |-> 0, end |-> 0, wm |-> -1]
  <2>1. slow = [at |-> slow.at, x |-> slow.x, end |-> slow.end, wm |-> slow.wm]
    BY <1>0 DEF HoursTyped
  <2>2. slow.x + 1 < slow.end /\ slow' = [slow EXCEPT !.at = "fold", !.x = @ + 1]
          => slow' = [at |-> "fold", x |-> slow.x + 1, end |-> slow.end, wm |-> slow.wm]
    BY <2>1
  <2> QED
    BY <2>2 DEF Fold!MarkDay, Fold!SlowIdle, Fold!None
<1>5. Places'
  BY <1>1, <1>2, <1>4 DEF DayInv, FoldTyped, Places
<1>6. DayFolds'
  BY <1>1, <1>2, <1>4 DEF DayFolds, Refolds
<1>7. \A d \in Fold!Day : LeftBehind(d)' => LeftBehind(d)
  <2> SUFFICES ASSUME NEW d \in Fold!Day, LeftBehind(d)' PROVE LeftBehind(d)
    OBVIOUS
  <2>1. d \in Nat
    BY <1>0, DaysAre
  <2>2. d < slow.x \/ (d = slow.x /\ slow.x + 1 < slow.end)
    BY <1>1, <1>2, <1>4, <2>1 DEF LeftBehind
  <2> QED
    BY <1>1, <2>2 DEF LeftBehind
<1>8. now <= now' /\ wmHour <= wmHour'
  BY <1>0, <1>1, HoursAreNat
<1>9. DaysSettled'
  BY <1>0, <1>1, <1>7, <1>8, DaysStay
<1> QED
  BY <1>3, <1>5, <1>6, <1>9 DEF DayInv, FoldTyped

\* The other duties, and what fails: no day is left behind.
LEMMA DaysOther ==
    ASSUME FoldLimits, FoldInv, FoldInv', DayInv,
           \/ Fold!readHoldBack \/ Fold!DropReceptions \/ Fold!DropReceptionHours
           \/ Fold!SlowFails \/ Fold!Restart \/ UNCHANGED Fold!vars
    PROVE  DayInv'
<1>0. Hours /\ HoursTyped /\ HoursTyped'
  BY DEF FoldLimits, FoldInv
<1>1. UNCHANGED <<now, others, daily, wmHour, wmDay, ahead, arrived>>
  BY DEF Fold!readHoldBack, Fold!DropReceptions, Fold!DropReceptionHours, Fold!SlowFails,
         Fold!Restart, Fold!vars, Fold!clock
<1>2. \/ slow' = slow
      \/ /\ slow'.at \notin {"refold", "refoldOthers", "fold", "mark"}
         /\ slow'.x = 0 /\ slow'.end = 0 /\ slow'.wm \in (0..MaxHour) \union {-1}
  <2>1. wmHour \in (0..MaxHour) \union {-1}
    BY <1>0, HoursAreNat
  <2>2. CASE Fold!readHoldBack
    BY <2>1, <2>2 DEF Fold!readHoldBack, Fold!SlowIdle
  <2>3. CASE Fold!DropReceptions \/ Fold!DropReceptionHours \/ Fold!Restart
    BY <2>3 DEF Fold!DropReceptions, Fold!DropReceptionHours, Fold!Restart, Fold!SlowIdle, Fold!None
  <2>4. CASE Fold!SlowFails
    <3>1. slow.at \in Steps \ {"idle"}
      BY <1>0, <2>4 DEF HoursTyped, Fold!SlowFails
    <3>2. \E s \in {"daily", "retention", "drop", "dropHours", "idle"} :
             slow' = [at |-> s, x |-> 0, end |-> 0, wm |-> -1]
      BY <2>4, <3>1 DEF Fold!SlowFails, Fold!SlowIdle, Fold!None, Steps
    <3> QED
      BY <3>2
  <2>5. CASE UNCHANGED Fold!vars
    BY <2>5 DEF Fold!vars
  <2> QED
    BY <2>2, <2>3, <2>4, <2>5
<1>3. Places'
  <2>1. faults' \in 0..MaxFaults
    <3>1. faults' = faults \/ (faults < MaxFaults /\ faults' = faults + 1)
      BY DEF Fold!readHoldBack, Fold!DropReceptions, Fold!DropReceptionHours, Fold!SlowFails,
             Fold!Restart, Fold!vars
    <3> QED
      BY <3>1 DEF DayInv, FoldTyped, Places, FoldLimits
  <2>2. fast' = fast \/ fast' = [at |-> "idle", h |-> 0, last |-> 0, n |-> 0]
    BY DEF Fold!readHoldBack, Fold!DropReceptions, Fold!DropReceptionHours, Fold!SlowFails,
           Fold!Restart, Fold!vars, Fold!FastIdle
  <2>3. 0 \in 0..MaxHour /\ 0 \in 0..(MAX_HOURS_PER_RUN - 1)
    BY DEF FoldLimits, Hours
  <2>4. /\ fast'.h \in 0..MaxHour /\ fast'.last \in 0..MaxHour
        /\ fast'.n \in 0..(MAX_HOURS_PER_RUN - 1)
    BY <2>2, <2>3 DEF DayInv, FoldTyped, Places
  <2> QED
    BY <1>1, <1>2, <2>1, <2>4 DEF DayInv, FoldTyped, Places
<1>4. DayFolds'
  BY <1>1, <1>2 DEF DayInv, DayFolds, Refolds, Fold!DayOf
<1>5. \A d \in Fold!Day : LeftBehind(d)' => LeftBehind(d)
  BY <1>1, <1>2 DEF LeftBehind
<1>6. /\ \A h \in 0..MaxHour : raw'[h] = raw[h] \/ raw'[h] = 0
      /\ hourly' = hourly \/ hourly' = [h \in 0..MaxHour |->
           IF h \in Fold!Expired(HourDays, Fold!DayOf(now)) THEN 0 ELSE hourly[h]]
  <2>1. CASE Fold!DropReceptions
    BY <2>1 DEF Fold!DropReceptions, Fold!Hour
  <2>2. CASE ~Fold!DropReceptions
    BY <2>2 DEF Fold!readHoldBack, Fold!DropReceptionHours, Fold!SlowFails, Fold!Restart,
                Fold!vars, Fold!Hour
  <2> QED
    BY <2>1, <2>2
<1>7. Tables'
  BY <1>0, <1>1, <1>6, TablesStay DEF DayInv
<1>8. ASSUME NEW d \in Fold!Day
      PROVE  \/ \A h \in Fold!HoursOf(d) : hourly'[h] = hourly[h]
             \/ \A h \in Fold!HoursOf(d) : hourly'[h] = 0
  <2>1. \A h \in Fold!HoursOf(d) : h \in 0..MaxHour /\ Fold!DayOf(h) = d
    BY <1>0, DaysAre
  <2>2. \A h \in Fold!HoursOf(d) : h \in Fold!Expired(HourDays, Fold!DayOf(now))
          <=> (d < Fold!DayOf(now) - HourDays /\ d < Fold!DayOf(now))
    BY <2>1 DEF Fold!Expired, Fold!Hour
  <2> QED
    BY <1>6, <2>1, <2>2
<1>9. now <= now' /\ wmHour <= wmHour'
  BY <1>0, <1>1, HoursAreNat
<1>10. DaysSettled'
  BY <1>0, <1>1, <1>5, <1>6, <1>8, <1>9, DaysStay
<1> QED
  BY <1>3, <1>4, <1>7, <1>10 DEF DayInv, FoldTyped

LEMMA DaysStart == ASSUME FoldLimits, Fold!Init PROVE DayInv
<1>1. /\ now = 0 /\ raw = [h \in 0..MaxHour |-> 0]
      /\ hourly = [h \in 0..MaxHour |-> 0] /\ others = [h \in 0..MaxHour |-> 0]
      /\ daily = [d \in Fold!Day |-> 0] /\ wmDay = -1 /\ faults = 0 /\ arrived = 0 /\ ahead = FALSE
      /\ fast = [at |-> "idle", h |-> 0, last |-> 0, n |-> 0]
      /\ slow = [at |-> "idle", x |-> 0, end |-> 0, wm |-> -1]
  BY DEF Fold!Init, Fold!Hour, Fold!None, Fold!FastIdle, Fold!SlowIdle
<1>2. Receptions = {}
  <2>1. \A h \in 0..MaxHour : {h} \X ((1..raw[h]) \union (1..hourly[h])) = {}
    BY <1>1
  <2> QED
    BY <2>1 DEF Receptions
<1>3. Tables
  BY <1>1, <1>2, FS_EmptySet DEF Tables, FoldLimits
<1>4. Places
  <2>1. /\ 0 \in 0..MaxHour /\ 0 \in 0..(MAX_HOURS_PER_RUN - 1)
        /\ 0 \in 0..MaxReceptions /\ 0 \in 0..MaxFaults
    BY DEF FoldLimits, Hours
  <2>2. /\ fast.h = 0 /\ fast.last = 0 /\ fast.n = 0
        /\ slow.x = 0 /\ slow.end = 0 /\ slow.wm = -1
    BY <1>1
  <2>3. /\ arrived = 0 /\ faults = 0 /\ ahead = FALSE
    BY <1>1
  <2>4. slow.x \in Int /\ slow.end \in Int /\ slow.wm \in (0..MaxHour) \union {-1}
    BY <2>2
  <2> QED
    BY <2>1, <2>2, <2>3, <2>4 DEF Places
<1>5. DayFolds
  BY <1>1 DEF DayFolds, Refolds
<1>6. \A d \in Fold!Day : ~LeftBehind(d)
  <2>1. \A d \in Fold!Day : d \in Nat
    <3>1. MaxHour \in Nat /\ Fold!DayOf(MaxHour) \in Nat
      BY DaysGoOn DEF FoldLimits, Hours
    <3> QED
      BY <3>1 DEF Fold!Day, Fold!DayOf
  <2> QED
    BY <1>1, <2>1 DEF LeftBehind
<1> QED
  BY <1>3, <1>4, <1>5, <1>6 DEF DayInv, FoldTyped, DaysSettled

LEMMA DaysKept ==
    ASSUME FoldLimits, FoldInv, DayInv, [Fold!Next]_Fold!vars PROVE DayInv'
<1>1. FoldInv' /\ Hours
  BY FoldKept DEF FoldLimits
<1> QED
  BY <1>1, DaysReceive, DaysHourEnds, DaysFast, DaysRefold, DaysBegin, DaysSum, DaysMark,
     DaysOther DEF Fold!Next, Fold!SlowStep, Fold!Done

\* Every settled day adds up, and so does every day that the watermark has passed.
LEMMA SumsAddUp == ASSUME DayInv PROVE Fold!DaysAddUp
  BY DEF DayInv, DaysSettled, Settled, LeftBehind, Fold!DaysAddUp

LEMMA FoldTypes == ASSUME FoldLimits, FoldInv, DayInv PROVE Fold!TypeOK
<1>0. Hours /\ HoursTyped /\ MaxReceptions \in Nat
  BY DEF FoldLimits, FoldInv
<1>1. \A h \in 0..MaxHour : /\ raw[h] \in 0..MaxReceptions /\ hourly[h] \in 0..MaxReceptions
                            /\ others[h] \in 0..MaxReceptions
  <2> TAKE h \in 0..MaxHour
  <2>1. raw[h] \in Nat /\ hourly[h] \in Nat /\ others[h] \in Nat
    BY <1>0 DEF HoursTyped
  <2>2. /\ raw[h] <= arrived /\ hourly[h] <= arrived /\ others[h] <= arrived
        /\ arrived \in 0..MaxReceptions
    BY DEF DayInv, FoldTyped, Tables, Places
  <2> QED
    BY <1>0, <2>1, <2>2
<1>2. /\ raw \in [0..MaxHour -> 0..MaxReceptions] /\ hourly \in [0..MaxHour -> 0..MaxReceptions]
      /\ others \in [0..MaxHour -> 0..MaxReceptions]
  BY <1>0, <1>1 DEF HoursTyped
<1>3. wmHour \in (0..MaxHour) \union {-1} /\ wmDay \in Fold!Day \union {-1}
  <2>1. wmHour \in (0..MaxHour) \union {-1}
    BY <1>0, HoursAreNat
  <2>2. PICK k \in Nat : Fold!Day = 0..k
    BY <1>0, DaysGoOn, HoursAreNat DEF Fold!Day, Fold!DayOf
  <2>3. wmDay \in Int /\ -1 <= wmDay /\ (wmDay = -1 \/ wmDay < Fold!DayOf(now))
        /\ Fold!DayOf(now) \in Fold!Day
    BY <1>0, DaysAre DEF DayInv, DayFolds
  <2> QED
    BY <2>1, <2>2, <2>3
<1>4. fast \in [at : {"idle", "hourly", "others", "mark"}, h : 0..MaxHour, last : 0..MaxHour,
                n : 0..(MAX_HOURS_PER_RUN - 1)]
  BY <1>0 DEF HoursTyped, DayInv, FoldTyped, Places
<1>5. slow \in [at : Steps, x : Int, end : Int, wm : (0..MaxHour) \union {-1}]
  BY <1>0 DEF HoursTyped, DayInv, FoldTyped, Places
<1> QED
  BY <1>0, <1>2, <1>3, <1>4, <1>5 DEF Fold!TypeOK, Fold!Hour, Fold!None, Steps, HoursTyped,
     DayInv, FoldTyped, Tables, Places

-----------------------------------------------------------------------------
(* Forwarding: types.                                                        *)

LEMMA ForwardTypes == ASSUME Settings, FwdInv PROVE Fwd!TypeOK
<1>1. Cursor /\ Listed
  BY DEF FwdInv
<1>2. /\ pass.rows \in Seq(Nat) /\ pass.last \in 0..Len(table) /\ Len(table) \in Nat
      /\ state \in {-1} \union (0..Len(table))
  BY <1>1 DEF Cursor, Fwd!None
<1>3. \A i \in DOMAIN pass.rows : pass.rows[i] \in 1..Len(table)
  <2> SUFFICES ASSUME NEW i \in DOMAIN pass.rows PROVE pass.rows[i] \in 1..Len(table)
    OBVIOUS
  <2>1. i \in 1..Len(pass.rows) /\ pass.rows[i] \in Nat
    BY <1>2
  <2>2. state # -1
    <3>1. pass.at # "idle"
      <4> SUFFICES ASSUME pass.at = "idle" PROVE FALSE
        OBVIOUS
      <4>1. pass.rows = <<>>
        BY <1>1 DEF Cursor
      <4> QED
        BY <2>1, <4>1, EmptySeq
    <3>2. pass.at \in {"idle", "send"}
      BY <1>1 DEF Cursor
    <3> QED
      BY <1>1, <3>1, <3>2 DEF Cursor, Fwd!None
  <2>3. state < pass.rows[i] /\ pass.rows[i] <= pass.last
    BY <1>1, <2>1 DEF Listed
  <2> QED
    BY <1>2, <2>1, <2>2, <2>3
<1> QED
  BY <1>1, <1>3 DEF Cursor, Row, Fwd!TypeOK, Fwd!Ids, Fwd!None

-----------------------------------------------------------------------------
(* The worker as a whole: a scene is chosen at the start and stays, so what *)
(* is proved of a job holds of the worker that runs it.                     *)

LEMMA ScenesApart ==
    MCInit => /\ scene = "fold"    => Fold!Init
              /\ scene = "carry"   => Carry!Init
              /\ scene = "forward" => Fwd!Init
              /\ scene = "send"    => Send!Init
              /\ scene = "alert"   => Alarm!Init
  BY DEF MCInit, FoldInit, CarryInit, FwdInit, AutoInit, AlarmInit

LEMMA ScenesStay ==
    [MCNext]_all => /\ scene' = scene
                    /\ scene = "fold"    => [Fold!Next]_Fold!vars
                    /\ scene = "carry"   => [Carry!Next]_Carry!vars
                    /\ scene = "forward" => [Fwd!Next]_Fwd!vars
                    /\ scene = "send"    => [Send!Next]_Send!vars
                    /\ scene = "alert"   => [Alarm!Next]_Alarm!vars
<1>1. CASE UNCHANGED all
  BY <1>1 DEF all, foldVars, carryVars, fwdVars, autoVars, alarmVars, Fold!vars, Fold!clock,
         Carry!vars, Fwd!vars, Send!vars, Send!store, Alarm!vars
<1>2. CASE MCNext
  BY <1>2 DEF MCNext, FoldStep, CarryStep, FwdStep, AutoStep, AlarmStep
<1> QED
  BY <1>1, <1>2

\* Retention drops no reception that no rollup has counted, unless an hour went by
\* without a re-fold: however long the fold was stuck or behind, however its passes
\* and the retention's interleave, and wherever they fail or the worker restarts
\* (worker/rollups.ts, worker/retention.ts).
THEOREM WorkerNothingDroppedUncounted == Hours => (MCSpec => NothingDroppedUncounted)
<1> SUFFICES ASSUME Hours PROVE MCSpec => NothingDroppedUncounted
  OBVIOUS
<1> DEFINE In == scene = "fold" => FoldInv
           Drop == scene = "fold" => Fold!DropIsCounted
<1>1. MCInit => In
  BY ScenesApart, FoldStart
<1>2. In /\ [MCNext]_all => In'
  BY ScenesStay, FoldKept
<1>3. In /\ [MCNext]_all => Drop
  BY ScenesStay, DropsCounted
<1> HIDE DEF In
<1>4. MCSpec => [][Drop]_all
  <2> HIDE DEF Drop
  <2> QED
    BY <1>1, <1>2, <1>3, PTL DEF MCSpec
<1> QED
  BY <1>4 DEF NothingDroppedUncounted

\* The worker's patch and text feed carry across no message that came on both
\* transports within the hold, and none of ours (worker/patch.ts).
THEOREM WorkerHoldsDoubling == Messages => (MCSpec => []HoldPreventsDoubling)
<1> SUFFICES ASSUME Messages PROVE MCSpec => []HoldPreventsDoubling
  OBVIOUS
<1> DEFINE In == scene = "carry" => CarryInv
<1>1. MCInit => In
  BY ScenesApart, CarryStart
<1>2. In /\ [MCNext]_all => In'
  BY ScenesStay, CarryKept
<1>3. In => HoldPreventsDoubling
  BY CarriesOnce DEF HoldPreventsDoubling
<1> HIDE DEF In
<1> QED
  BY <1>1, <1>2, <1>3, PTL DEF MCSpec

\* Under a rule for all channels the worker forwards every text, once for equal
\* ones, and no history (worker/forwarding.ts).
THEOREM WorkerForwardsEveryText ==
    Settings /\ Unlimited => (MCSpec => []EveryTextForwarded)
<1> SUFFICES ASSUME Settings, Unlimited PROVE MCSpec => []EveryTextForwarded
  OBVIOUS
<1> DEFINE In == scene = "forward" => FwdInv /\ Broadcasts
<1>1. MCInit => In
  BY ScenesApart, FwdStart, BroadcastsStart
<1>2. In /\ [MCNext]_all => In'
  BY ScenesStay, FwdKept, BroadcastsStay
<1>3. In => EveryTextForwarded
  BY SentOnce, EveryTextCovered DEF EveryTextForwarded
<1> HIDE DEF In
<1> QED
  BY <1>1, <1>2, <1>3, PTL DEF MCSpec

\* The automatic senders keep their cooldowns, however rows wait, fail or are
\* settled and wherever the tick is cut off, and what they queue behind an outbox
\* that does not drain is bounded (worker/autoresponder.ts, spamnudge.ts,
\* traceroute.ts, automations.ts).
THEOREM WorkerNeverTooSoon == Senders => (MCSpec => []NeverTooSoon)
<1> SUFFICES ASSUME Senders PROVE MCSpec => []NeverTooSoon
  OBVIOUS
<1> DEFINE In == scene = "send" => SendInv
<1>1. MCInit => In
  BY ScenesApart, SendStart
<1>2. In /\ [MCNext]_all => In'
  BY ScenesStay, SendKept
<1>3. In => NeverTooSoon
  BY BacklogStays DEF NeverTooSoon, SendInv
<1> HIDE DEF In
<1> QED
  BY <1>1, <1>2, <1>3, PTL DEF MCSpec

\* Every duty of the worker that acts first and marks afterwards repeats itself
\* once for each failure between the two, and no more: a message is carried and
\* published once, a text answered once however often it is looked at, a round
\* queued once, an alert told once.  A message is answered once because the
\* cooldown of its sender outlasts the time for which it is looked at
\* (worker/patch.ts, textfeed.ts, autoresponder.ts, automations.ts, alerts.ts).
THEOREM WorkerNothingTwice ==
    Messages /\ IsFiniteSet(Msg) /\ Kinds /\ CooldownCovers /\ Bounds
      => (MCSpec => []NothingTwice)
<1> SUFFICES ASSUME Messages, IsFiniteSet(Msg), Kinds, CooldownCovers, Bounds
             PROVE  MCSpec => []NothingTwice
  OBVIOUS
<1> DEFINE In == /\ scene = "carry" => CarryInv /\ RoundInv
                 /\ scene = "send"  => SendInv /\ Typed /\ Answered /\ Paid
                 /\ scene = "alert" => AlarmInv
<1>0. Senders
  BY DEF Kinds
<1>1. MCInit => In
  BY <1>0, ScenesApart, CarryStart, RoundStart, SendStart, TypedStart, AnsweredStart,
     PaidStart, AlarmStart
<1>2. In /\ [MCNext]_all => In'
  <2> SUFFICES ASSUME In, [MCNext]_all PROVE In'
    OBVIOUS
  <2>1. scene' = scene
    BY ScenesStay
  <2>2. ASSUME scene = "carry" PROVE CarryInv' /\ RoundInv'
    BY <2>2, ScenesStay, CarryKept, RoundKept
  <2>3. ASSUME scene = "send" PROVE SendInv' /\ Typed' /\ Answered' /\ Paid'
    <3>1. SendInv /\ Typed /\ Answered /\ Paid /\ [Send!Next]_Send!vars
      BY <2>3, ScenesStay
    <3>2. SendInv'
      BY <1>0, <3>1, SendKept
    <3> QED
      BY <3>1, <3>2, TypedStep, AnsweredStep, PaidStep
  <2>4. ASSUME scene = "alert" PROVE AlarmInv'
    BY <2>4, ScenesStay, AlarmKept
  <2> QED
    BY <2>1, <2>2, <2>3, <2>4
<1>3. In => NothingTwice
  BY ToldOnceEach, OneAnswer, RepeatsPaid DEF NothingTwice, RoundInv
<1> HIDE DEF In
<1> QED
  BY <1>1, <1>2, <1>3, PTL DEF MCSpec

\* A day before the daily watermark is the sum of its hours, although receptions
\* come late, hours are folded again and the two loops interleave and fail
\* anywhere, unless the watermark passed hours the hourly fold had not reached
\* (worker/rollups.ts, worker/retention.ts).
THEOREM WorkerDaysAddUp == FoldLimits => (MCSpec => []DaysAddUp)
<1> SUFFICES ASSUME FoldLimits PROVE MCSpec => []DaysAddUp
  OBVIOUS
<1> DEFINE In == scene = "fold" => FoldInv /\ DayInv
<1>0. Hours
  BY DEF FoldLimits
<1>1. MCInit => In
  BY <1>0, ScenesApart, FoldStart, DaysStart
<1>2. In /\ [MCNext]_all => In'
  BY <1>0, ScenesStay, FoldKept, DaysKept
<1>3. In => DaysAddUp
  BY SumsAddUp DEF DaysAddUp
<1> HIDE DEF In
<1> QED
  BY <1>1, <1>2, <1>3, PTL DEF MCSpec

\* Every variable of every duty of the worker keeps its type: no cursor runs past
\* its table, no watermark past the clock's bound and no count past its limit
\* (worker/).
THEOREM WorkerTypeOK ==
    FoldLimits /\ Messages /\ Settings /\ Kinds /\ Bounds => (MCSpec => []TypeOK)
<1> SUFFICES ASSUME FoldLimits, Messages, Settings, Kinds, Bounds
             PROVE  MCSpec => []TypeOK
  OBVIOUS
<1> DEFINE In == /\ scene \in {"fold", "carry", "forward", "send", "alert"}
                 /\ scene = "fold"    => FoldInv /\ DayInv
                 /\ scene = "carry"   => CarryInv
                 /\ scene = "forward" => FwdInv
                 /\ scene = "send"    => SendInv /\ Typed
                 /\ scene = "alert"   => AlarmInv
<1>0. Hours /\ Senders
  BY DEF FoldLimits, Kinds
<1>1. MCInit => In
  <2> SUFFICES ASSUME MCInit PROVE In
    OBVIOUS
  <2>1. scene \in {"fold", "carry", "forward", "send", "alert"}
    BY DEF MCInit, FoldInit, CarryInit, FwdInit, AutoInit, AlarmInit
  <2> QED
    BY <1>0, <2>1, ScenesApart, FoldStart, DaysStart, CarryStart, FwdStart, SendStart,
       TypedStart, AlarmStart
<1>2. In /\ [MCNext]_all => In'
  <2> SUFFICES ASSUME In, [MCNext]_all PROVE In'
    OBVIOUS
  <2>1. scene' = scene
    BY ScenesStay
  <2>2. ASSUME scene = "fold" PROVE FoldInv' /\ DayInv'
    BY <1>0, <2>2, ScenesStay, FoldKept, DaysKept
  <2>3. ASSUME scene = "carry" PROVE CarryInv'
    BY <2>3, ScenesStay, CarryKept
  <2>4. ASSUME scene = "forward" PROVE FwdInv'
    BY <2>4, ScenesStay, FwdKept
  <2>5. ASSUME scene = "send" PROVE SendInv' /\ Typed'
    BY <1>0, <2>5, ScenesStay, SendKept, TypedStep
  <2>6. ASSUME scene = "alert" PROVE AlarmInv'
    BY <2>6, ScenesStay, AlarmKept
  <2> QED
    BY <2>1, <2>2, <2>3, <2>4, <2>5, <2>6
<1>3. In => TypeOK
  <2> SUFFICES ASSUME In PROVE TypeOK
    OBVIOUS
  <2>1. CASE scene = "fold"
    BY <2>1, FoldTypes DEF TypeOK
  <2>2. CASE scene = "carry"
    BY <2>2 DEF TypeOK, CarryInv
  <2>3. CASE scene = "forward"
    BY <2>3, ForwardTypes DEF TypeOK
  <2>4. CASE scene = "send"
    BY <2>4 DEF TypeOK, Typed
  <2>5. CASE scene = "alert"
    BY <2>5 DEF TypeOK, AlarmInv
  <2> QED
    BY <2>1, <2>2, <2>3, <2>4, <2>5
<1> HIDE DEF In
<1> QED
  BY <1>1, <1>2, <1>3, PTL DEF MCSpec

=============================================================================
