------------------------------ MODULE MCWorker -------------------------------
(* The worker's loops, each a scene of its own: the folds and the retention,  *)
(* the message patch and the text feed, forwarding, the automatic senders and *)
(* the alerts.  A behaviour is one of the scenes, chosen at the start; they   *)
(* share the process and the database server, but no table that two of them   *)
(* write.                                                                     *)
EXTENDS Integers, Sequences, FiniteSets

CONSTANTS MaxHour, DayLength, MaxReceptions, LateHours,   \* Rollups
          RefoldHours, RawDays, HourDays, MAX_HOURS_PER_RUN,
          Msg, NativeUplink, Env,                         \* Relay
          Channel, Text, Channels, Direct, Window, LIMIT, \* Forward
          MaxMessages, MaxTime,
          Rule, Key, OneShot, MaxChanges,                 \* Alerts
          Node, Duties, Transports, Lookback, Ahead,      \* AutoTx
          Cooldown, Quiet, Threshold, Rescan, Reconfirm,
          BACKLOG_MAX, PerRun, Horizon, MaxTexts,
          MaxFaults

VARIABLES
    scene, now, faults, pass,
    raw, hourly, others, daily, wmHour, wmDay, fast, slow, arrived, refolded,
    missed, ahead,
    msg, rec, heard, up, uplinks, queued, fed,
    table, state, sent, since,
    on, text, outbox, scanned, okAt, asked, alerted, born,
    holds, enabled, rows, told, changes

foldVars == <<raw, hourly, others, daily, wmHour, wmDay, fast, slow, arrived,
              refolded, missed, ahead>>
carryVars == <<msg, rec, heard, up, uplinks, queued, fed>>
fwdVars == <<table, state, sent, since>>
autoVars == <<on, text, outbox, scanned, okAt, asked, alerted, born>>
alarmVars == <<holds, enabled, rows, told, changes>>
all == <<scene, now, faults, pass, foldVars, carryVars, fwdVars, autoVars,
        alarmVars>>

\* A variable that the scene does not have.
Off == "off"
FoldOff ==
    /\ raw = Off /\ hourly = Off /\ others = Off /\ daily = Off
    /\ wmHour = Off /\ wmDay = Off /\ fast = Off /\ slow = Off
    /\ arrived = Off /\ refolded = Off /\ missed = Off /\ ahead = Off
CarryOff ==
    /\ msg = Off /\ rec = Off /\ heard = Off /\ up = Off /\ uplinks = Off
    /\ queued = Off /\ fed = Off
FwdOff ==
    /\ table = Off /\ state = Off /\ sent = Off /\ since = Off
AutoOff ==
    /\ on = Off /\ text = Off /\ outbox = Off /\ scanned = Off /\ okAt = Off
    /\ asked = Off /\ alerted = Off /\ born = Off
AlarmOff ==
    /\ holds = Off /\ enabled = Off /\ rows = Off /\ told = Off
    /\ changes = Off

Fold == INSTANCE Rollups
Carry == INSTANCE Relay
Fwd == INSTANCE Forward
Send == INSTANCE AutoTx WITH Settings <- Duties, MaxTime <- Horizon
Alarm == INSTANCE Alerts

------------------------------------------------------------------------------
FoldInit ==
    /\ scene = "fold" /\ Fold!Init /\ pass = Off /\ CarryOff /\ FwdOff
    /\ AutoOff /\ AlarmOff
FoldStep(A) ==
    /\ scene = "fold" /\ A
    /\ UNCHANGED <<scene, pass, carryVars, fwdVars, autoVars, alarmVars>>

CarryInit ==
    /\ scene = "carry" /\ Carry!Init /\ now = Off /\ FoldOff /\ FwdOff
    /\ AutoOff /\ AlarmOff
CarryStep(A) ==
    /\ scene = "carry" /\ A
    /\ UNCHANGED <<scene, now, foldVars, fwdVars, autoVars, alarmVars>>

FwdInit ==
    /\ scene = "forward" /\ Fwd!Init /\ FoldOff /\ CarryOff /\ AutoOff
    /\ AlarmOff
FwdStep(A) ==
    /\ scene = "forward" /\ A
    /\ UNCHANGED <<scene, foldVars, carryVars, autoVars, alarmVars>>

AutoInit ==
    /\ scene = "send" /\ Send!Init /\ FoldOff /\ CarryOff /\ FwdOff
    /\ AlarmOff
AutoStep(A) ==
    /\ scene = "send" /\ A
    /\ UNCHANGED <<scene, foldVars, carryVars, fwdVars, alarmVars>>

AlarmInit ==
    /\ scene = "alert" /\ Alarm!Init /\ now = Off /\ FoldOff /\ CarryOff
    /\ FwdOff /\ AutoOff
AlarmStep(A) ==
    /\ scene = "alert" /\ A
    /\ UNCHANGED <<scene, now, foldVars, carryVars, fwdVars, autoVars>>

MCInit == FoldInit \/ CarryInit \/ FwdInit \/ AutoInit \/ AlarmInit

MCNext ==
    \/ FoldStep(Fold!Next)
    \/ CarryStep(Carry!Next)
    \/ FwdStep(Fwd!Next)
    \/ AutoStep(Send!Next)
    \/ AlarmStep(Alarm!Next)

MCSpec == MCInit /\ [][MCNext]_all

\* Each scene with the fairness of its module.
MCFairSpec ==
    /\ MCSpec
    /\ WF_all(FoldStep(Fold!FastStep))
    /\ WF_all(FoldStep(Fold!SlowStep))
    /\ WF_all(CarryStep(Carry!Tick))
    /\ WF_all(AlarmStep(Alarm!evaluateAlerts))

------------------------------------------------------------------------------
\* Every variable has its type, in every scene.
TypeOK ==
    CASE scene = "fold"    -> Fold!TypeOK
      [] scene = "carry"   -> Carry!TypeOK
      [] scene = "forward" -> Fwd!TypeOK
      [] scene = "send"    -> Send!TypeOK
      [] scene = "alert"   -> Alarm!TypeOK

\* Rollups: a day is the sum of its hours (rollups.ts, the daily fold).
DaysAddUp == scene = "fold" => Fold!DaysAddUp

\* Rollups: retention drops no raw hour that the hourly tables lack.
NothingDroppedUncounted == [][scene = "fold" => Fold!DropIsCounted]_all

\* Relay: a message heard on both transports within the hold is not carried
\* across, and what we sent ourselves never is (patch.ts).
HoldPreventsDoubling ==
    scene = "carry" => Carry!HoldPreventsDoubling /\ Carry!NoEcho

\* Forward: of equal texts one is forwarded, and no history (forwarding.ts).
EveryTextForwarded ==
    scene = "forward" => Fwd!EveryTextForwarded /\ Fwd!NoHistoryNoRepeats

\* AutoTx: no automatic sender is quicker than its cooldown, nor piles up rows
\* behind a queue that does not drain (autoresponder.ts, spamnudge.ts, ...).
NeverTooSoon == scene = "send" => Send!NeverTooSoon /\ Send!BacklogBounded

\* Every duty that acts first and marks afterwards, all of them between two awaits:
\* what is published, answered, broadcast or reported is so once, and a failure
\* between the two steps is the only thing that repeats it.
NothingTwice ==
    /\ scene = "carry" => Carry!RepeatsNeedFaults
    /\ scene = "send"  => Send!RepeatsNeedFaults /\ Send!AnsweredOnce
    /\ scene = "alert" => Alarm!ToldOnce

\* The loops go on: the hourly fold catches up after a stop, an eligible message
\* reaches the feed when the broker is back, the open alerts come to be what holds.
DutiesGoOn ==
    /\ []<>(scene = "fold" => Fold!CaughtUp)
    /\ <>[](scene = "carry" /\ Carry!Due(1)) => <>(scene = "carry" /\ Carry!Fed(1))
    /\ LET a == <<"level", "k1">> IN
         /\ <>[](scene = "alert" /\ Alarm!Fires(a)) => <>[](scene = "alert" /\ Alarm!Opened(a))
         /\ <>[](scene = "alert" /\ Alarm!Clear(a)) => <>[](scene = "alert" /\ Alarm!Closed(a))
==============================================================================
