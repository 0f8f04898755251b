------------------------------- MODULE Rollups -------------------------------
(* worker/rollups.ts, worker/retention.ts, db/partitions.ts and the two loops *)
(* of worker/index.ts that run them.                                          *)
(*                                                                            *)
(* Receptions arrive under the hour their gateway reports, which may be past. *)
(* The fast loop folds each completed hour behind a watermark; the slow loop  *)
(* folds the last hours again, adds hours up to days behind a second          *)
(* watermark, and drops expired partitions.  The two loops interleave         *)
(* statement by statement.  A row is reduced to the number of receptions in   *)
(* it: the statistics are functions of the same rows.                         *)
EXTENDS Integers, FiniteSets, FiniteSetsExt

CONSTANTS MaxHour,        \* bound on the clock, in hours
          DayLength,      \* hours of a day (24)
          MaxReceptions,  \* bound on the receptions altogether
          LateHours,      \* how many hours late a reception may arrive
          RefoldHours,    \* analytics.rollups.refold_hours
          RawDays,        \* retention.decoded_packet_days
          HourDays,       \* retention.reception_rollup_hour_days
          MAX_HOURS_PER_RUN,
          MaxFaults       \* bound on failed statements and crashes

Hour == 0..MaxHour
Day  == 0..(MaxHour \div DayLength)
None == -1                          \* a watermark that was never set
DayOf(h)   == h \div DayLength
HoursOf(d) == {h \in Hour : DayOf(h) = d}

VARIABLES
    now,        \* the current hour
    raw,        \* receptions, by the hour of rx_time
    hourly,     \* reception_rollup_hour
    others,     \* node_, gateway_ and mesh_rollup_hour
    daily,      \* reception_rollup_day
    wmHour, wmDay,  \* rollup_watermark
    fast,       \* the fold under way: its next statement, hour, end and count
    slow,       \* the slow loop: where it is and the hour or day it is at
    faults,
    arrived,    \* bound: how many receptions there have been
    refolded,   \* history: a re-fold of all recent hours ended in this hour
    missed,     \* history: an hour went by without one
    ahead       \* history: a day was left behind before its hours were folded

clock == <<refolded, missed>>
vars  == <<now, raw, hourly, others, daily, wmHour, wmDay, fast, slow, faults,
           clock, ahead, arrived>>

FastIdle == [at |-> "idle", h |-> 0, last |-> 0, n |-> 0]
SlowIdle == [at |-> "idle", x |-> 0, end |-> 0, wm |-> None]

TypeOK ==
    /\ now \in Hour
    /\ raw \in [Hour -> 0..MaxReceptions]
    /\ hourly \in [Hour -> 0..MaxReceptions] /\ others \in [Hour -> 0..MaxReceptions]
    /\ daily \in [Day -> 0..MaxReceptions]
    /\ wmHour \in Hour \union {None} /\ wmDay \in Day \union {None}
    /\ fast \in [at : {"idle", "hourly", "others", "mark"}, h : Hour, last : Hour,
                 n : 0..(MAX_HOURS_PER_RUN - 1)]
    /\ slow \in [at : {"idle", "refold", "refoldOthers", "daily", "fold", "mark",
                       "retention", "drop", "dropHours"},
                 x : Int, end : Int, wm : Hour \union {None}]
    /\ faults \in 0..MaxFaults /\ arrived \in 0..MaxReceptions
    /\ refolded \in BOOLEAN /\ missed \in BOOLEAN /\ ahead \in BOOLEAN

Init ==
    /\ now = 0
    /\ raw = [h \in Hour |-> 0]
    /\ hourly = [h \in Hour |-> 0] /\ others = [h \in Hour |-> 0]
    /\ daily = [d \in Day |-> 0]
    /\ wmHour = None /\ wmDay = None
    /\ fast = FastIdle /\ slow = SlowIdle
    /\ faults = 0 /\ arrived = 0
    /\ refolded = FALSE /\ missed = FALSE /\ ahead = FALSE

-----------------------------------------------------------------------------
(* Ingest and time                                                           *)

Receive ==
    \E h \in Hour :
      /\ h <= now /\ now - h <= LateHours
      /\ arrived < MaxReceptions
      /\ arrived' = arrived + 1
      /\ raw' = [raw EXCEPT ![h] = @ + 1]
      /\ UNCHANGED <<now, hourly, others, daily, wmHour, wmDay, fast, slow, faults, clock, ahead>>

\* Passes take minutes: none is under way when the hour ends.
HourEnds ==
    /\ now < MaxHour /\ slow.at = "idle" /\ fast.at = "idle"
    /\ now' = now + 1
    /\ missed' = (missed \/ ~refolded)
    /\ refolded' = FALSE
    /\ UNCHANGED <<raw, hourly, others, daily, wmHour, wmDay, fast, slow, faults, ahead, arrived>>

-----------------------------------------------------------------------------
(* One fold statement: INSERT ... SELECT ... GROUP BY ... ON DUPLICATE KEY   *)
(* UPDATE.  An hour without rows yields no group and leaves what is there.   *)

Fold(table, h) == IF raw[h] > 0 THEN [table EXCEPT ![h] = raw[h]] ELSE table

\* SUM(receptions) over the hours of a day: they are numbered and counted.
DaySum(d) == Cardinality(UNION {{h} \X (1..hourly[h]) : h \in HoursOf(d)})

-----------------------------------------------------------------------------
(* The fast loop: runHourlyRollups                                           *)

EarliestReceptionHour == Min({h \in Hour : raw[h] > 0})

\* The current hour is incomplete: exclusive bound.
LastComplete == now

\* The hour after the watermark, or that of the first reception.
runHourlyRollups ==
    /\ fast.at = "idle"
    /\ wmHour # None \/ \E h \in Hour : raw[h] > 0
    /\ LET h == IF wmHour # None THEN wmHour + 1 ELSE EarliestReceptionHour
       IN /\ h < LastComplete
          /\ fast' = [at |-> "hourly", h |-> h, last |-> LastComplete, n |-> 0]
    /\ UNCHANGED <<now, raw, hourly, others, daily, wmHour, wmDay, slow, faults, clock, ahead, arrived>>

foldReceptionHour ==
    /\ fast.at = "hourly"
    /\ hourly' = Fold(hourly, fast.h)
    /\ fast' = [fast EXCEPT !.at = "others"]
    /\ UNCHANGED <<now, raw, others, daily, wmHour, wmDay, slow, faults, clock, ahead, arrived>>

foldOtherHours ==
    /\ fast.at = "others"
    /\ others' = Fold(others, fast.h)
    /\ fast' = [fast EXCEPT !.at = "mark"]
    /\ UNCHANGED <<now, raw, hourly, daily, wmHour, wmDay, slow, faults, clock, ahead, arrived>>

\* The limit of a pass counted one hour late.
MarkHour_OneMore ==
    /\ fast.at = "mark"
    /\ wmHour' = fast.h
    /\ fast' = IF fast.n < MAX_HOURS_PER_RUN /\ fast.h + 1 < fast.last
               THEN [fast EXCEPT !.at = "hourly", !.h = @ + 1, !.n = @ + 1]
               ELSE FastIdle
    /\ UNCHANGED <<now, raw, hourly, others, daily, wmDay, slow, faults, clock, ahead, arrived>>

\* setWatermark, and the loop's condition for the next hour.
MarkHour ==
    /\ fast.at = "mark"
    /\ wmHour' = fast.h
    /\ fast' = IF fast.n + 1 < MAX_HOURS_PER_RUN /\ fast.h + 1 < fast.last
               THEN [fast EXCEPT !.at = "hourly", !.h = @ + 1, !.n = @ + 1]
               ELSE FastIdle
    /\ UNCHANGED <<now, raw, hourly, others, daily, wmDay, slow, faults, clock, ahead, arrived>>

\* A statement that throws ends the pass: safe() swallows it.
FastFails ==
    /\ fast.at # "idle" /\ faults < MaxFaults
    /\ faults' = faults + 1
    /\ fast' = FastIdle
    /\ UNCHANGED <<now, raw, hourly, others, daily, wmHour, wmDay, slow, clock, ahead, arrived>>

-----------------------------------------------------------------------------
(* The slow loop: refoldRecentHours, runDailyRollups, runRetention           *)

\* Hours the frontier has claimed, newest first.
RefoldSet(wm) == {h \in Hour : h < now /\ h >= now - RefoldHours /\ h <= wm}
RefoldFrom(h) == {g \in RefoldSet(slow.wm) : g <= h}

\* The next hour to fold again, or on to the daily fold.
RefoldAt(todo, wm) ==
    IF todo = {} THEN [at |-> "daily", x |-> 0, end |-> 0, wm |-> None]
    ELSE [at |-> "refold", x |-> Max(todo), end |-> 0, wm |-> wm]

SlowStarts ==
    /\ slow.at = "idle" /\ ~refolded
    /\ slow' = RefoldAt(RefoldSet(wmHour), wmHour)
    /\ refolded' = (RefoldSet(wmHour) = {})
    /\ UNCHANGED <<now, raw, hourly, others, daily, wmHour, wmDay, fast, faults, missed, ahead, arrived>>

RefoldReceptions ==
    /\ slow.at = "refold"
    /\ hourly' = Fold(hourly, slow.x)
    /\ slow' = [slow EXCEPT !.at = "refoldOthers"]
    /\ UNCHANGED <<now, raw, others, daily, wmHour, wmDay, fast, faults, clock, ahead, arrived>>

RefoldOthers ==
    /\ slow.at = "refoldOthers"
    /\ others' = Fold(others, slow.x)
    /\ LET todo == RefoldFrom(slow.x - 1)
       IN slow' = RefoldAt(todo, slow.wm) /\ refolded' = (todo = {})
    /\ UNCHANGED <<now, raw, hourly, daily, wmHour, wmDay, fast, faults, missed, ahead, arrived>>

EarliestRollupDay == DayOf(Min({h \in Hour : hourly[h] > 0}))

\* The day after the watermark, as in the hourly fold.
FirstDay_After == IF wmDay # None THEN wmDay + 1 ELSE EarliestRollupDay

\* The watermark day again, or the first day with an hour.
FirstDay == IF wmDay # None THEN wmDay ELSE EarliestRollupDay

\* History: before this day there are hours that the fold has still to come to.
Unfolded(d) == \E h \in Hour : DayOf(h) < d /\ h > wmHour /\ raw[h] > 0

\* Up to yesterday.
runDailyRollups ==
    /\ slow.at = "daily"
    /\ LET some == wmDay # None \/ \E h \in Hour : hourly[h] > 0
       IN IF some /\ FirstDay < DayOf(now)
          THEN /\ slow' = [at |-> "fold", x |-> FirstDay, end |-> DayOf(now), wm |-> None]
               /\ ahead' = (ahead \/ Unfolded(FirstDay))
          ELSE slow' = [SlowIdle EXCEPT !.at = "retention"] /\ UNCHANGED ahead
    /\ UNCHANGED <<now, raw, hourly, others, daily, wmHour, wmDay, fast, faults, clock, arrived>>

foldReceptionDay ==
    /\ slow.at = "fold"
    /\ daily' = IF DaySum(slow.x) > 0 THEN [daily EXCEPT ![slow.x] = DaySum(slow.x)] ELSE daily
    /\ ahead' = (ahead \/ (slow.x + 1 < slow.end /\ Unfolded(slow.x + 1)))
    /\ slow' = [slow EXCEPT !.at = "mark"]
    /\ UNCHANGED <<now, raw, hourly, others, wmHour, wmDay, fast, faults, clock, arrived>>

MarkDay ==
    /\ slow.at = "mark"
    /\ wmDay' = slow.x
    /\ slow' = IF slow.x + 1 < slow.end
               THEN [slow EXCEPT !.at = "fold", !.x = @ + 1]
               ELSE [SlowIdle EXCEPT !.at = "retention"]
    /\ UNCHANGED <<now, raw, hourly, others, daily, wmHour, fast, faults, clock, ahead, arrived>>

\* Raw partitions are held back to the fold's watermark, read first.
readHoldBack ==
    /\ slow.at = "retention"
    /\ slow' = [SlowIdle EXCEPT !.at = "drop", !.wm = wmHour]
    /\ UNCHANGED <<now, raw, hourly, others, daily, wmHour, wmDay, fast, faults, clock, ahead, arrived>>

\* dropExpiredPartitions: days before the cutoff.
Expired(retainDays, holdBack) ==
    LET cutoff == DayOf(now) - retainDays
    IN {h \in Hour : DayOf(h) < cutoff /\ DayOf(h) < holdBack}

\* Raw partitions dropped by age alone.
HoldBack_None(wm) == DayOf(now)

\* No watermark holds back everything: new Date(0).
HoldBack(wm) == IF wm = None THEN 0 ELSE DayOf(wm)

\* The raw tables first.
DropReceptions ==
    /\ slow.at = "drop"
    /\ raw' = [h \in Hour |-> IF h \in Expired(RawDays, HoldBack(slow.wm)) THEN 0 ELSE raw[h]]
    /\ slow' = [SlowIdle EXCEPT !.at = "dropHours"]
    /\ UNCHANGED <<now, hourly, others, daily, wmHour, wmDay, fast, faults, clock, ahead, arrived>>

\* Then the hourly rollups, by age alone.
DropReceptionHours ==
    /\ slow.at = "dropHours"
    /\ hourly' = [h \in Hour |-> IF h \in Expired(HourDays, DayOf(now)) THEN 0 ELSE hourly[h]]
    /\ slow' = SlowIdle
    /\ UNCHANGED <<now, raw, others, daily, wmHour, wmDay, fast, faults, clock, ahead, arrived>>

\* Each duty runs under its own safe(): the next one goes on.
SlowFails ==
    /\ slow.at # "idle" /\ faults < MaxFaults
    /\ faults' = faults + 1
    /\ slow' = CASE slow.at \in {"refold", "refoldOthers"} -> [SlowIdle EXCEPT !.at = "daily"]
                 [] slow.at \in {"daily", "fold", "mark"}  -> [SlowIdle EXCEPT !.at = "retention"]
                 \* duty() returns null: held back entirely
                 [] slow.at = "retention"                  -> [SlowIdle EXCEPT !.at = "drop"]
                 [] slow.at = "drop"                       -> [SlowIdle EXCEPT !.at = "dropHours"]
                 [] slow.at = "dropHours"                  -> SlowIdle
    /\ UNCHANGED <<now, raw, hourly, others, daily, wmHour, wmDay, fast, clock, ahead, arrived>>

-----------------------------------------------------------------------------
\* The process ends and starts again: retention runs before the first fold.
Restart ==
    /\ faults < MaxFaults
    /\ faults' = faults + 1
    /\ fast' = FastIdle
    /\ slow' = [SlowIdle EXCEPT !.at = "retention"]
    /\ UNCHANGED <<now, raw, hourly, others, daily, wmHour, wmDay, clock, ahead, arrived>>

Done ==
    /\ now = MaxHour /\ fast.at = "idle" /\ slow.at = "idle"
    /\ UNCHANGED vars

FastStep == runHourlyRollups \/ foldReceptionHour \/ foldOtherHours \/ MarkHour
SlowStep ==
    \/ SlowStarts \/ RefoldReceptions \/ RefoldOthers
    \/ runDailyRollups \/ foldReceptionDay \/ MarkDay
    \/ readHoldBack \/ DropReceptions \/ DropReceptionHours

Next == Receive \/ HourEnds \/ FastStep \/ FastFails \/ SlowStep \/ SlowFails \/ Restart \/ Done

\* The intervals fire and their statements are executed.
Fairness == WF_vars(FastStep) /\ WF_vars(SlowStep)

Spec == Init /\ [][Next]_vars
FairSpec == Spec /\ Fairness

-----------------------------------------------------------------------------
(* Properties                                                                *)

\* A raw partition is the only copy of what no rollup has counted.  It goes only
\* when every reception in it is in the hourly tables (or was, if its hour is past
\* their own retention), however long the fold was stuck and whenever the worker
\* restarted, as long as the hours in which late receptions arrive are folded again.
DropIsCounted ==
    \A h \in Hour :
        raw'[h] < raw[h] /\ ~missed =>
            /\ others[h] = raw[h]
            /\ hourly[h] = raw[h] \/ h \in Expired(HourDays, DayOf(now))
NothingDroppedUncounted == [][DropIsCounted]_vars

\* The daily fold leaves every day before its watermark alone: each must then be
\* the sum of its hours, although late receptions change hours and the loops
\* interleave, unless the watermark passed a day the hourly fold had not reached.
AddedUp(d) == DaySum(d) > 0 => daily[d] = DaySum(d)
DaysAddUp == ~ahead => \A d \in Day : d < wmDay => AddedUp(d)

\* The same however far the hourly fold has come: "watermark-driven so restarts
\* resume cleanly" (rollups.ts).
DaysAlwaysAddUp == \A d \in Day : d < wmDay => AddedUp(d)

\* The watermark reaches the last complete hour, also after a long stop and
\* failed passes, once there is something to fold.
CaughtUp == \/ wmHour >= now - 1
            \/ wmHour = None /\ \A h \in Hour : h < now => raw[h] = 0
FoldCatchesUp == []<>CaughtUp
=============================================================================
