------------------------------- MODULE Forward -------------------------------
(* worker/forwarding.ts with worker/apprise.ts: one enabled rule that         *)
(* forwards channel messages to its targets, behind a cursor.                 *)
(*                                                                            *)
(* Messages become visible in the order of their ids: one ingest transaction  *)
(* writes them at a time.  A rule may be limited to channels; a message that  *)
(* repeats an earlier one of the same sender within 15 minutes is passed      *)
(* over.  A repeat is told by its text alone, so a text stands for a sender   *)
(* and a body.  Titles, names and the targets' schemes are left out.          *)
EXTENDS Integers, Sequences, FiniteSets, FiniteSetsExt

CONSTANTS Channel, Text,
          Channels,     \* rule.channels; {} is every channel
          Direct,       \* may a message be a direct one?
          Window,       \* the 15 minutes
          LIMIT,        \* rows of a pass (100)
          MaxMessages, MaxTime, MaxFaults

VARIABLES
    table,    \* text_message, by id
    now,
    state,    \* forward_state.last_text_id, None before the rule's first pass
    pass,     \* the pass under way: where it is, rows to send, its cursor
    sent,     \* how often each message was forwarded
    faults,
    since     \* history: the id at which the rule's first pass began

vars == <<table, now, state, pass, sent, faults, since>>

None == -1
Idle == [at |-> "idle", rows |-> <<>>, last |-> 0]
Ids  == 1..Len(table)

TypeOK ==
    /\ table \in Seq([ch : Channel, text : Text, dm : BOOLEAN, t : 0..MaxTime])
    /\ now \in 0..MaxTime
    /\ state \in {None} \union (0..Len(table))
    /\ pass.at \in {"idle", "send", "new"} /\ pass.last \in 0..Len(table)
    /\ \A i \in DOMAIN pass.rows : pass.rows[i] \in Ids
    /\ sent \in [1..MaxMessages -> Nat] /\ faults \in 0..MaxFaults
    /\ since \in {None} \union (0..Len(table))

Init ==
    /\ table = <<>> /\ now = 0
    /\ state = None /\ pass = Idle
    /\ sent = [m \in 1..MaxMessages |-> 0]
    /\ faults = 0 /\ since = None

-----------------------------------------------------------------------------
Receive ==
    /\ Len(table) < MaxMessages
    /\ \E c \in Channel, x \in Text, dm \in (IF Direct THEN BOOLEAN ELSE {FALSE}) :
         table' = Append(table, [ch |-> c, text |-> x, dm |-> dm, t |-> now])
    /\ UNCHANGED <<now, state, pass, sent, faults, since>>

TimePasses ==
    /\ now < MaxTime
    /\ now' = now + 1
    /\ UNCHANGED <<table, state, pass, sent, faults, since>>

-----------------------------------------------------------------------------
\* A rule without state starts at the end of the table.
FirstPass ==
    /\ pass = Idle /\ state = None
    /\ state' = Len(table)
    /\ since' = Len(table)
    /\ UNCHANGED <<table, now, pass, sent, faults>>

\* EXISTS(... d.id < t.id ...)
Repeats_OrRepeated(m) ==
    \E d \in Ids \ {m} : table[d].text = table[m].text /\ table[d].t >= table[m].t - Window

Repeats(m) ==
    \E d \in Ids : d < m /\ table[d].text = table[m].text /\ table[d].t >= table[m].t - Window

\* Rows after the cursor, broadcasts on the rule's channels, in id order.
Selected ==
    LET match == {m \in Ids : /\ m > state /\ ~table[m].dm
                              /\ Channels = {} \/ table[m].ch \in Channels}
    IN {m \in match : Cardinality({d \in match : d <= m}) <= LIMIT}

\* The rows of a pass, the repeated ones left out; the cursor passes them all.
ListRows ==
    /\ pass = Idle /\ state # None
    /\ Selected # {}
    /\ pass' = [at |-> "send", last |-> Max(Selected),
                rows |-> LET fresh == {m \in Selected : ~Repeats(m)}
                         IN [i \in 1..Cardinality(fresh) |->
                               CHOOSE m \in fresh : Cardinality({d \in fresh : d <= m}) = i]]
    /\ UNCHANGED <<table, now, state, sent, faults, since>>

\* notify() never throws: a target that fails is logged.
SendRow ==
    /\ pass.at = "send" /\ pass.rows # <<>>
    /\ sent' = [sent EXCEPT ![Head(pass.rows)] = @ + 1]
    /\ pass' = [pass EXCEPT !.rows = Tail(@)]
    /\ UNCHANGED <<table, now, state, faults, since>>

\* The new-node events follow, and then the cursor is saved.
SaveState ==
    /\ pass.at = "send" /\ pass.rows = <<>>
    /\ state' = pass.last
    /\ pass' = Idle
    /\ UNCHANGED <<table, now, sent, faults, since>>

\* A query throws, or the process ends, anywhere in the pass.
PassFails ==
    /\ pass # Idle /\ faults < MaxFaults
    /\ faults' = faults + 1
    /\ pass' = Idle
    /\ UNCHANGED <<table, now, state, sent, since>>

runForwarding == FirstPass \/ ListRows \/ SendRow \/ SaveState

Next == Receive \/ TimePasses \/ runForwarding \/ PassFails

Spec == Init /\ [][Next]_vars
FairSpec == Spec /\ WF_vars(runForwarding)

-----------------------------------------------------------------------------
(* Properties                                                                *)

\* "A fresh rule starts from now so it never dumps history", and nothing is sent
\* again but by a pass that did not reach its end.
NoHistoryNoRepeats ==
    \A m \in Ids : /\ sent[m] > 0 => m > since
                   /\ sent[m] <= 1 + faults

\* Of equal texts, one is forwarded: a message on the rule's channels that the
\* cursor has passed was sent, or repeats one that was sent or is history.
Wanted(m) == ~table[m].dm /\ (Channels = {} \/ table[m].ch \in Channels)
EveryTextForwarded ==
    since # None =>
      \A m \in Ids : (since < m /\ m <= state /\ Wanted(m)) =>
        \E d \in Ids : /\ d <= m /\ table[d].text = table[m].text
                       /\ sent[d] > 0 \/ d <= since
=============================================================================
