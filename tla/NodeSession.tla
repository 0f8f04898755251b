----------------------------- MODULE NodeSession -----------------------------
(* The four errands that HopWatch runs on the station node, each on a TCP     *)
(* connection of its own under the lease: sending a packet                    *)
(* (node/transport.ts), reading the configuration (node/readconfig.ts),       *)
(* writing it and pruning the NodeDB (node/writeconfig.ts).  All begin with   *)
(* want_config and the dump that answers it; a write and a prune then ask for *)
(* the session passkey.                                                       *)
(*                                                                            *)
(* The node may be slow, so an armed timer may fire at any time.  It may also *)
(* fall silent, close the stream or reset it.  The node's half is external.   *)
EXTENDS Integers, Sequences, FiniteSets, SequencesExt

CONSTANTS Section,    \* what the dump reports, in no particular order
          Unreported, \* sections a caller may name and this node does not have
          Tries,      \* attempts of a send and of a prune
          MaxFaults

Kind == {"send", "read", "write", "prune"}

VARIABLES
    errand,   \* what is to be done: kind, sections to write
    client,   \* the attempt under way: phase, sections seen, flags, timers
    attempt,
    outcome,  \* how the errand ended, and why
    toNode, fromNode,   \* frames on the wire
    node,     \* the radio: its manners, its open edit, what it did
    faults

vars == <<errand, client, attempt, outcome, toNode, fromNode, node, faults>>
wire == <<toNode, fromNode>>

Timer == {"long", "fallback", "passkey", "linger"}

Fresh == [phase |-> "connect", raws |-> {}, sawId |-> FALSE, flushed |-> FALSE,
          handed |-> FALSE, timers |-> {"long"}, socket |-> "opening"]

TypeOK ==
    /\ errand.kind \in Kind /\ errand.ops \subseteq Section \union Unreported
    /\ client.phase \in {"connect", "config", "passkey", "acting", "over"}
    /\ client.raws \subseteq Section /\ client.timers \subseteq Timer
    /\ client.socket \in {"opening", "open", "gone"}
    /\ attempt \in 1..Tries
    /\ outcome.end \in {"none", "ok", "error"}
    /\ outcome.why \in {"none", "refused", "timeout", "closed", "socket"}
    /\ node.edit \subseteq Section /\ node.saved \subseteq Section
    /\ faults \in 0..MaxFaults

Init ==
    /\ \E k \in Kind, ops \in SUBSET (Section \union Unreported) :
         /\ k # "write" => ops = {}
         /\ errand = [kind |-> k, ops |-> ops]
    /\ client = Fresh /\ attempt = 1
    /\ outcome = [end |-> "none", why |-> "none"]
    /\ toNode = <<>> /\ fromNode = <<>>
    /\ \E keys, echoes \in BOOLEAN :
         node = [keys |-> keys, echoes |-> echoes, left |-> <<>>, done |-> FALSE,
                 mute |-> FALSE, edit |-> {}, saved |-> {}, acted |-> FALSE, early |-> FALSE]
    /\ faults = 0

Running == outcome.end = "none" /\ client.phase # "over"
Timed(t) == Running /\ t \in client.timers

-----------------------------------------------------------------------------
(* The node (external)                                                       *)

Frame(cmd, sec, key) == [cmd |-> cmd, section |-> sec, key |-> key]
Plain(cmd) == Frame(cmd, "none", FALSE)

\* A new connection evicts the one before it; the client opens with want_config.
NodeAccepts ==
    /\ Running /\ client.socket = "opening" /\ ~node.mute
    /\ client' = [client EXCEPT !.socket = "open", !.phase = "config"]
    /\ toNode' = <<Plain("want")>> /\ fromNode' = <<>>
    /\ node' = [node EXCEPT !.left = <<>>, !.done = FALSE]
    /\ UNCHANGED <<errand, attempt, outcome, faults>>

NodeDumps ==
    /\ node.left # <<>> /\ ~node.mute
    /\ fromNode' = Append(fromNode, Head(node.left))
    /\ node' = [node EXCEPT !.left = Tail(@), !.done = (Len(node.left) = 1)]
    /\ UNCHANGED <<errand, client, attempt, outcome, toNode, faults>>

Dump(order) ==
    <<"myInfo">> \o order \o (IF node.echoes THEN <<"complete">> ELSE <<>>)

\* Firmware that issues passkeys silently drops a command that carries none.
Obey(f) ==
    IF node.keys /\ ~f.key /\ f.cmd # "packet" THEN node
    ELSE CASE f.cmd = "begin"  -> [node EXCEPT !.edit = {}]
           [] f.cmd = "set"    -> [node EXCEPT !.edit = @ \union {f.section}]
           [] f.cmd = "commit" -> [node EXCEPT !.saved = @ \union node.edit]
           [] f.cmd = "packet" -> [node EXCEPT !.acted = TRUE, !.early = @ \/ ~node.done]
           [] OTHER            -> [node EXCEPT !.acted = TRUE]

NodeTakes ==
    /\ toNode # <<>> /\ ~node.mute
    /\ toNode' = Tail(toNode)
    /\ LET f == Head(toNode)
       IN \/ /\ f.cmd = "want"
             /\ \E order \in SetToSeqs(Section) : node' = [node EXCEPT !.left = Dump(order)]
             /\ UNCHANGED fromNode
          \/ /\ f.cmd = "get"
             /\ fromNode' = IF node.keys THEN Append(fromNode, "response") ELSE fromNode
             /\ UNCHANGED node
          \/ /\ f.cmd \notin {"want", "get"}
             /\ node' = Obey(f)
             /\ UNCHANGED fromNode
    /\ UNCHANGED <<errand, client, attempt, outcome, faults>>

-----------------------------------------------------------------------------
(* The end of an attempt                                                     *)

Retries == errand.kind \in {"send", "prune"} /\ attempt < Tries

\* done(): the first caller settles the promise and destroys the socket; what was
\* written is still on its way.  A send and a prune try again.
Done(end, why) ==
    /\ fromNode' = <<>>
    /\ IF end = "error" /\ Retries
       THEN /\ client' = Fresh /\ attempt' = attempt + 1
            /\ UNCHANGED outcome
       ELSE /\ client' = [client EXCEPT !.phase = "over", !.timers = {}, !.socket = "gone"]
            /\ outcome' = [end |-> end, why |-> why]
            /\ UNCHANGED attempt

\* What a stream that ends, or an attempt that takes too long, amounts to.
Succeeded ==
    \/ errand.kind = "send" /\ client.flushed
    \/ errand.kind \in {"write", "prune"} /\ client.phase = "acting"

-----------------------------------------------------------------------------
(* The client: frames.  `left` is what remains to be read.                   *)

Ignore(left) == fromNode' = left /\ UNCHANGED <<client, attempt, outcome, toNode>>
Note(c, left) == client' = c /\ fromNode' = left /\ UNCHANGED <<attempt, outcome, toNode>>
Send(c, frames, left) ==
    /\ client' = c /\ fromNode' = left /\ toNode' = toNode \o frames
    /\ UNCHANGED <<attempt, outcome>>

Missing == errand.ops \ client.raws

\* begin_edit, one command per section, commit_edit; with no edit, the reboot.
Batch(ops, key) ==
    IF ops = {} THEN <<Frame("reboot", "none", key)>>
    ELSE <<Frame("begin", "none", key)>>
           \o [i \in 1..Cardinality(ops) |-> Frame("set", SetToSeq(ops)[i], key)]
           \o <<Frame("commit", "none", key)>>

Acting == [client EXCEPT !.phase = "acting", !.handed = TRUE,
                         !.timers = (@ \ {"passkey"}) \union {"linger"}]

\* act() of a prune: the removals, planned on what the dump has listed.
act(key, left) == Send(Acting, <<Frame("remove", "none", key)>>, left)

\* Each variant built as it is sent: the one that is missing comes too late.
writeAll_AsItGoes(key, left) ==
    IF Missing = {} THEN Send(Acting, Batch(errand.ops, key), left)
    ELSE Done("error", "refused") /\ toNode' = toNode \o Batch(client.raws, key)

\* Every variant is built before anything is sent: a section that the node did
\* not report makes the write fail.
writeAll(key, left) ==
    IF Missing = {} THEN Send(Acting, Batch(errand.ops, key), left)
    ELSE Done("error", "refused") /\ UNCHANGED toNode

Write(key, left) == IF errand.kind = "prune" THEN act(key, left) ELSE writeAll(key, left)

requestPasskey(left) ==
    Send([client EXCEPT !.phase = "passkey", !.timers = @ \union {"passkey"}],
         <<Plain("get")>>, left)

\* The transport fires when the dump is complete: a packet is ignored before.
ReadyAt == "complete"

OnSend(f, left) ==
    IF f = ReadyAt /\ client.phase = "config"
    THEN Send([client EXCEPT !.phase = "acting"], <<Plain("packet")>>, left)
    ELSE Note([client EXCEPT !.sawId = @ \/ f = "myInfo"], left)

OnRead(f, left) ==
    IF f = "complete" THEN Done("ok", "none") /\ UNCHANGED toNode ELSE Ignore(left)

\* A write and a prune: remember the sections and wait for the end of the dump,
\* or three seconds from the node's number, and then for the passkey.
OnAdmin(f, left) ==
    \/ /\ f = "myInfo"
       /\ Note([client EXCEPT !.sawId = TRUE, !.timers = @ \union {"fallback"}], left)
    \/ /\ f \in Section
       /\ Note([client EXCEPT !.raws = @ \union {f}], left)
    \/ /\ f = "complete" /\ client.phase = "config" /\ client.sawId
       /\ requestPasskey(left)
    \/ /\ f = "response" /\ client.phase = "passkey"
       /\ Write(TRUE, left)
    \/ /\ \/ f = "complete" /\ ~(client.phase = "config" /\ client.sawId)
          \/ f = "response" /\ client.phase # "passkey"
       /\ Ignore(left)

Receive ==
    /\ Running /\ client.socket = "open" /\ fromNode # <<>>
    /\ LET f == Head(fromNode)
           left == Tail(fromNode)
       IN CASE errand.kind = "send" -> OnSend(f, left)
            [] errand.kind = "read" -> OnRead(f, left)
            [] OTHER -> OnAdmin(f, left)
    /\ UNCHANGED <<errand, node, faults>>

-----------------------------------------------------------------------------
(* The client: timers and events of the socket                               *)

\* The kernel took the packet: now wait a little before closing.
Flushed ==
    /\ Running /\ errand.kind = "send" /\ client.phase = "acting" /\ ~client.flushed
    /\ client' = [client EXCEPT !.flushed = TRUE, !.handed = TRUE,
                                !.timers = @ \union {"linger"}]
    /\ UNCHANGED <<errand, attempt, outcome, wire, node, faults>>

\* Only if the dump has what the write needs; it is not armed again.
FallbackTimer ==
    /\ Timed("fallback")
    /\ IF client.phase = "config" /\ (errand.kind = "prune" \/ Missing = {})
       THEN Send([client EXCEPT !.phase = "passkey",
                                !.timers = (@ \ {"fallback"}) \union {"passkey"}],
                 <<Plain("get")>>, fromNode)
       ELSE Note([client EXCEPT !.timers = @ \ {"fallback"}], fromNode)
    /\ UNCHANGED <<errand, node, faults>>

\* Older firmware issues no passkey: write without one.
PasskeyTimer ==
    /\ Timed("passkey") /\ client.phase = "passkey"
    /\ Write(FALSE, fromNode)
    /\ UNCHANGED <<errand, node, faults>>

LingerTimer ==
    /\ Timed("linger")
    /\ Done("ok", "none")
    /\ UNCHANGED <<errand, toNode, node, faults>>

LongTimer ==
    /\ Timed("long")
    /\ IF Succeeded THEN Done("ok", "none") ELSE Done("error", "timeout")
    /\ UNCHANGED <<errand, toNode, node, faults>>

\* The node ends the stream, or resets it: what it has not taken is lost.
StreamCloses ==
    /\ Running /\ client.socket = "open" /\ faults < MaxFaults
    /\ faults' = faults + 1
    /\ IF Succeeded THEN Done("ok", "none") ELSE Done("error", "closed")
    /\ toNode' = <<>>
    /\ node' = [node EXCEPT !.left = <<>>]
    /\ UNCHANGED errand

SocketError ==
    /\ Running /\ client.socket # "gone" /\ faults < MaxFaults
    /\ faults' = faults + 1
    /\ Done("error", "socket")
    /\ toNode' = <<>>
    /\ node' = [node EXCEPT !.left = <<>>]
    /\ UNCHANGED errand

NodeFallsSilent ==
    /\ Running /\ ~node.mute /\ faults < MaxFaults
    /\ faults' = faults + 1
    /\ node' = [node EXCEPT !.mute = TRUE]
    /\ UNCHANGED <<errand, client, attempt, outcome, wire>>

Timers == FallbackTimer \/ PasskeyTimer \/ LingerTimer \/ LongTimer
Node   == NodeAccepts \/ NodeDumps \/ NodeTakes \/ NodeFallsSilent
Next   == Receive \/ Flushed \/ Timers \/ StreamCloses \/ SocketError \/ Node

Spec == Init /\ [][Next]_vars
\* Armed timers fire.
FairSpec == Spec /\ WF_vars(Timers)

-----------------------------------------------------------------------------
(* Properties                                                                *)

Untouched == /\ ~node.acted /\ node.edit = {} /\ node.saved = {}
             /\ \A i \in DOMAIN toNode : toNode[i].cmd \in {"want", "get"}

\* An errand that reports success has handed its frames over, all of them; a
\* write that is refused, times out or finds the stream closed has sent none, so
\* no section is overwritten on a guess and no edit is left half done.
ReportIsTrue ==
    /\ outcome.end = "ok" /\ errand.kind # "read" => client.handed
    /\ outcome.why \in {"refused", "timeout", "closed"} /\ errand.kind = "write" => Untouched

\* The node never gets a packet while it is still dumping its configuration,
\* when it would drop it without a word.
NothingBeforeReady == ~node.early

\* Every errand ends, whatever the node does, and with it the lease.
ErrandEnds == <>(outcome.end # "none")

\* A write that is reported as done has been taken by the node: a stream that the
\* node drops before is a failure.
WrittenMeansTaken ==
    outcome.end = "ok" /\ errand.kind = "write" /\ toNode = <<>> /\ errand.ops # {}
    => errand.ops \subseteq node.saved
=============================================================================
