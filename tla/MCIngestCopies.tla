--------------------------- MODULE MCIngestCopies ---------------------------
(* Two scenes of Ingest: "copies" of one packet, heard by two gateways with   *)
(* clocks of all sorts, and "retry", two packets whose statements, commits and*)
(* process fail; its constants are those of the configuration.                *)
EXTENDS MCIngest

VARIABLE scene
all == <<scene, vars>>

Copied == INSTANCE Ingest WITH
    Mid <- {p1}, Traced <- {}, Gateway <- {g1, g2}, Kind <- JsonProtoRf,
    Clocks <- {"ok", "unset", "future"}, maxBatch <- 1,
    Faults <- {}, MaxFaults <- 0, MaxTime <- 4

MCInit ==
    \/ scene = "copies" /\ Copied!Init
    \/ scene = "retry" /\ Init

MCNext ==
    /\ \/ scene = "copies" /\ Copied!Next
       \/ scene = "retry" /\ Next
    /\ UNCHANGED scene

MCSpec == MCInit /\ [][MCNext]_all

=============================================================================
