------------------------------ MODULE MCIngest ------------------------------
(* Model values for the runs of Ingest.                                       *)
EXTENDS Ingest

CONSTANTS g1, g2, p1, p2, p0

Form(via, parsed, named, bad) ==
    [via |-> via, parsed |-> parsed, named |-> named, bad |-> bad]

JsonProtoRf ==
    {Form("json", TRUE, TRUE, FALSE), Form("json", FALSE, TRUE, FALSE),
     Form("protobuf", TRUE, TRUE, FALSE), Form("rf", TRUE, TRUE, FALSE)}
\* One copy that no key opens, among copies that decode.
OneUndecodable ==
    {Form("json", FALSE, TRUE, FALSE), Form("protobuf", FALSE, TRUE, FALSE),
     Form("protobuf", TRUE, TRUE, FALSE), Form("rf", TRUE, TRUE, FALSE)}
Plain == {Form("protobuf", TRUE, TRUE, FALSE)}
GoodAndBad == {Form("protobuf", TRUE, TRUE, b) : b \in BOOLEAN}

\* What can be lost is lost to a fault: a copy vanishes only with the process,
\* a message that cannot be written takes no other one with it, and all the
\* rest is written or logged in the end, a shutdown included (batch.ts, drain).
FlowSettles ==
    LossNeedsFault /\ []BadMessageAlone /\ EveryCopySettles /\ ShutdownEnds
=============================================================================
