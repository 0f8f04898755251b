------------------------------- MODULE Migrate -------------------------------
(* db/migrate.ts: the migrations that ingest and the worker run, each for     *)
(* itself, before they start, and that systemd makes them run again when they *)
(* fail.                                                                      *)
(*                                                                            *)
(* A file is a sequence of statements.  DDL commits by itself and most of it  *)
(* fails when it has already been applied; the rest may run again.  How far a *)
(* failed file got is recorded apart from the statements.                     *)
EXTENDS Naturals, Sequences

CONSTANTS Proc,       \* processes that migrate at start
          Files,      \* sequence of files, each a sequence of "once" or "again"
          Faults,     \* what may fail: "statement", "reply", "kill"
          MaxFaults

ASSUME FilesAssumption == Files \in Seq(Seq({"once", "again"}))
ASSUME FaultsAssumption == Faults \subseteq {"statement", "reply", "kill"} /\ MaxFaults \in Nat

File == DOMAIN Files
Statement == UNION {{<<f, i>> : i \in DOMAIN Files[f]} : f \in File}

VARIABLES
    applied,   \* statements whose effect is in the schema
    complete,  \* schema_migrations: files recorded as applied
    partial,   \* statements_done of the "(partial)" rows, 0 without one
    proc,      \* each process: where it is and what it read at its start
    faults,
    crowd,     \* history: two processes were at it at the same time
    unclean    \* history: a failure left no true record behind

log  == <<crowd, unclean>>
vars == <<applied, complete, partial, proc, faults, log>>

\* A process: the file and the statement it has come to, the rows it has read.
Process == [at : {"down", "run", "clean", "failed", "up"}, f : Nat, i : Nat,
            seen : SUBSET File, startAt : [File -> Nat]]
Down == [at |-> "down", f |-> 0, i |-> 0, seen |-> {}, startAt |-> [f \in File |-> 0]]

TypeOK ==
    /\ applied \subseteq Statement /\ complete \subseteq File
    /\ partial \in [File -> Nat]
    /\ proc \in [Proc -> Process]
    /\ faults \in 0..MaxFaults /\ crowd \in BOOLEAN /\ unclean \in BOOLEAN

Init ==
    /\ applied = {} /\ complete = {}
    /\ partial = [f \in File |-> 0]
    /\ proc = [p \in Proc |-> Down]
    /\ faults = 0 /\ crowd = FALSE /\ unclean = FALSE

Migrating(p) == proc[p].at \in {"run", "clean", "failed"}
Fault(kind) ==
    /\ kind \in Faults /\ faults < MaxFaults
    /\ faults' = faults + 1
    /\ unclean' = (unclean \/ kind # "statement")
    /\ UNCHANGED crowd

-----------------------------------------------------------------------------
At(p, at) == proc[p].at = at /\ proc[p].f \in File
Size(p)   == Len(Files[proc[p].f])
Here(p)   == <<proc[p].f, proc[p].i + 1>>
Kind(p)   == Files[proc[p].f][proc[p].i + 1]
More(p)   == At(p, "run") /\ proc[p].f \notin proc[p].seen /\ proc[p].i < Size(p)

\* The file that the loop comes to next begins where its partial row says.
Onward(p, next) ==
    proc' = [proc EXCEPT ![p] = [next EXCEPT !.at = "run", !.f = @ + 1,
               !.i = IF next.f + 1 \in File THEN next.startAt[next.f + 1] ELSE 0]]

\* Both kinds of rows are read once, before the first file.
Start(p) ==
    /\ proc[p].at = "down"
    /\ Onward(p, [Down EXCEPT !.seen = complete, !.startAt = partial])
    /\ crowd' = (crowd \/ \E q \in Proc \ {p} : Migrating(q))
    /\ UNCHANGED <<applied, complete, partial, faults, unclean>>

\* A file whose name was there at the start.
SkipFile(p) ==
    /\ At(p, "run") /\ proc[p].f \in proc[p].seen
    /\ Onward(p, proc[p])
    /\ UNCHANGED <<applied, complete, partial, faults, log>>

RunStatement(p) ==
    /\ More(p)
    /\ Kind(p) = "again" \/ Here(p) \notin applied
    /\ applied' = applied \union {Here(p)}
    /\ proc' = [proc EXCEPT ![p].i = @ + 1]
    /\ UNCHANGED <<complete, partial, faults, log>>

\* It has been applied before, by this process's predecessor or by another one.
AlreadyApplied(p) ==
    /\ More(p)
    /\ Kind(p) = "once" /\ Here(p) \in applied
    /\ proc' = [proc EXCEPT ![p].at = "failed"]
    /\ UNCHANGED <<applied, complete, partial, faults, log>>

\* A lock timeout or a missing grant; or the connection goes after it was done.
\* The INSERT behind the last statement is one that may fail, too.
StatementFails(p) ==
    /\ At(p, "run") /\ proc[p].f \notin proc[p].seen
    /\ \/ Fault("statement") /\ UNCHANGED <<applied, complete>>
       \/ Fault("reply") /\ More(p)
          /\ applied' = applied \union {Here(p)} /\ UNCHANGED complete
       \/ Fault("reply") /\ ~More(p)
          /\ complete' = complete \union {proc[p].f} /\ UNCHANGED applied
    /\ proc' = [proc EXCEPT ![p].at = "failed"]
    /\ UNCHANGED partial

\* The INSERT of the complete file.
RecordComplete(p) ==
    /\ At(p, "run") /\ proc[p].f \notin proc[p].seen /\ ~More(p)
    /\ complete' = complete \union {proc[p].f}
    /\ IF proc[p].startAt[proc[p].f] > 0
       THEN proc' = [proc EXCEPT ![p].at = "clean"]
       ELSE Onward(p, proc[p])
    /\ UNCHANGED <<applied, partial, faults, log>>

\* The DELETE of its partial row, whose failure is passed over.
DeletePartial(p) ==
    /\ At(p, "clean")
    /\ \/ partial' = [partial EXCEPT ![proc[p].f] = 0] /\ UNCHANGED <<faults, log>>
       \/ Fault("statement") /\ UNCHANGED partial
    /\ Onward(p, proc[p])
    /\ UNCHANGED <<applied, complete>>

\* A partial row that counts the statement that failed.
RecordPartial_Next(p) ==
    /\ At(p, "failed")
    /\ partial' = [partial EXCEPT ![proc[p].f] = proc[p].i + 1]
    /\ proc' = [proc EXCEPT ![p] = Down]
    /\ UNCHANGED <<applied, complete, faults, log>>

\* No partial row.
RecordPartial_Never(p) ==
    /\ At(p, "failed")
    /\ proc' = [proc EXCEPT ![p] = Down]
    /\ UNCHANGED <<applied, complete, partial, faults, log>>

\* How far this process got, over whatever another one recorded; then it ends.
RecordPartial(p) ==
    /\ At(p, "failed")
    /\ partial' = [partial EXCEPT ![proc[p].f] = proc[p].i]
    /\ proc' = [proc EXCEPT ![p] = Down]
    /\ UNCHANGED <<applied, complete, faults, log>>

\* The last file is done: the process goes on with its own work.
ComesUp(p) ==
    /\ proc[p].at = "run" /\ proc[p].f \notin File
    /\ proc' = [proc EXCEPT ![p] = [Down EXCEPT !.at = "up"]]
    /\ UNCHANGED <<applied, complete, partial, faults, log>>

\* The process is killed, or the database went away with the statement.
Killed(p) ==
    /\ Migrating(p) /\ Fault("kill")
    /\ proc' = [proc EXCEPT ![p] = Down]
    /\ UNCHANGED <<applied, complete, partial>>

Deployed == (\A p \in Proc : proc[p].at = "up") /\ UNCHANGED vars

runMigrations(p) ==
    \/ Start(p) \/ SkipFile(p) \/ RunStatement(p) \/ AlreadyApplied(p)
    \/ RecordComplete(p) \/ DeletePartial(p) \/ RecordPartial(p) \/ ComesUp(p)

Next == (\E p \in Proc : runMigrations(p) \/ StatementFails(p) \/ Killed(p)) \/ Deployed

\* Restart=always: a process that ended starts again.
Spec == Init /\ [][Next]_vars
FairSpec == Spec /\ \A p \in Proc : WF_vars(runMigrations(p))

-----------------------------------------------------------------------------
(* Properties                                                                *)

\* However often the processes fail, resume and overtake each other, a file that
\* is recorded is in the schema to its last statement, and no statement is there
\* without those in front of it.
NoneSkipped ==
    /\ \A s \in Statement : s[1] \in complete => s \in applied
    /\ \A s \in applied, t \in Statement :
         t[1] < s[1] \/ (t[1] = s[1] /\ t[2] < s[2]) => t \in applied

\* "A fixable failure is recoverable by restarting": every process comes up, the
\* one whose statement failed and the ones that met its work, unless failures and
\* several processes came together or a failure left no record.
Started(p) == proc[p].at = "up" \/ unclean \/ (crowd /\ faults > 0)
EverybodyStarts == \A p \in Proc : <>Started(p)

\* The same however many processes migrate at once.
RecoverableByRestarting == \A p \in Proc : <>(proc[p].at = "up" \/ unclean)
=============================================================================
