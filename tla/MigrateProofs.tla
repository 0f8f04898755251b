---------------------------- MODULE MigrateProofs ----------------------------
(***************************************************************************)
(* Proofs about the migration runner, for any number of processes that run *)
(* it at the same time, any files and any faults: what schema_migrations   *)
(* says is applied is applied, and the statements that are applied are     *)
(* those in front of some point, without a gap.                            *)
(***************************************************************************)
EXTENDS MCPlatform, FiniteSetTheorems, SequenceTheorems, TLAPS

\* Every statement of the files before f, and the first n of f, are in A.
Reached(A, f, n) ==
    \A t \in Statement : t[1] < f \/ (t[1] = f /\ t[2] <= n) => t \in A

\* Where a process is, and everything it remembers from its start, is behind
\* what has been applied; the file it cleans up after is recorded.
Behind(A, C, r) ==
    /\ r.at \in {"run", "clean", "failed"} =>
         /\ Reached(A, r.f, r.i) /\ r.seen \subseteq C
         /\ \A f \in File : r.startAt[f] > 0 => Reached(A, f, r.startAt[f])
    /\ r.at = "clean" => r.f \in C
    /\ r.at = "failed" => r.f \in File

\* Recorded progress is behind what has been applied, too.
PartialBehind == \A f \in File : partial[f] > 0 => Reached(applied, f, partial[f])

MigrateInv ==
    /\ TypeOK /\ NoneSkipped /\ PartialBehind
    /\ \A p \in Proc : Behind(applied, complete, proc[p])

-----------------------------------------------------------------------------
(* Statements and what has been reached.                                     *)

LEMMA Numbering ==
  /\ File \subseteq Nat
  /\ \A f \in File : DOMAIN Files[f] = 1 .. Len(Files[f]) /\ Len(Files[f]) \in Nat
  /\ \A s \in Statement : /\ s[1] \in File /\ s[2] \in DOMAIN Files[s[1]]
                          /\ s[1] \in Nat /\ s[2] \in Nat /\ s[2] > 0
                          /\ s = <<s[1], s[2]>>
  /\ \A f \in File : \A i \in 1 .. Len(Files[f]) : <<f, i>> \in Statement
<1>1. File = 1 .. Len(Files) /\ Len(Files) \in Nat
  BY FilesAssumption DEF File
<1>2. \A f \in File : Files[f] \in Seq({"once", "again"})
  BY <1>1, FilesAssumption DEF File
<1>3. \A f \in File : DOMAIN Files[f] = 1 .. Len(Files[f]) /\ Len(Files[f]) \in Nat
  BY <1>2
<1>4. \A s \in Statement : \E f \in File : \E i \in DOMAIN Files[f] : s = <<f, i>>
  BY DEF Statement
<1>5. \A f \in File : \A i \in 1 .. Len(Files[f]) : <<f, i>> \in Statement
  BY <1>3 DEF Statement
<1>6. ASSUME NEW s \in Statement
      PROVE  /\ s[1] \in File /\ s[2] \in DOMAIN Files[s[1]]
             /\ s[1] \in Nat /\ s[2] \in Nat /\ s[2] > 0 /\ s = <<s[1], s[2]>>
  <2>1. PICK f \in File : \E i \in DOMAIN Files[f] : s = <<f, i>>
    BY <1>4
  <2>2. PICK i \in DOMAIN Files[f] : s = <<f, i>>
    BY <2>1
  <2>3. s[1] = f /\ s[2] = i
    BY <2>2
  <2>4. f \in Nat /\ i \in Nat /\ i > 0
    BY <1>1, <1>3
  <2> QED BY <2>2, <2>3, <2>4
<1> QED BY <1>1, <1>3, <1>5, <1>6

\* Statements are never undone.
LEMMA ReachedGrows ==
  ASSUME NEW A, NEW B, A \subseteq B, NEW f, NEW n, Reached(A, f, n)
  PROVE  Reached(B, f, n)
  BY DEF Reached

LEMMA BehindGrows ==
  ASSUME NEW A, NEW B, A \subseteq B, NEW C, NEW D, C \subseteq D, NEW r, Behind(A, C, r)
  PROVE  Behind(B, D, r)
  BY ReachedGrows DEF Behind

\* The loop comes to the file behind one that is in the schema, at the place
\* that the process found recorded at its start.
LEMMA OnwardBehind ==
  ASSUME proc \in [Proc -> Process], NEW p \in Proc, NEW next \in Process,
         NEW A, NEW C, Onward(p, next),
         \A t \in Statement : t[1] <= next.f => t \in A,
         next.seen \subseteq C,
         \A f \in File : next.startAt[f] > 0 => Reached(A, f, next.startAt[f])
  PROVE  /\ proc' \in [Proc -> Process]
         /\ Behind(A, C, proc'[p])
         /\ \A q \in Proc \ {p} : proc'[q] = proc[q]
<1> DEFINE i0 == IF next.f + 1 \in File THEN next.startAt[next.f + 1] ELSE 0
           r == [next EXCEPT !.at = "run", !.f = @ + 1, !.i = i0]
<1>1. proc' = [proc EXCEPT ![p] = r]
  BY DEF Onward
<1>2. i0 \in Nat
  BY DEF Process
<1> HIDE DEF i0
<1>4. /\ next.f \in Nat /\ next.f + 1 \in Nat
      /\ next.seen \in SUBSET File /\ next.startAt \in [File -> Nat]
  BY DEF Process
<1>8. /\ r.at = "run" /\ r.f = next.f + 1 /\ r.i = i0
      /\ r.seen = next.seen /\ r.startAt = next.startAt
  BY DEF Process
<1>9. r \in Process
  BY <1>2, <1>4 DEF Process
<1>3. /\ r \in Process /\ r.at = "run" /\ r.f = next.f + 1 /\ r.i = i0
      /\ r.seen = next.seen /\ r.startAt = next.startAt
  BY <1>8, <1>9
<1>5. Reached(A, next.f + 1, 0)
  BY <1>4, Numbering DEF Reached
<1>6. Reached(A, next.f + 1, i0)
  <2>1. CASE next.f + 1 \in File /\ i0 > 0
    BY <2>1 DEF i0
  <2>2. CASE ~(next.f + 1 \in File /\ i0 > 0)
    <3>1. i0 = 0
      BY <1>2, <2>2 DEF i0
    <3> QED BY <1>5, <3>1
  <2> QED BY <2>1, <2>2
<1> HIDE DEF r
<1>7. Behind(A, C, r)
  BY <1>3, <1>6 DEF Behind
<1> QED BY <1>1, <1>3, <1>7

\* A file that is recorded, or run to its end, is in the schema together with
\* those in front of it.
LEMMA FileDone ==
  ASSUME NEW A, NEW f \in File, NEW n \in Nat, Reached(A, f, n),
         n >= Len(Files[f]) \/ (\A s \in Statement : s[1] = f => s \in A)
  PROVE  \A t \in Statement : t[1] <= f => t \in A
<1> SUFFICES ASSUME NEW t \in Statement, t[1] <= f PROVE t \in A
  OBVIOUS
<1>1. t[1] < f \/ t[1] = f
  BY Numbering
<1>2. CASE t[1] < f
  BY <1>2 DEF Reached
<1>3. CASE t[1] = f
  <2>1. t[2] <= Len(Files[f])
    BY <1>3, Numbering
  <2>2. CASE n >= Len(Files[f])
    <3>1. t[2] <= n
      BY <2>1, <2>2, Numbering
    <3> QED BY <1>3, <3>1 DEF Reached
  <2> QED BY <1>3, <2>2
<1> QED BY <1>1, <1>2, <1>3

-----------------------------------------------------------------------------
(* The invariant.                                                            *)

LEMMA InitMigrate == Init => MigrateInv
<1> SUFFICES ASSUME Init PROVE MigrateInv
  OBVIOUS
<1>1. TypeOK
  <2>1. Down \in Process
    BY DEF Down, Process
  <2>2. 0 \in 0..MaxFaults
    BY FaultsAssumption
  <2> QED BY <2>1, <2>2 DEF Init, TypeOK
<1>2. NoneSkipped /\ PartialBehind
  BY DEF Init, NoneSkipped, PartialBehind
<1>3. \A p \in Proc : Behind(applied, complete, proc[p])
  BY DEF Init, Down, Behind
<1> QED BY <1>1, <1>2, <1>3 DEF MigrateInv

\* Nothing in the schema is lost when nothing but records and processes change.
LEMMA SameSchema ==
  ASSUME NoneSkipped, PartialBehind, UNCHANGED <<applied, complete, partial>>
  PROVE  NoneSkipped' /\ PartialBehind'
  BY DEF NoneSkipped, PartialBehind, Reached

\* A recorded file: NoneSkipped for it is what FileDone says.
LEMMA Recording ==
  ASSUME NoneSkipped, PartialBehind, NEW f \in File,
         \A t \in Statement : t[1] <= f => t \in applied,
         complete' = complete \union {f}, UNCHANGED <<applied, partial>>
  PROVE  NoneSkipped' /\ PartialBehind'
<1>1. \A t \in Statement : t[1] = f => t \in applied
  BY Numbering
<1> QED BY <1>1 DEF NoneSkipped, PartialBehind, Reached

\* A file that a process has run to its end is in the schema.
LEMMA RunToTheEnd ==
  ASSUME MigrateInv, NEW p \in Proc, At(p, "run"), proc[p].f \notin proc[p].seen, ~More(p)
  PROVE  \A t \in Statement : t[1] <= proc[p].f => t \in applied
<1>1. proc[p] \in Process
  BY DEF MigrateInv, TypeOK
<1>2. proc[p].f \in File /\ proc[p].i \in Nat /\ proc[p].i >= Len(Files[proc[p].f])
  BY <1>1, Numbering DEF At, More, Size, Process
<1>3. Reached(applied, proc[p].f, proc[p].i)
  BY DEF MigrateInv, Behind, At
<1> QED BY <1>2, <1>3, FileDone

\* A process whose file fails.
LEMMA FailedBehind ==
  ASSUME MigrateInv, NEW p \in Proc, At(p, "run"),
         proc' = [proc EXCEPT ![p].at = "failed"],
         NEW A, NEW C, applied \subseteq A, complete \subseteq C
  PROVE  /\ proc' \in [Proc -> Process]
         /\ \A q \in Proc : Behind(A, C, proc'[q])
<1>1. proc \in [Proc -> Process] /\ proc[p] \in Process
  BY DEF MigrateInv, TypeOK
<1> DEFINE r == [proc[p] EXCEPT !.at = "failed"]
<1>2. proc' = [proc EXCEPT ![p] = r]
  OBVIOUS
<1>3. /\ r.at = "failed" /\ r.f = proc[p].f /\ r.i = proc[p].i
      /\ r.seen = proc[p].seen /\ r.startAt = proc[p].startAt
  BY <1>1 DEF Process
<1>4. r \in Process
  BY <1>1 DEF Process
<1> HIDE DEF r
<1>5. \A q \in Proc : Behind(A, C, proc[q])
  BY BehindGrows DEF MigrateInv
<1>6. Behind(A, C, r)
  BY <1>3, <1>5 DEF Behind, At
<1> QED BY <1>1, <1>2, <1>4, <1>5, <1>6

LEMMA StartKeeps == ASSUME MigrateInv, NEW p \in Proc, Start(p) PROVE MigrateInv'
<1> DEFINE next == [Down EXCEPT !.seen = complete, !.startAt = partial]
<1>1. proc \in [Proc -> Process] /\ partial \in [File -> Nat] /\ complete \subseteq File
  BY DEF MigrateInv, TypeOK
<1>2. next \in Process /\ next.f = 0 /\ next.seen = complete /\ next.startAt = partial
  BY <1>1 DEF Down, Process
<1>3. \A t \in Statement : t[1] <= next.f => t \in applied
  <2>1. \A t \in Statement : t[1] > 0
    BY FilesAssumption, Numbering DEF File
  <2> QED BY <1>2, <2>1, Numbering
<1>4. Onward(p, next)
  BY DEF Start
<1> HIDE DEF next
<1>5. \A f \in File : next.startAt[f] > 0 => Reached(applied, f, next.startAt[f])
  BY <1>2 DEF MigrateInv, PartialBehind
<1>6. /\ proc' \in [Proc -> Process] /\ Behind(applied, complete, proc'[p])
      /\ \A q \in Proc \ {p} : proc'[q] = proc[q]
  BY <1>1, <1>2, <1>3, <1>4, <1>5, OnwardBehind
<1>7. UNCHANGED <<applied, complete, partial, faults, unclean>> /\ crowd' \in BOOLEAN
  BY DEF Start, MigrateInv, TypeOK
<1>8. TypeOK'
  BY <1>6, <1>7 DEF MigrateInv, TypeOK
<1>9. NoneSkipped' /\ PartialBehind'
  BY <1>7, SameSchema DEF MigrateInv
<1>10. \A q \in Proc : Behind(applied', complete', proc'[q])
  BY <1>6, <1>7 DEF MigrateInv
<1> QED BY <1>8, <1>9, <1>10 DEF MigrateInv

\* The file behind the one that a process has done, wherever it notes it.
LEMMA OnwardKeeps ==
  ASSUME MigrateInv, NEW p \in Proc, Onward(p, proc[p]), proc[p].at \in {"run", "clean"},
         \A t \in Statement : t[1] <= proc[p].f => t \in applied,
         NEW C, complete \subseteq C
  PROVE  /\ proc' \in [Proc -> Process]
         /\ \A q \in Proc : Behind(applied, C, proc'[q])
<1>1. proc \in [Proc -> Process] /\ proc[p] \in Process
  BY DEF MigrateInv, TypeOK
<1>2. \A q \in Proc : Behind(applied, C, proc[q])
  BY BehindGrows DEF MigrateInv
<1>3. /\ proc[p].seen \subseteq C
      /\ \A f \in File : proc[p].startAt[f] > 0 => Reached(applied, f, proc[p].startAt[f])
  BY <1>2 DEF Behind
<1>4. /\ proc' \in [Proc -> Process] /\ Behind(applied, C, proc'[p])
      /\ \A q \in Proc \ {p} : proc'[q] = proc[q]
  BY <1>1, <1>3, OnwardBehind
<1> QED BY <1>2, <1>4

LEMMA SkipFileKeeps == ASSUME MigrateInv, NEW p \in Proc, SkipFile(p) PROVE MigrateInv'
<1>1. /\ proc[p].at = "run" /\ proc[p].f \in File /\ proc[p].f \in complete
      /\ Reached(applied, proc[p].f, proc[p].i) /\ proc[p].i \in Nat
  BY DEF MigrateInv, TypeOK, Process, Behind, SkipFile, At
<1>2. \A s \in Statement : s[1] = proc[p].f => s \in applied
  BY <1>1 DEF MigrateInv, NoneSkipped
<1>3. \A t \in Statement : t[1] <= proc[p].f => t \in applied
  BY <1>1, <1>2, FileDone
<1>4. Onward(p, proc[p]) /\ UNCHANGED <<applied, complete, partial, faults, log>>
  BY DEF SkipFile
<1>5. proc' \in [Proc -> Process] /\ \A q \in Proc : Behind(applied, complete, proc'[q])
  BY <1>1, <1>3, <1>4, OnwardKeeps
<1>6. TypeOK'
  BY <1>4, <1>5 DEF MigrateInv, TypeOK, log
<1>7. NoneSkipped' /\ PartialBehind'
  BY <1>4, SameSchema DEF MigrateInv
<1> QED BY <1>4, <1>5, <1>6, <1>7 DEF MigrateInv

\* The statement a process has come to is the next one that the schema lacks, or
\* it is there already: applying it leaves no gap.
LEMMA OneMore ==
  ASSUME MigrateInv, NEW p \in Proc, More(p),
         applied' = applied \union {Here(p)}, UNCHANGED <<complete, partial>>
  PROVE  /\ applied' \subseteq Statement /\ Reached(applied', proc[p].f, proc[p].i + 1)
         /\ NoneSkipped' /\ PartialBehind'
<1> DEFINE here == <<proc[p].f, proc[p].i + 1>>
<1>1. proc[p] \in Process
  BY DEF MigrateInv, TypeOK
<1>2. /\ proc[p].f \in File /\ proc[p].i \in Nat /\ proc[p].f \in Nat
      /\ proc[p].i + 1 \in 1 .. Len(Files[proc[p].f])
      /\ Reached(applied, proc[p].f, proc[p].i)
  BY <1>1, Numbering DEF More, At, Size, Process, MigrateInv, Behind
<1>3. applied' = applied \union {here} /\ here \in Statement /\ applied \subseteq applied'
  BY <1>2, Numbering DEF Here
<1>4. Reached(applied', proc[p].f, proc[p].i + 1)
  <2> SUFFICES ASSUME NEW t \in Statement,
                      t[1] < proc[p].f \/ (t[1] = proc[p].f /\ t[2] <= proc[p].i + 1)
               PROVE  t \in applied'
    BY DEF Reached
  <2>1. CASE t[1] < proc[p].f \/ (t[1] = proc[p].f /\ t[2] <= proc[p].i)
    BY <1>2, <1>3, <2>1 DEF Reached
  <2>2. CASE t[1] = proc[p].f /\ ~(t[2] <= proc[p].i)
    <3>1. t[2] = proc[p].i + 1
      BY <1>2, <2>2, Numbering
    <3> QED BY <1>3, <2>2, <3>1, Numbering
  <2> QED BY <2>1, <2>2
<1>5. PartialBehind'
  BY <1>3, ReachedGrows DEF MigrateInv, PartialBehind
<1>6. NoneSkipped'
  <2>1. \A s \in Statement : s[1] \in complete' => s \in applied'
    BY <1>3 DEF MigrateInv, NoneSkipped
  <2>2. ASSUME NEW s \in applied', NEW t \in Statement,
               t[1] < s[1] \/ (t[1] = s[1] /\ t[2] < s[2])
        PROVE  t \in applied'
    <3>1. CASE s \in applied
      BY <1>3, <2>2, <3>1 DEF MigrateInv, NoneSkipped
    <3>2. CASE s = here
      <4>1. s[1] = proc[p].f /\ s[2] = proc[p].i + 1
        BY <3>2
      <4> QED BY <1>2, <1>4, <2>2, <4>1, Numbering DEF Reached
    <3> QED BY <1>3, <3>1, <3>2
  <2> QED BY <2>1, <2>2 DEF NoneSkipped
<1> QED BY <1>3, <1>4, <1>5, <1>6 DEF MigrateInv, TypeOK

LEMMA RunStatementKeeps ==
  ASSUME MigrateInv, NEW p \in Proc, RunStatement(p) PROVE MigrateInv'
<1>1. proc \in [Proc -> Process] /\ proc[p] \in Process
  BY DEF MigrateInv, TypeOK
<1> DEFINE r == [proc[p] EXCEPT !.i = @ + 1]
<1>2. /\ More(p) /\ proc[p].at = "run" /\ applied' = applied \union {Here(p)}
      /\ proc' = [proc EXCEPT ![p] = r]
      /\ UNCHANGED <<complete, partial, faults, log>>
  BY DEF RunStatement, More, At
<1>3. /\ r.at = "run" /\ r.f = proc[p].f /\ r.i = proc[p].i + 1
      /\ r.seen = proc[p].seen /\ r.startAt = proc[p].startAt
  BY <1>1, <1>2 DEF Process
<1>4. r \in Process
  BY <1>1 DEF Process
<1> HIDE DEF r
<1>5. /\ applied' \subseteq Statement /\ Reached(applied', proc[p].f, proc[p].i + 1)
      /\ NoneSkipped' /\ PartialBehind'
  BY <1>2, OneMore
<1>6. \A q \in Proc : Behind(applied', complete, proc[q])
  BY <1>2, BehindGrows DEF MigrateInv
<1>7. Behind(applied', complete, r)
  BY <1>2, <1>3, <1>5, <1>6 DEF Behind
<1>8. \A q \in Proc : Behind(applied', complete', proc'[q])
  BY <1>1, <1>2, <1>6, <1>7
<1>9. TypeOK'
  BY <1>1, <1>2, <1>4, <1>5 DEF MigrateInv, TypeOK, log
<1> QED BY <1>5, <1>8, <1>9 DEF MigrateInv

LEMMA AlreadyAppliedKeeps ==
  ASSUME MigrateInv, NEW p \in Proc, AlreadyApplied(p) PROVE MigrateInv'
<1>1. /\ At(p, "run") /\ proc' = [proc EXCEPT ![p].at = "failed"]
      /\ UNCHANGED <<applied, complete, partial, faults, log>>
  BY DEF AlreadyApplied, More
<1>2. /\ proc' \in [Proc -> Process]
      /\ \A q \in Proc : Behind(applied, complete, proc'[q])
  BY <1>1, FailedBehind
<1>3. TypeOK'
  BY <1>1, <1>2 DEF MigrateInv, TypeOK, log
<1> QED BY <1>1, <1>2, <1>3, SameSchema DEF MigrateInv

LEMMA FaultTypes ==
  ASSUME MigrateInv, NEW kind, Fault(kind)
  PROVE  faults' \in 0..MaxFaults /\ crowd' \in BOOLEAN /\ unclean' \in BOOLEAN
<1>1. faults \in Nat /\ MaxFaults \in Nat /\ faults < MaxFaults /\ faults' = faults + 1
  BY FaultsAssumption DEF MigrateInv, TypeOK, Fault
<1>2. crowd' = crowd /\ unclean' \in BOOLEAN
  BY DEF Fault, MigrateInv, TypeOK
<1> QED BY <1>1, <1>2 DEF MigrateInv, TypeOK

LEMMA StatementFailsKeeps ==
  ASSUME MigrateInv, NEW p \in Proc, StatementFails(p) PROVE MigrateInv'
<1>1. /\ At(p, "run") /\ proc[p].f \notin proc[p].seen /\ partial' = partial
      /\ proc' = [proc EXCEPT ![p].at = "failed"]
      /\ \E kind \in {"statement", "reply"} : Fault(kind)
  BY DEF StatementFails
<1>2. faults' \in 0..MaxFaults /\ crowd' \in BOOLEAN /\ unclean' \in BOOLEAN
  BY <1>1, FaultTypes
<1>3. proc[p].f \in File /\ complete \subseteq File /\ applied \subseteq Statement
  BY <1>1 DEF MigrateInv, TypeOK, At
<1>4. CASE UNCHANGED <<applied, complete>>
  <2>1. /\ proc' \in [Proc -> Process]
        /\ \A q \in Proc : Behind(applied, complete, proc'[q])
    BY <1>1, FailedBehind
  <2>2. TypeOK'
    BY <1>1, <1>2, <1>4, <2>1 DEF MigrateInv, TypeOK
  <2> QED BY <1>1, <1>4, <2>1, <2>2, SameSchema DEF MigrateInv
<1>5. CASE More(p) /\ applied' = applied \union {Here(p)} /\ UNCHANGED complete
  <2>1. /\ applied' \subseteq Statement /\ applied \subseteq applied'
        /\ NoneSkipped' /\ PartialBehind'
    BY <1>1, <1>5, OneMore
  <2>2. /\ proc' \in [Proc -> Process]
        /\ \A q \in Proc : Behind(applied', complete, proc'[q])
    BY <1>1, <2>1, FailedBehind
  <2>3. TypeOK'
    BY <1>1, <1>2, <1>5, <2>1, <2>2 DEF MigrateInv, TypeOK
  <2> QED BY <1>5, <2>1, <2>2, <2>3 DEF MigrateInv
<1>6. CASE ~More(p) /\ complete' = complete \union {proc[p].f} /\ UNCHANGED applied
  <2>1. \A t \in Statement : t[1] <= proc[p].f => t \in applied
    BY <1>1, <1>6, RunToTheEnd
  <2>2. /\ proc' \in [Proc -> Process]
        /\ \A q \in Proc : Behind(applied, complete', proc'[q])
    BY <1>1, <1>6, FailedBehind
  <2>3. TypeOK'
    BY <1>1, <1>2, <1>3, <1>6, <2>2 DEF MigrateInv, TypeOK
  <2>4. NoneSkipped' /\ PartialBehind'
    BY <1>1, <1>3, <1>6, <2>1, Recording DEF MigrateInv
  <2> QED BY <1>6, <2>2, <2>3, <2>4 DEF MigrateInv
<1> QED BY <1>4, <1>5, <1>6 DEF StatementFails

LEMMA RecordCompleteKeeps ==
  ASSUME MigrateInv, NEW p \in Proc, RecordComplete(p) PROVE MigrateInv'
<1>1. /\ At(p, "run") /\ proc[p].at = "run" /\ proc[p].f \in File
      /\ proc[p].f \notin proc[p].seen /\ ~More(p)
      /\ complete' = complete \union {proc[p].f}
      /\ UNCHANGED <<applied, partial, faults, log>>
  BY DEF RecordComplete, At
<1>2. proc \in [Proc -> Process] /\ proc[p] \in Process
  BY DEF MigrateInv, TypeOK
<1>3. \A t \in Statement : t[1] <= proc[p].f => t \in applied
  BY <1>1, RunToTheEnd
<1>4. /\ proc' \in [Proc -> Process]
      /\ \A q \in Proc : Behind(applied, complete', proc'[q])
  <2>1. CASE Onward(p, proc[p])
    BY <1>1, <1>3, <2>1, OnwardKeeps
  <2>2. CASE proc' = [proc EXCEPT ![p].at = "clean"]
    <3> DEFINE r == [proc[p] EXCEPT !.at = "clean"]
    <3>1. proc' = [proc EXCEPT ![p] = r]
      BY <2>2
    <3>2. /\ r.at = "clean" /\ r.f = proc[p].f /\ r.i = proc[p].i
          /\ r.seen = proc[p].seen /\ r.startAt = proc[p].startAt
      BY <1>2 DEF Process
    <3>3. r \in Process
      BY <1>2 DEF Process
    <3> HIDE DEF r
    <3>4. \A q \in Proc : Behind(applied, complete', proc[q])
      BY <1>1, BehindGrows DEF MigrateInv
    <3>5. Behind(applied, complete', r)
      BY <1>1, <3>2, <3>4 DEF Behind
    <3> QED BY <1>2, <3>1, <3>3, <3>4, <3>5
  <2> QED BY <2>1, <2>2 DEF RecordComplete
<1>5. NoneSkipped' /\ PartialBehind'
  BY <1>1, <1>3, Recording DEF MigrateInv
<1>6. TypeOK'
  BY <1>1, <1>4 DEF MigrateInv, TypeOK, log
<1> QED BY <1>1, <1>4, <1>5, <1>6 DEF MigrateInv

LEMMA DeletePartialKeeps ==
  ASSUME MigrateInv, NEW p \in Proc, DeletePartial(p) PROVE MigrateInv'
<1>1. /\ proc[p].at = "clean" /\ proc[p].f \in File /\ proc[p].f \in complete
      /\ Reached(applied, proc[p].f, proc[p].i) /\ proc[p].i \in Nat
  BY DEF MigrateInv, TypeOK, Process, Behind, DeletePartial, At
<1>2. \A s \in Statement : s[1] = proc[p].f => s \in applied
  BY <1>1 DEF MigrateInv, NoneSkipped
<1>3. \A t \in Statement : t[1] <= proc[p].f => t \in applied
  BY <1>1, <1>2, FileDone
<1>4. Onward(p, proc[p]) /\ UNCHANGED <<applied, complete>>
  BY DEF DeletePartial
<1>5. proc' \in [Proc -> Process] /\ \A q \in Proc : Behind(applied, complete, proc'[q])
  BY <1>1, <1>3, <1>4, OnwardKeeps
<1>6. \/ partial' = [partial EXCEPT ![proc[p].f] = 0] /\ UNCHANGED <<faults, log>>
      \/ Fault("statement") /\ UNCHANGED partial
  BY DEF DeletePartial
<1>7. /\ partial' \in [File -> Nat]
      /\ \A f \in File : partial'[f] > 0 => partial'[f] = partial[f]
  BY <1>6 DEF MigrateInv, TypeOK
<1>8. faults' \in 0..MaxFaults /\ crowd' \in BOOLEAN /\ unclean' \in BOOLEAN
  BY <1>6, FaultTypes DEF MigrateInv, TypeOK, log
<1>9. TypeOK'
  BY <1>4, <1>5, <1>7, <1>8 DEF MigrateInv, TypeOK
<1>10. NoneSkipped' /\ PartialBehind'
  BY <1>4, <1>7 DEF MigrateInv, NoneSkipped, PartialBehind
<1> QED BY <1>4, <1>5, <1>9, <1>10 DEF MigrateInv

\* A process that has ended remembers nothing.
LEMMA DownBehind == /\ Down \in Process /\ \A A, C : Behind(A, C, Down)
                    /\ [Down EXCEPT !.at = "up"] \in Process
                    /\ \A A, C : Behind(A, C, [Down EXCEPT !.at = "up"])
  BY DEF Down, Process, Behind

LEMMA RecordPartialKeeps ==
  ASSUME MigrateInv, NEW p \in Proc, RecordPartial(p) PROVE MigrateInv'
<1>1. /\ proc[p].f \in File /\ Reached(applied, proc[p].f, proc[p].i) /\ proc[p].i \in Nat
      /\ partial' = [partial EXCEPT ![proc[p].f] = proc[p].i]
      /\ proc' = [proc EXCEPT ![p] = Down]
      /\ UNCHANGED <<applied, complete, faults, log>>
  BY DEF MigrateInv, TypeOK, Process, Behind, RecordPartial, At
<1>2. TypeOK'
  BY <1>1, DownBehind DEF MigrateInv, TypeOK, log
<1>3. PartialBehind' /\ NoneSkipped'
  BY <1>1 DEF MigrateInv, TypeOK, PartialBehind, NoneSkipped
<1>4. \A q \in Proc : Behind(applied', complete', proc'[q])
  BY <1>1, DownBehind DEF MigrateInv, TypeOK
<1> QED BY <1>2, <1>3, <1>4 DEF MigrateInv

\* A process comes up, or is killed.
LEMMA EndingKeeps ==
  ASSUME MigrateInv, NEW p \in Proc, ComesUp(p) \/ Killed(p) PROVE MigrateInv'
<1>1. /\ \/ proc' = [proc EXCEPT ![p] = [Down EXCEPT !.at = "up"]]
         \/ proc' = [proc EXCEPT ![p] = Down]
      /\ UNCHANGED <<applied, complete, partial>>
  BY DEF ComesUp, Killed
<1>2. faults' \in 0..MaxFaults /\ crowd' \in BOOLEAN /\ unclean' \in BOOLEAN
  <2>1. CASE UNCHANGED <<faults, log>>
    BY <2>1 DEF MigrateInv, TypeOK, log
  <2>2. CASE Fault("kill")
    BY <2>2, FaultTypes
  <2> QED BY <2>1, <2>2 DEF ComesUp, Killed
<1>3. TypeOK'
  BY <1>1, <1>2, DownBehind DEF MigrateInv, TypeOK
<1>4. \A q \in Proc : Behind(applied', complete', proc'[q])
  BY <1>1, DownBehind DEF MigrateInv, TypeOK
<1>5. NoneSkipped' /\ PartialBehind'
  BY <1>1, SameSchema DEF MigrateInv
<1> QED BY <1>3, <1>4, <1>5 DEF MigrateInv

LEMMA StepMigrate == MigrateInv /\ [Next]_vars => MigrateInv'
<1> SUFFICES ASSUME MigrateInv, [Next]_vars PROVE MigrateInv'
  OBVIOUS
<1>1. ASSUME NEW p \in Proc, runMigrations(p) PROVE MigrateInv'
  BY <1>1, StartKeeps, SkipFileKeeps, RunStatementKeeps, AlreadyAppliedKeeps,
     RecordCompleteKeeps, DeletePartialKeeps, RecordPartialKeeps, EndingKeeps
  DEF runMigrations
<1>2. ASSUME NEW p \in Proc, StatementFails(p) PROVE MigrateInv'
  BY <1>2, StatementFailsKeeps
<1>3. ASSUME NEW p \in Proc, Killed(p) PROVE MigrateInv'
  BY <1>3, EndingKeeps
<1>4. CASE UNCHANGED vars
  BY <1>4, SameSchema DEF MigrateInv, TypeOK, vars, log
<1> QED BY <1>1, <1>2, <1>3, <1>4 DEF Next, Deployed

-----------------------------------------------------------------------------
\* However many processes run the migrations at once, and whatever fails: a file
\* that schema_migrations records is in the schema to its last statement, and no
\* statement is in it without those in front (runMigrations, statements_done).
THEOREM MigrateNoneSkipped == Spec => []NoneSkipped
<1>1. MigrateInv => NoneSkipped
  BY DEF MigrateInv
<1> QED BY InitMigrate, StepMigrate, <1>1, PTL DEF Spec

\* Every state of the runner is well typed.
THEOREM MigrateTypeCorrect == Spec => []TypeOK
<1>1. MigrateInv => TypeOK
  BY DEF MigrateInv
<1> QED BY InitMigrate, StepMigrate, <1>1, PTL DEF Spec

-----------------------------------------------------------------------------
(* The hub among the other users of the database.  A scene is chosen at the *)
(* start and stays, so what holds of the hub alone holds here, for both      *)
(* settings of it.                                                           *)

HubP == INSTANCE LiveHubProofs WITH Overlap <- FALSE, SeedFaults <- TRUE
NarrowP == INSTANCE LiveHubProofs WITH
    Conn <- NarrowConn, Sluggish <- {}, MaxId <- NarrowMaxId,
    Batch <- NarrowBatch, LOOKBACK_IDS <- NarrowLookback, LIMIT <- NarrowLimit,
    Overlap <- FALSE, SeedFaults <- FALSE

\* The proofs' hub and the hub of the runs are one: definition by definition.
LEMMA HubSame ==
    /\ Hub!Init <=> HubP!Init
    /\ [Hub!Next]_Hub!vars <=> [HubP!Next]_HubP!vars
    /\ HubP!NobodyLeaked => Hub!NobodyLeaked
    /\ HubP!AtMostOnce => Hub!AtMostOnce
    /\ HubP!TypeOK => Hub!TypeOK
<1>1. \A S : Hub!Cardinality(S) = HubP!Cardinality(S)
  BY DEF Hub!Cardinality, HubP!Cardinality
<1>2. \A S : Hub!Min(S) = HubP!Min(S) /\ Hub!Max(S) = HubP!Max(S)
  BY DEF Hub!Min, HubP!Min, Hub!Max, HubP!Max
<1>3. Hub!Init <=> HubP!Init
  BY DEF Hub!Init, HubP!Init, Hub!Id, HubP!Id, Hub!Idle, HubP!Idle
<1>4. Hub!Idle = HubP!Idle /\ Hub!Free = HubP!Free /\ Hub!Open = HubP!Open
      /\ Hub!Visible = HubP!Visible /\ Hub!From = HubP!From
      /\ \A a, b : Hub!Larger(a, b) = HubP!Larger(a, b)
  BY DEF Hub!Idle, HubP!Idle, Hub!Free, HubP!Free, Hub!Open, HubP!Open,
         Hub!Visible, HubP!Visible, Hub!From, HubP!From, Hub!Larger,
         HubP!Larger, Hub!Id, HubP!Id
<1>5. \A a : Hub!Selected(a) = HubP!Selected(a)
  BY <1>1, <1>4 DEF Hub!Selected, HubP!Selected
<1>6. \A a, b : Hub!Retire(a, b) = HubP!Retire(a, b)
  BY <1>1, <1>4 DEF Hub!Retire, HubP!Retire
<1>7. /\ Hub!InsertBatch <=> HubP!InsertBatch
      /\ Hub!CommitBatch <=> HubP!CommitBatch
      /\ Hub!RollbackBatch <=> HubP!RollbackBatch
      /\ Hub!emitTxState <=> HubP!emitTxState
  BY <1>1, <1>2, <1>4
     DEF Hub!InsertBatch, HubP!InsertBatch, Hub!CommitBatch, HubP!CommitBatch,
         Hub!RollbackBatch, HubP!RollbackBatch, Hub!emitTxState,
         HubP!emitTxState, Hub!Id, HubP!Id, Hub!hub, HubP!hub, Hub!viewers,
         HubP!viewers
<1>8. Hub!TrimLiveEvents <=> HubP!TrimLiveEvents
  BY <1>4, <1>5 DEF Hub!TrimLiveEvents, HubP!TrimLiveEvents, Hub!Id, HubP!Id, Hub!hub,
         HubP!hub, Hub!viewers, HubP!viewers
<1>9. \A c : /\ Hub!Connect(c) <=> HubP!Connect(c)
             /\ Hub!maxLiveEventId(c) <=> HubP!maxLiveEventId(c)
             /\ Hub!SeedFails(c) <=> HubP!SeedFails(c)
             /\ Hub!Seeded(c) <=> HubP!Seeded(c)
  BY <1>2, <1>4 DEF Hub!Connect, HubP!Connect, Hub!maxLiveEventId,
                    HubP!maxLiveEventId, Hub!SeedFails, HubP!SeedFails,
                    Hub!Seeded, HubP!Seeded, Hub!Join, HubP!Join, Hub!hub,
                    HubP!hub
<1>10. \A c : /\ Hub!Close(c) <=> HubP!Close(c)
              /\ Hub!Saturate(c) <=> HubP!Saturate(c)
  BY DEF Hub!Close, HubP!Close, Hub!Saturate, HubP!Saturate, Hub!Unsubscribe,
         HubP!Unsubscribe, Hub!hub, HubP!hub
<1>11. /\ Hub!PollStarts <=> HubP!PollStarts
       /\ Hub!liveEventsSince <=> HubP!liveEventsSince
       /\ Hub!PollFails <=> HubP!PollFails
  BY <1>4, <1>5 DEF Hub!PollStarts, HubP!PollStarts, Hub!liveEventsSince,
         HubP!liveEventsSince, Hub!PollFails, HubP!PollFails, Hub!hub,
         HubP!hub, Hub!viewers, HubP!viewers
<1>12. Hub!FanOut <=> HubP!FanOut
  <2>1. Hub!Fresh = HubP!Fresh /\ Hub!Id = HubP!Id
        /\ \A g : Hub!Unsubscribe(g) <=> HubP!Unsubscribe(g)
    BY DEF Hub!Fresh, HubP!Fresh, Hub!Id, HubP!Id, Hub!Unsubscribe,
           HubP!Unsubscribe
  <2> QED
    BY <1>2, <1>4, <1>6, <2>1 DEF Hub!FanOut, HubP!FanOut
<1>13. (Hub!Done <=> HubP!Done) /\ (UNCHANGED Hub!vars <=> UNCHANGED HubP!vars)
  BY <1>4 DEF Hub!Done, HubP!Done, Hub!vars, HubP!vars, Hub!hub, HubP!hub,
              Hub!viewers, HubP!viewers
<1>14. [Hub!Next]_Hub!vars <=> [HubP!Next]_HubP!vars
  <2>1. (\E c \in Conn : \/ Hub!Connect(c) \/ Hub!maxLiveEventId(c) \/ Hub!SeedFails(c)
                        \/ Hub!Seeded(c) \/ Hub!Close(c) \/ Hub!Saturate(c))
        <=> (\E c \in Conn : \/ HubP!Connect(c) \/ HubP!maxLiveEventId(c)
                            \/ HubP!SeedFails(c) \/ HubP!Seeded(c) \/ HubP!Close(c)
                            \/ HubP!Saturate(c))
    BY <1>9, <1>10, Zenon
  <2> QED
    BY <2>1, <1>7, <1>8, <1>11, <1>12, <1>13, Zenon DEF Hub!Next, HubP!Next
<1>15. HubP!TypeOK => Hub!TypeOK
  BY <1>1 DEF Hub!TypeOK, HubP!TypeOK, Hub!Id, HubP!Id
<1> QED
  BY <1>3, <1>14, <1>15 DEF Hub!NobodyLeaked, HubP!NobodyLeaked,
                    Hub!AtMostOnce, HubP!AtMostOnce, Hub!Id, HubP!Id

LEMMA NarrowSame ==
    /\ Narrow!Init <=> NarrowP!Init
    /\ [Narrow!Next]_Narrow!vars <=> [NarrowP!Next]_NarrowP!vars
    /\ NarrowP!NobodyLeaked => Narrow!NobodyLeaked
    /\ NarrowP!AtMostOnce => Narrow!AtMostOnce
    /\ NarrowP!TypeOK => Narrow!TypeOK
<1>1. \A S : Narrow!Cardinality(S) = NarrowP!Cardinality(S)
  BY DEF Narrow!Cardinality, NarrowP!Cardinality
<1>2. \A S : Narrow!Min(S) = NarrowP!Min(S) /\ Narrow!Max(S) = NarrowP!Max(S)
  BY DEF Narrow!Min, NarrowP!Min, Narrow!Max, NarrowP!Max
<1>3. Narrow!Init <=> NarrowP!Init
  BY DEF Narrow!Init, NarrowP!Init, Narrow!Id, NarrowP!Id, Narrow!Idle, NarrowP!Idle
<1>4. Narrow!Idle = NarrowP!Idle /\ Narrow!Free = NarrowP!Free /\ Narrow!Open = NarrowP!Open
      /\ Narrow!Visible = NarrowP!Visible /\ Narrow!From = NarrowP!From
      /\ \A a, b : Narrow!Larger(a, b) = NarrowP!Larger(a, b)
  BY DEF Narrow!Idle, NarrowP!Idle, Narrow!Free, NarrowP!Free, Narrow!Open,
         NarrowP!Open, Narrow!Visible, NarrowP!Visible, Narrow!From,
         NarrowP!From, Narrow!Larger, NarrowP!Larger, Narrow!Id, NarrowP!Id
<1>5. \A a : Narrow!Selected(a) = NarrowP!Selected(a)
  BY <1>1, <1>4 DEF Narrow!Selected, NarrowP!Selected
<1>6. \A a, b : Narrow!Retire(a, b) = NarrowP!Retire(a, b)
  BY <1>1, <1>4 DEF Narrow!Retire, NarrowP!Retire
<1>7. /\ Narrow!InsertBatch <=> NarrowP!InsertBatch
      /\ Narrow!CommitBatch <=> NarrowP!CommitBatch
      /\ Narrow!RollbackBatch <=> NarrowP!RollbackBatch
      /\ Narrow!emitTxState <=> NarrowP!emitTxState
  BY <1>1, <1>2, <1>4
     DEF Narrow!InsertBatch, NarrowP!InsertBatch, Narrow!CommitBatch,
         NarrowP!CommitBatch, Narrow!RollbackBatch, NarrowP!RollbackBatch,
         Narrow!emitTxState, NarrowP!emitTxState, Narrow!Id, NarrowP!Id,
         Narrow!hub, NarrowP!hub, Narrow!viewers, NarrowP!viewers
<1>8. Narrow!TrimLiveEvents <=> NarrowP!TrimLiveEvents
  BY <1>4, <1>5 DEF Narrow!TrimLiveEvents, NarrowP!TrimLiveEvents, Narrow!Id, NarrowP!Id,
         Narrow!hub, NarrowP!hub, Narrow!viewers, NarrowP!viewers
<1>9. \A c : /\ Narrow!Connect(c) <=> NarrowP!Connect(c)
             /\ Narrow!maxLiveEventId(c) <=> NarrowP!maxLiveEventId(c)
             /\ Narrow!SeedFails(c) <=> NarrowP!SeedFails(c)
             /\ Narrow!Seeded(c) <=> NarrowP!Seeded(c)
  BY <1>2, <1>4 DEF Narrow!Connect, NarrowP!Connect, Narrow!maxLiveEventId,
                    NarrowP!maxLiveEventId, Narrow!SeedFails,
                    NarrowP!SeedFails, Narrow!Seeded, NarrowP!Seeded,
                    Narrow!Join, NarrowP!Join, Narrow!hub, NarrowP!hub
<1>10. \A c : /\ Narrow!Close(c) <=> NarrowP!Close(c)
              /\ Narrow!Saturate(c) <=> NarrowP!Saturate(c)
  BY DEF Narrow!Close, NarrowP!Close, Narrow!Saturate, NarrowP!Saturate,
         Narrow!Unsubscribe, NarrowP!Unsubscribe, Narrow!hub, NarrowP!hub
<1>11. /\ Narrow!PollStarts <=> NarrowP!PollStarts
       /\ Narrow!liveEventsSince <=> NarrowP!liveEventsSince
       /\ Narrow!PollFails <=> NarrowP!PollFails
  BY <1>4, <1>5 DEF Narrow!PollStarts, NarrowP!PollStarts, Narrow!liveEventsSince,
         NarrowP!liveEventsSince, Narrow!PollFails, NarrowP!PollFails,
         Narrow!hub, NarrowP!hub, Narrow!viewers, NarrowP!viewers
<1>12. Narrow!FanOut <=> NarrowP!FanOut
  <2>1. Narrow!Fresh = NarrowP!Fresh /\ Narrow!Id = NarrowP!Id
        /\ \A g : Narrow!Unsubscribe(g) <=> NarrowP!Unsubscribe(g)
    BY DEF Narrow!Fresh, NarrowP!Fresh, Narrow!Id, NarrowP!Id,
           Narrow!Unsubscribe, NarrowP!Unsubscribe
  <2> QED
    BY <1>2, <1>4, <1>6, <2>1 DEF Narrow!FanOut, NarrowP!FanOut
<1>13. (Narrow!Done <=> NarrowP!Done) /\ (UNCHANGED Narrow!vars <=> UNCHANGED NarrowP!vars)
  BY <1>4 DEF Narrow!Done, NarrowP!Done, Narrow!vars, NarrowP!vars, Narrow!hub,
              NarrowP!hub, Narrow!viewers, NarrowP!viewers
<1>14. [Narrow!Next]_Narrow!vars <=> [NarrowP!Next]_NarrowP!vars
  <2>1. (\E c \in NarrowConn : \/ Narrow!Connect(c) \/ Narrow!maxLiveEventId(c) \/ Narrow!SeedFails(c)
                        \/ Narrow!Seeded(c) \/ Narrow!Close(c) \/ Narrow!Saturate(c))
        <=> (\E c \in NarrowConn : \/ NarrowP!Connect(c) \/ NarrowP!maxLiveEventId(c)
                            \/ NarrowP!SeedFails(c) \/ NarrowP!Seeded(c) \/ NarrowP!Close(c)
                            \/ NarrowP!Saturate(c))
    BY <1>9, <1>10, Zenon
  <2> QED
    BY <2>1, <1>7, <1>8, <1>11, <1>12, <1>13, Zenon DEF Narrow!Next, NarrowP!Next
<1>15. NarrowP!TypeOK => Narrow!TypeOK
  BY <1>1 DEF Narrow!TypeOK, NarrowP!TypeOK, Narrow!Id, NarrowP!Id
<1> QED
  BY <1>3, <1>14, <1>15 DEF Narrow!NobodyLeaked, NarrowP!NobodyLeaked,
                    Narrow!AtMostOnce, NarrowP!AtMostOnce, Narrow!Id, NarrowP!Id

LEMMA HubScenes ==
    /\ MCInit => /\ scene = "live" => HubP!Init
                 /\ scene = "window" => NarrowP!Init
    /\ [MCNext]_all => /\ scene' = scene
                       /\ scene = "live" => [HubP!Next]_HubP!vars
                       /\ scene = "window" => [NarrowP!Next]_NarrowP!vars
<1>1. MCInit => /\ scene = "live" => Hub!Init
                /\ scene = "window" => Narrow!Init
  BY DEF MCInit, MigInit, HubInit, NarrowInit, SetInit
<1>2. [MCNext]_all => /\ scene' = scene
                      /\ scene = "live" => [Hub!Next]_Hub!vars
                      /\ scene = "window" => [Narrow!Next]_Narrow!vars
  BY DEF MCNext, MigStep, HubStep, NarrowStep, SetStep, all, hubVars,
         Hub!vars, Hub!hub, Hub!viewers, Narrow!vars, Narrow!hub, Narrow!viewers
<1> QED
  BY <1>1, <1>2, HubSame, NarrowSame

\* A viewer that has gone is no longer subscribed, and the hub polls exactly while
\* somebody is (subscribeLive, close in stream/route.ts).
THEOREM PlatformNobodyLeaked == HubP!Sizes => (MCSpec => []NobodyLeaked)
<1> SUFFICES ASSUME HubP!Sizes PROVE MCSpec => []NobodyLeaked
  OBVIOUS
<1> DEFINE Live == scene = "live"
<1>1. MCInit => (Live => HubP!Init)
  BY HubScenes
<1>2. [MCNext]_all => (Live' <=> Live) /\ (Live => [HubP!Next]_HubP!vars)
  BY HubScenes
<1>3. HubP!Spec => []HubP!NobodyLeaked
  BY HubP!HubNobodyLeaked
<1>4. (Live => HubP!NobodyLeaked) => NobodyLeaked
  BY HubSame DEF NobodyLeaked
<1> HIDE DEF Live
<1> QED
  BY <1>1, <1>2, <1>3, <1>4, PTL DEF MCSpec, HubP!Spec

\* No viewer is handed an event twice, or history, also when the hub's memory is so
\* short that ids are retired from it (poll in livehub.ts).
THEOREM PlatformAtMostOnce ==
    HubP!Sizes /\ NarrowP!Sizes => (MCSpec => []AtMostOnce)
<1> SUFFICES ASSUME HubP!Sizes, NarrowP!Sizes PROVE MCSpec => []AtMostOnce
  OBVIOUS
<1> DEFINE Live == scene = "live"
           Windowed == scene = "window"
<1>1. MCInit => (Live => HubP!Init) /\ (Windowed => NarrowP!Init)
  BY HubScenes
<1>2. [MCNext]_all => /\ Live' <=> Live
                      /\ Windowed' <=> Windowed
                      /\ Live => [HubP!Next]_HubP!vars
                      /\ Windowed => [NarrowP!Next]_NarrowP!vars
  BY HubScenes
<1>3. HubP!Spec => []HubP!AtMostOnce
  BY HubP!HubAtMostOnce
<1>4. NarrowP!Spec => []NarrowP!AtMostOnce
  BY NarrowP!HubAtMostOnce
<1>5. (Live => HubP!AtMostOnce) /\ (Windowed => NarrowP!AtMostOnce) => AtMostOnce
  BY HubSame, NarrowSame DEF AtMostOnce
<1> HIDE DEF Live, Windowed
<1> QED
  BY <1>1, <1>2, <1>3, <1>4, <1>5, PTL DEF MCSpec, HubP!Spec, NarrowP!Spec

-----------------------------------------------------------------------------
(* The settings: what the ingest daemon has read, and what it runs.        *)

Brokers == IsFiniteSet(Broker) /\ MaxEdits \in Nat

\* What the tables, the requests, the daemon and the reload under way look like.
SetTyped ==
    /\ table \in [broker : [Broker -> Set!Edition], keys : Set!Edition,
                  doc : [Tab -> Set!Edition], rev : Nat]
    /\ req \in [Req -> [at : {"idle", "write", "bump"}, tab : Tab \union {"none"},
                        n : Set!Edition, doc : Set!Docs]]
    /\ \A r \in Req : req[r].at = "write" => req[r].tab \in Tab /\ req[r].doc \in [Tab -> Set!Edition]
    /\ edits \in Set!Edition
    /\ daemon \in [up : BOOLEAN, keys : Set!Edition, eff : Set!Docs, lastFp : Int,
                   sig : Set!Rows, brokers : Set!Rows]
    /\ job = [at |-> job.at, boot |-> job.boot, doc |-> job.doc, stop |-> job.stop,
              slot |-> job.slot]
    /\ job.at \in {"idle", "keys", "eff", "brokers", "stopping", "node", "fp", "heal"}
    /\ job.boot \in BOOLEAN /\ job.doc \in Set!Docs
    /\ saves = [saved |-> saves.saved, missed |-> saves.missed] /\ saves.missed \in BOOLEAN

\* The daemon is down, starts, or has seen a revision that was there.
Phase ==
    /\ ~daemon.up => job.at = "idle" /\ daemon.brokers = Set!None
    /\ job.boot => daemon.lastFp = -1
    /\ job.at \in {"idle", "heal"} => ~job.boot
    /\ job.at = "fp" => job.boot
    /\ daemon.lastFp <= table.rev
    /\ daemon.sig = daemon.brokers
    /\ job.at \in {"stopping", "node", "fp"} => daemon.brokers \in [Broker -> Set!Edition]

\* The connectors are those of the rows that were read last, one for each that is
\* enabled, and their clients are the ones that run.
OnePerRow ==
    /\ \E S : conns \in Seq(S)
    /\ \A i \in 1..Len(conns) :
         /\ conns[i] = [broker |-> conns[i].broker, edition |-> conns[i].edition, id |-> conns[i].id]
         /\ conns[i].broker \in Broker /\ conns[i].edition \in Set!Edition
    /\ \A i, j \in 1..Len(conns) : conns[i].broker = conns[j].broker => i = j
Wired ==
    /\ open = {conns[i] : i \in 1..Len(conns)}
    /\ job.at = "stopping" => job.stop = open
    /\ job.at = "heal" => job.slot \in 1..Len(conns)
Of(s, rows) ==
    /\ \A i \in 1..Len(s) : /\ s[i].broker \in DOMAIN rows /\ rows[s[i].broker] > 0
                            /\ s[i].edition = rows[s[i].broker]
    /\ \A b \in DOMAIN rows : rows[b] > 0 => \E i \in 1..Len(s) : s[i].broker = b
Built == job.at # "stopping" => Of(conns, daemon.brokers)

\* What the reload under way, or the one before, has read is what the tables say,
\* if there is no revision that the daemon has not seen.
Settled == daemon.lastFp = table.rev /\ \A r \in Req : req[r].at # "bump"
Known ==
    Settled =>
        /\ job.at \in {"eff", "brokers", "stopping", "node"} => daemon.keys = table.keys
        /\ job.at \in {"brokers", "stopping", "node"} => job.doc = Set!None \/ daemon.eff = table.doc
        /\ job.at \in {"stopping", "node"} => daemon.brokers = table.broker
        /\ job.at \in {"idle", "heal"} /\ daemon.up /\ ~saves.missed =>
             daemon.keys = table.keys /\ daemon.eff = table.doc /\ daemon.brokers = table.broker

SetInv == SetTyped /\ Phase /\ OnePerRow /\ Wired /\ Built /\ Known

LEMMA NoneIs ==
    /\ Set!None \in Set!Docs /\ Set!None \in Set!Rows /\ DOMAIN Set!None = {}
    /\ 0 \in Int /\ Set!NoFp = -1
  BY DEF Set!None, Set!Docs, Set!Rows, Set!NoFp

\* Whatever holds of no connector holds of the empty list.
LEMMA NoConnectors ==
    /\ \E S : <<>> \in Seq(S)
    /\ Len(<<>>) = 0 /\ 1..Len(<<>>) = {}
    /\ Of(<<>>, Set!None)
  BY NoneIs DEF Of

LEMMA SetStart == ASSUME Brokers, Set!Init PROVE SetInv
<1>1. /\ table = [broker |-> [b \in Broker |-> 0], keys |-> 0,
                  doc |-> [t \in Tab |-> 0], rev |-> 0]
      /\ req = [r \in Req |-> [at |-> "idle", tab |-> "none", n |-> 0, doc |-> Set!None]]
      /\ edits = 0 /\ conns = <<>> /\ open = {}
      /\ daemon = [up |-> FALSE, keys |-> 0, eff |-> Set!None, lastFp |-> -1,
                   sig |-> Set!None, brokers |-> Set!None]
      /\ job = [at |-> "idle", boot |-> FALSE, doc |-> Set!None, stop |-> {}, slot |-> 0]
      /\ saves = [saved |-> [t \in Tab |-> 0], missed |-> FALSE]
  BY NoneIs DEF Set!Init, Set!Down, Set!Idle, Set!NoReq
<1>2. 0 \in Set!Edition
  BY DEF Set!Edition, Brokers
<1>3. SetTyped
  BY <1>1, <1>2, NoneIs DEF SetTyped
<1>4. Phase
  BY <1>1 DEF Phase
<1>5. OnePerRow /\ Wired /\ Built
  BY <1>1, NoConnectors DEF OnePerRow, Wired, Built
<1>6. Known
  BY <1>1 DEF Known, Settled
<1> QED
  BY <1>3, <1>4, <1>5, <1>6 DEF SetInv

\* A request of the web application moves: what it writes it announces later.
LEMMA WebKeeps ==
    ASSUME Brokers, SetInv, NEW r \in Req,
           Set!Admin(r) \/ Set!WriteOverrides(r) \/ Set!bumpRev(r)
    PROVE  SetInv'
<1>t. SetTyped /\ Phase /\ OnePerRow /\ Wired /\ Built /\ Known
  BY DEF SetInv
<1>1. UNCHANGED <<daemon, conns, open, job>> /\ UNCHANGED saves.missed
  <2>1. CASE Set!WriteOverrides(r)
    <3>1. saves' = [saves EXCEPT !.saved[req[r].tab] = req[r].n]
          /\ UNCHANGED <<daemon, conns, open, job>>
      BY <2>1 DEF Set!WriteOverrides, Set!ingest
    <3> QED
      BY <3>1, <1>t DEF SetTyped
  <2>2. CASE ~Set!WriteOverrides(r)
    BY <2>2 DEF Set!Admin, Set!upsertBroker, Set!ReadOverrides, Set!upsertChannelKey,
         Set!bumpRev, Set!ingest
  <2> QED
    BY <2>1, <2>2
<1>e. edits \in Nat /\ (edits < MaxEdits => edits + 1 \in Set!Edition) /\ 0 \in Set!Edition
  BY <1>t DEF SetTyped, Set!Edition, Brokers
<1>2. SetTyped' /\ table'.rev >= table.rev /\ (Settled' => Settled /\ UNCHANGED table)
  <2> DEFINE Request == [at : {"idle", "write", "bump"}, tab : Tab \union {"none"},
                         n : Set!Edition, doc : Set!Docs]
             Tables  == [broker : [Broker -> Set!Edition], keys : Set!Edition,
                         doc : [Tab -> Set!Edition], rev : Nat]
  <2>0. /\ table \in Tables /\ req \in [Req -> Request] /\ edits \in Set!Edition
        /\ \A x \in Req : req[x].at = "write" => req[x].tab \in Tab /\ req[x].doc \in [Tab -> Set!Edition]
    BY <1>t DEF SetTyped
  <2>1. ASSUME /\ table' \in Tables /\ table'.rev >= table.rev /\ edits' \in Set!Edition
               /\ \E q \in Request : /\ req' = [req EXCEPT ![r] = q]
                                     /\ q.at = "write" => q.tab \in Tab /\ q.doc \in [Tab -> Set!Edition]
                                     /\ \/ q.at = "bump"
                                        \/ q.at # "bump" /\ req[r].at # "bump" /\ table' = table
                                        \/ table'.rev > table.rev
               /\ saves' = [saved |-> saves'.saved, missed |-> saves'.missed]
        PROVE  SetTyped' /\ table'.rev >= table.rev /\ (Settled' => Settled /\ UNCHANGED table)
    <3>1. PICK q \in Request : /\ req' = [req EXCEPT ![r] = q]
                               /\ q.at = "write" => q.tab \in Tab /\ q.doc \in [Tab -> Set!Edition]
                               /\ \/ q.at = "bump"
                                  \/ q.at # "bump" /\ req[r].at # "bump" /\ table' = table
                                  \/ table'.rev > table.rev
      BY <2>1
    <3>2. /\ req' \in [Req -> Request] /\ req'[r] = q
          /\ \A x \in Req : x # r => req'[x] = req[x]
      BY <2>0, <3>1
    <3>3. \A x \in Req : req'[x].at = "write" =>
             req'[x].tab \in Tab /\ req'[x].doc \in [Tab -> Set!Edition]
      BY <2>0, <3>1, <3>2
    <3>4. SetTyped'
      BY <1>1, <2>1, <3>2, <3>3, <1>t DEF SetTyped
    <3>5. Settled' => Settled /\ UNCHANGED table
      <4> SUFFICES ASSUME Settled' PROVE Settled /\ UNCHANGED table
        OBVIOUS
      <4>1. daemon.lastFp = table'.rev /\ q.at # "bump" /\ \A x \in Req : req'[x].at # "bump"
        BY <1>1, <3>2 DEF Settled
      <4>2. table'.rev \in Nat /\ table.rev \in Nat /\ daemon.lastFp <= table.rev
            /\ daemon.lastFp \in Int
        BY <2>0, <2>1, <1>t DEF Phase, SetTyped
      <4>3. req[r].at # "bump" /\ table' = table
        BY <3>1, <4>1, <4>2
      <4> QED
        BY <3>2, <4>1, <4>3 DEF Settled
    <3> QED
      BY <2>1, <3>4, <3>5
  <2>2. ASSUME NEW b \in Broker, Set!upsertBroker(r, b)
        PROVE  SetTyped' /\ table'.rev >= table.rev /\ (Settled' => Settled /\ UNCHANGED table)
    <3>1. PICK n \in {edits', 0} : table' = [table EXCEPT !.broker[b] = n]
      BY <2>2 DEF Set!upsertBroker
    <3>2. /\ edits' = edits + 1 /\ edits < MaxEdits /\ saves' = saves
          /\ req' = [req EXCEPT ![r].at = "bump"]
      BY <2>2 DEF Set!upsertBroker, Set!Begin
    <3>3. table' \in Tables /\ table'.rev >= table.rev /\ edits' \in Set!Edition
      BY <1>e, <2>0, <3>1, <3>2
    <3>4. [req[r] EXCEPT !.at = "bump"] \in Request
      BY <2>0
    <3> QED
      BY <2>0, <2>1, <3>2, <3>3, <3>4, <1>t DEF SetTyped
  <2>3. CASE Set!upsertChannelKey(r)
    <3>1. /\ edits' = edits + 1 /\ edits < MaxEdits /\ saves' = saves
          /\ req' = [req EXCEPT ![r].at = "bump"] /\ table' = [table EXCEPT !.keys = edits']
      BY <2>3 DEF Set!upsertChannelKey, Set!Begin
    <3>2. table' \in Tables /\ table'.rev >= table.rev /\ edits' \in Set!Edition
      BY <1>e, <2>0, <3>1
    <3>3. [req[r] EXCEPT !.at = "bump"] \in Request
      BY <2>0
    <3> QED
      BY <2>0, <2>1, <3>1, <3>2, <3>3, <1>t DEF SetTyped
  <2>4. ASSUME NEW t \in Tab, Set!ReadOverrides(r, t)
        PROVE  SetTyped' /\ table'.rev >= table.rev /\ (Settled' => Settled /\ UNCHANGED table)
    <3> DEFINE q == [at |-> "write", tab |-> t, n |-> edits', doc |-> table.doc]
    <3>1. /\ edits' = edits + 1 /\ edits < MaxEdits /\ saves' = saves /\ table' = table
          /\ req' = [req EXCEPT ![r] = q] /\ req[r].at = "idle"
      BY <2>4 DEF Set!ReadOverrides, Set!Begin
    <3>2. table' \in Tables /\ table'.rev >= table.rev /\ edits' \in Set!Edition
      BY <1>e, <2>0, <3>1
    <3>3. q \in Request
      BY <2>0, <3>2 DEF Set!Docs
    <3>4. q.at = "write" /\ q.tab = t /\ q.doc = table.doc /\ table.doc \in [Tab -> Set!Edition]
      BY <2>0
    <3> HIDE DEF q
    <3> QED
      BY <2>0, <2>1, <3>1, <3>2, <3>3, <3>4, <1>t DEF SetTyped
  <2>5. CASE Set!WriteOverrides(r)
    <3> DEFINE q == [at |-> "bump", tab |-> "none", n |-> 0, doc |-> Set!None]
    <3>1. /\ table' = [table EXCEPT !.doc = [req[r].doc EXCEPT ![req[r].tab] = req[r].n]]
          /\ saves' = [saves EXCEPT !.saved[req[r].tab] = req[r].n]
          /\ req' = [req EXCEPT ![r] = q] /\ req[r].at = "write" /\ edits' = edits
      <4>1. [Set!NoReq EXCEPT !.at = "bump"] = q
        BY DEF Set!NoReq
      <4> HIDE DEF q
      <4> QED
        BY <2>5, <4>1 DEF Set!WriteOverrides
    <3>2. [req[r].doc EXCEPT ![req[r].tab] = req[r].n] \in [Tab -> Set!Edition]
      <4>1. req[r].doc \in [Tab -> Set!Edition] /\ req[r].n \in Set!Edition
        BY <2>0, <3>1
      <4> QED
        BY <4>1
    <3>3. table' \in Tables /\ table'.rev >= table.rev /\ edits' \in Set!Edition
      BY <2>0, <3>1, <3>2
    <3>4. q \in Request /\ q.at = "bump"
      BY <1>e, NoneIs
    <3>5. saves' = [saved |-> saves'.saved, missed |-> saves'.missed]
      BY <3>1, <1>t DEF SetTyped
    <3> HIDE DEF q
    <3> QED
      BY <2>1, <3>1, <3>3, <3>4, <3>5
  <2>6. CASE Set!bumpRev(r)
    <3> DEFINE q == [at |-> "idle", tab |-> "none", n |-> 0, doc |-> Set!None]
    <3>1. /\ table' = [table EXCEPT !.rev = @ + 1] /\ req' = [req EXCEPT ![r] = q]
          /\ edits' = edits /\ saves' = saves
      BY <2>6 DEF Set!bumpRev, Set!NoReq
    <3>2. table' \in Tables /\ table'.rev > table.rev /\ table'.rev >= table.rev
          /\ edits' \in Set!Edition
      BY <2>0, <3>1
    <3>3. q \in Request /\ q.at = "idle"
      BY <1>e, NoneIs
    <3> HIDE DEF q
    <3> QED
      BY <2>1, <3>1, <3>2, <3>3, <1>t DEF SetTyped
  <2> QED
    BY <2>2, <2>3, <2>4, <2>5, <2>6 DEF Set!Admin
<1>3. Phase'
  <2>1. table'.rev \in Nat /\ table.rev \in Nat /\ daemon.lastFp \in Int
    BY <1>2, <1>t DEF SetTyped
  <2> QED
    BY <1>1, <1>2, <2>1, <1>t DEF Phase
<1>4. OnePerRow' /\ Wired' /\ Built'
  BY <1>1, <1>t DEF OnePerRow, Wired, Built, Of
<1>5. Known'
  BY <1>1, <1>2, <1>t DEF Known
<1> QED
  BY <1>2, <1>3, <1>4, <1>5 DEF SetInv

\* A list of connectors is made anew: one for each row that is enabled.
LEMMA MadeOfRows ==
    ASSUME Brokers, NEW rows \in [Broker -> Set!Edition], NEW made,
           made = Set!MakeConnectors(rows)
    PROVE  /\ \E S : made \in Seq(S)
           /\ \A i \in 1..Len(made) :
                /\ made[i] = [broker |-> made[i].broker, edition |-> made[i].edition,
                              id |-> made[i].id]
                /\ made[i].broker \in Broker /\ made[i].edition \in Set!Edition
           /\ \A i, j \in 1..Len(made) : made[i].broker = made[j].broker => i = j
           /\ Of(made, rows)
<1> DEFINE E   == {b \in Broker : rows[b] > 0}
           n   == Cardinality(E)
           ids == Set!SetToSeq(E)
<1>1. IsFiniteSet(E) /\ n \in Nat /\ ExistsBijection(1..n, E)
  BY FS_Subset, FS_CardinalityType DEF Brokers
<1>2. /\ ids \in [1..n -> E]
      /\ \A i, j \in 1..n : ids[i] = ids[j] => i = j
  <2>1. PICK f \in [1..n -> E] : \A i, j \in 1..n : f[i] = f[j] => i = j
    <3>1. PICK f : f \in Bijection(1..n, E)
      BY <1>1 DEF ExistsBijection
    <3> QED
      BY <3>1 DEF Bijection, Injection, IsInjective
  <2>2. Set!Cardinality(E) = n
    BY DEF Set!Cardinality, Cardinality
  <2> HIDE DEF n, E
  <2>3. ids = CHOOSE g \in [1..n -> E] : Set!IsInjective(g)
    BY <2>2 DEF Set!SetToSeq
  <2>4. Set!IsInjective(f)
    BY <2>1 DEF Set!IsInjective
  <2>5. ids \in [1..n -> E] /\ Set!IsInjective(ids)
    BY <2>1, <2>3, <2>4
  <2> QED
    BY <2>5 DEF Set!IsInjective
<1>3. \A b \in E : \E i \in 1..n : ids[i] = b
  <2>1. ids \in Injection(1..n, E)
    BY <1>2 DEF Injection, IsInjective
  <2>2. IsFiniteSet(1..n) /\ Cardinality(1..n) = n
    BY <1>1, FS_Interval
  <2>3. ids \in Surjection(1..n, E)
    BY <1>1, <2>1, <2>2, FS_Injection
  <2> QED
    BY <2>3 DEF Surjection
<1> HIDE DEF n
<1>4. Len(ids) = n /\ DOMAIN ids = 1..n
  BY <1>1, <1>2
<1>5. made = [i \in 1..n |-> [broker |-> ids[i], edition |-> rows[ids[i]],
                              id |-> Set!NextId + i - 1]]
  BY <1>4 DEF Set!MakeConnectors
<1> HIDE DEF ids
<1>6. /\ \E S : made \in Seq(S)
      /\ Len(made) = n
  <2> DEFINE S == {made[i] : i \in 1..n}
  <2>1. made \in [1..n -> S]
    BY <1>5
  <2> HIDE DEF S
  <2>2. made \in Seq(S) /\ Len(made) = n
    BY <1>1, <2>1
  <2> QED
    BY <2>2
<1>7. \A i \in 1..n : /\ made[i] = [broker |-> made[i].broker, edition |-> made[i].edition,
                                    id |-> made[i].id]
                      /\ made[i].broker = ids[i] /\ made[i].edition = rows[ids[i]]
                      /\ ids[i] \in E
  BY <1>2, <1>5
<1>8. \A i \in 1..n : made[i].broker \in Broker /\ made[i].edition \in Set!Edition
                      /\ rows[made[i].broker] > 0
  BY <1>7
<1>9. Of(made, rows)
  BY <1>3, <1>6, <1>7, <1>8 DEF Of
<1>10. \A i, j \in 1..Len(made) : made[i].broker = made[j].broker => i = j
  BY <1>2, <1>6, <1>7
<1>11. \A i \in 1..Len(made) :
         /\ made[i] = [broker |-> made[i].broker, edition |-> made[i].edition, id |-> made[i].id]
         /\ made[i].broker \in Broker /\ made[i].edition \in Set!Edition
  BY <1>6, <1>7, <1>8
<1> QED
  BY <1>6, <1>9, <1>10, <1>11

\* The daemon's process has ended, or was never there.
LEMMA DownKeeps ==
    ASSUME Brokers, SetInv, UNCHANGED <<table, req, edits>>, daemon' = Set!Down,
           conns' = <<>>, open' = {}, job' = Set!Idle,
           saves' = [saved |-> saves'.saved, missed |-> saves'.missed],
           saves'.missed \in BOOLEAN
    PROVE  SetInv'
<1>t. SetTyped /\ Phase /\ Known
  BY DEF SetInv
<1>1. /\ daemon' = [up |-> FALSE, keys |-> 0, eff |-> Set!None, lastFp |-> -1,
                    sig |-> Set!None, brokers |-> Set!None]
      /\ job' = [at |-> "idle", boot |-> FALSE, doc |-> Set!None, stop |-> {}, slot |-> 0]
  BY NoneIs DEF Set!Down, Set!Idle
<1>2. 0 \in Set!Edition
  BY DEF Set!Edition, Brokers
<1>3. SetTyped'
  BY <1>1, <1>2, <1>t, NoneIs DEF SetTyped
<1>4. Phase'
  BY <1>1, <1>t DEF Phase, SetTyped
<1>5. OnePerRow' /\ Wired' /\ Built'
  <2>1. conns' = <<>> /\ open' = {} /\ job'.at = "idle" /\ daemon'.brokers = Set!None
    BY <1>1
  <2>2. OnePerRow'
    BY <2>1, NoConnectors DEF OnePerRow
  <2>3. Wired'
    BY <2>1, NoConnectors DEF Wired
  <2>4. Built'
    BY <2>1, NoConnectors DEF Built
  <2> QED
    BY <2>2, <2>3, <2>4
<1>6. Known'
  <2>1. ~Settled'
    <3>1. table'.rev # daemon'.lastFp
      BY <1>1, <1>t DEF SetTyped
    <3> QED
      BY <3>1 DEF Settled
  <2> QED
    BY <2>1 DEF Known
<1> QED
  BY <1>3, <1>4, <1>5, <1>6 DEF SetInv

\* A query of the reload fails: the poll's catch, or the end of a process that starts.
LEMMA QueryFailsKeeps == ASSUME Brokers, SetInv, Set!QueryFails PROVE SetInv'
<1>t. SetTyped /\ Phase /\ OnePerRow /\ Wired /\ Built /\ Known
  BY DEF SetInv
<1>1. /\ job.at \in {"keys", "brokers"} /\ UNCHANGED <<table, req, edits>>
      /\ saves' = [saves EXCEPT !.missed = TRUE] /\ job' = Set!Idle
      /\ IF job.boot THEN daemon' = Set!Down /\ conns' = <<>> /\ open' = {}
                     ELSE UNCHANGED <<daemon, conns, open>>
  BY DEF Set!QueryFails, Set!Abort
<1>2. saves' = [saved |-> saves'.saved, missed |-> saves'.missed] /\ saves'.missed = TRUE
  BY <1>1, <1>t DEF SetTyped
<1>3. CASE job.boot
  BY <1>1, <1>2, <1>3, DownKeeps
<1>4. CASE ~job.boot
  <2>1. /\ job' = [at |-> "idle", boot |-> FALSE, doc |-> Set!None, stop |-> {}, slot |-> 0]
        /\ UNCHANGED <<daemon, conns, open>>
    BY <1>1, <1>4 DEF Set!Idle
  <2>2. SetTyped'
    BY <1>1, <1>2, <2>1, <1>t, NoneIs DEF SetTyped
  <2>3. Phase'
    BY <1>1, <2>1, <1>t DEF Phase
  <2>4. OnePerRow' /\ Wired' /\ Built'
    BY <1>1, <2>1, <1>t DEF OnePerRow, Wired, Built, Of
  <2>5. Known'
    BY <1>2, <2>1 DEF Known
  <2> QED
    BY <2>2, <2>3, <2>4, <2>5 DEF SetInv
<1> QED
  BY <1>3, <1>4

\* The reload reads the channel keys.
LEMMA KeysKeeps == ASSUME Brokers, SetInv, Set!getChannelKeys PROVE SetInv'
<1>t. SetTyped /\ Phase /\ OnePerRow /\ Wired /\ Built /\ Known
  BY DEF SetInv
<1>1. /\ job.at = "keys" /\ UNCHANGED <<table, req, edits, conns, open, saves>>
      /\ daemon' = [daemon EXCEPT !.keys = table.keys] /\ job' = [job EXCEPT !.at = "eff"]
  BY DEF Set!getChannelKeys, Set!web
<1>2. /\ daemon'.keys = table.keys /\ daemon'.up = daemon.up /\ daemon'.eff = daemon.eff
      /\ daemon'.lastFp = daemon.lastFp /\ daemon'.sig = daemon.sig
      /\ daemon'.brokers = daemon.brokers
      /\ job' = [at |-> "eff", boot |-> job.boot, doc |-> job.doc, stop |-> job.stop,
                 slot |-> job.slot]
  BY <1>1, <1>t DEF SetTyped
<1>3. SetTyped'
  <2>1. table.keys \in Set!Edition
    BY <1>t DEF SetTyped
  <2> QED
    BY <1>1, <1>2, <2>1, <1>t DEF SetTyped
<1>4. Phase'
  BY <1>1, <1>2, <1>t DEF Phase
<1>5. OnePerRow' /\ Wired' /\ Built'
  BY <1>1, <1>2, <1>t DEF OnePerRow, Wired, Built, Of
<1>6. Known'
  BY <1>1, <1>2 DEF Known
<1> QED
  BY <1>3, <1>4, <1>5, <1>6 DEF SetInv

\* It reads the overrides document, or cannot.
LEMMA ConfigKeeps == ASSUME Brokers, SetInv, Set!effectiveConfig PROVE SetInv'
<1>t. SetTyped /\ Phase /\ OnePerRow /\ Wired /\ Built /\ Known
  BY DEF SetInv
<1>1. /\ job.at = "eff" /\ UNCHANGED <<table, req, edits, conns, open>>
      /\ \E doc \in {table.doc, Set!None} :
           daemon' = [daemon EXCEPT !.eff = doc] /\ job' = [job EXCEPT !.at = "brokers", !.doc = doc]
      /\ saves' = saves \/ saves' = [saves EXCEPT !.missed = TRUE]
  BY DEF Set!effectiveConfig, Set!web
<1>2. PICK doc \in {table.doc, Set!None} :
         daemon' = [daemon EXCEPT !.eff = doc] /\ job' = [job EXCEPT !.at = "brokers", !.doc = doc]
  BY <1>1
<1>3. /\ daemon'.keys = daemon.keys /\ daemon'.up = daemon.up /\ daemon'.eff = doc
      /\ daemon'.lastFp = daemon.lastFp /\ daemon'.sig = daemon.sig
      /\ daemon'.brokers = daemon.brokers
      /\ job' = [at |-> "brokers", boot |-> job.boot, doc |-> doc, stop |-> job.stop,
                 slot |-> job.slot]
  BY <1>2, <1>t DEF SetTyped
<1>4. SetTyped'
  <2>1. doc \in Set!Docs
    BY <1>t, NoneIs DEF SetTyped, Set!Docs
  <2>2. saves' = [saved |-> saves'.saved, missed |-> saves'.missed] /\ saves'.missed \in BOOLEAN
    BY <1>1, <1>t DEF SetTyped
  <2>3. daemon' \in [up : BOOLEAN, keys : Set!Edition, eff : Set!Docs, lastFp : Int,
                     sig : Set!Rows, brokers : Set!Rows]
    BY <1>2, <2>1, <1>t DEF SetTyped
  <2> QED
    BY <1>1, <1>3, <2>1, <2>2, <2>3, <1>t DEF SetTyped
<1>5. Phase'
  BY <1>1, <1>3, <1>t DEF Phase
<1>6. OnePerRow' /\ Wired' /\ Built'
  BY <1>1, <1>3, <1>t DEF OnePerRow, Wired, Built, Of
<1>7. Known'
  BY <1>1, <1>3, <1>t DEF Known, Settled
<1> QED
  BY <1>4, <1>5, <1>6, <1>7 DEF SetInv

\* It reads the broker rows, and has the connectors end when they changed.
LEMMA BrokersKeeps == ASSUME Brokers, SetInv, Set!getRuntimeBrokers PROVE SetInv'
<1>t. SetTyped /\ Phase /\ OnePerRow /\ Wired /\ Built /\ Known
  BY DEF SetInv
<1>1. /\ job.at = "brokers" /\ UNCHANGED <<table, req, edits, conns, open, saves>>
      /\ daemon' = [daemon EXCEPT !.brokers = table.broker, !.sig = table.broker]
      /\ job' = IF table.broker = daemon.sig THEN [job EXCEPT !.at = "node"]
                ELSE [job EXCEPT !.at = "stopping", !.stop = Set!Range(conns)]
  BY DEF Set!getRuntimeBrokers, Set!web
<1>2. /\ daemon'.keys = daemon.keys /\ daemon'.up = daemon.up /\ daemon'.eff = daemon.eff
      /\ daemon'.lastFp = daemon.lastFp /\ daemon'.sig = table.broker
      /\ daemon'.brokers = table.broker /\ table.broker \in [Broker -> Set!Edition]
      /\ daemon' \in [up : BOOLEAN, keys : Set!Edition, eff : Set!Docs, lastFp : Int,
                      sig : Set!Rows, brokers : Set!Rows]
  BY <1>1, <1>t DEF SetTyped, Set!Rows
<1>3. /\ job' = [at |-> job'.at, boot |-> job.boot, doc |-> job.doc, stop |-> job'.stop,
                 slot |-> job.slot]
      /\ \/ job'.at = "node" /\ table.broker = daemon.sig
         \/ job'.at = "stopping" /\ job'.stop = Set!Range(conns)
  BY <1>1, <1>t DEF SetTyped
<1>4. SetTyped'
  BY <1>1, <1>2, <1>3, <1>t DEF SetTyped
<1>5. Phase'
  <2>1. daemon.up /\ ~(job.at \in {"idle", "heal", "fp"})
    BY <1>1, <1>t DEF Phase, SetTyped
  <2> QED
    BY <1>1, <1>2, <1>3, <2>1, <1>t DEF Phase
<1>6. OnePerRow' /\ Wired' /\ Built'
  <2>1. Set!Range(conns) = open
    <3>1. DOMAIN conns = 1..Len(conns)
      BY <1>t DEF OnePerRow
    <3> QED
      BY <3>1, <1>t DEF Wired, Set!Range
  <2>2. OnePerRow'
    BY <1>1, <1>t DEF OnePerRow
  <2>3. Wired'
    BY <1>1, <1>3, <2>1, <1>t DEF Wired
  <2>4. Built'
    BY <1>1, <1>2, <1>3, <1>t DEF Built, Of, Phase
  <2> QED
    BY <2>2, <2>3, <2>4
<1>7. Known'
  BY <1>1, <1>2, <1>3, <1>t DEF Known, Settled
<1> QED
  BY <1>4, <1>5, <1>6, <1>7 DEF SetInv

\* All have ended: connectors for the rows that were read take their place.
LEMMA RestartKeeps == ASSUME Brokers, SetInv, Set!RestartConnectors PROVE SetInv'
<1>t. SetTyped /\ Phase /\ OnePerRow /\ Wired /\ Built /\ Known
  BY DEF SetInv
<1>1. /\ job.at = "stopping" /\ UNCHANGED <<table, req, edits, daemon, saves>>
      /\ conns' = Set!MakeConnectors(daemon.brokers)
      /\ open' = (open \ job.stop) \union Set!Range(conns')
      /\ job' = [job EXCEPT !.at = "node", !.stop = {}]
  BY DEF Set!RestartConnectors, Set!web
<1>2. job' = [at |-> "node", boot |-> job.boot, doc |-> job.doc, stop |-> {}, slot |-> job.slot]
  BY <1>1, <1>t DEF SetTyped
<1>3. /\ \E S : conns' \in Seq(S)
      /\ \A i \in 1..Len(conns') :
           /\ conns'[i] = [broker |-> conns'[i].broker, edition |-> conns'[i].edition,
                           id |-> conns'[i].id]
           /\ conns'[i].broker \in Broker /\ conns'[i].edition \in Set!Edition
      /\ \A i, j \in 1..Len(conns') : conns'[i].broker = conns'[j].broker => i = j
      /\ Of(conns', daemon.brokers)
  <2>1. daemon.brokers \in [Broker -> Set!Edition]
    BY <1>1, <1>t DEF Phase
  <2> QED
    BY <1>1, <2>1, MadeOfRows
<1>4. OnePerRow' /\ Wired' /\ Built'
  <2>1. open' = Set!Range(conns')
    BY <1>1, <1>t DEF Wired
  <2>2. DOMAIN conns' = 1..Len(conns')
    BY <1>3
  <2>3. OnePerRow'
    BY <1>3 DEF OnePerRow
  <2>4. Wired'
    BY <1>2, <2>1, <2>2 DEF Wired, Set!Range
  <2>5. Built'
    BY <1>1, <1>3 DEF Built, Of
  <2> QED
    BY <2>3, <2>4, <2>5
<1>5. SetTyped' /\ Phase'
  BY <1>1, <1>2, <1>t DEF SetTyped, Phase
<1>6. Known'
  BY <1>1, <1>2, <1>t DEF Known, Settled
<1> QED
  BY <1>4, <1>5, <1>6 DEF SetInv

\* The reload ends with the receiver; a start goes on to read the revision.
LEMMA ReceiverKeeps == ASSUME Brokers, SetInv, Set!NodeReceiver PROVE SetInv'
<1>t. SetTyped /\ Phase /\ OnePerRow /\ Wired /\ Built /\ Known
  BY DEF SetInv
<1>1. /\ job.at = "node" /\ UNCHANGED <<table, req, edits, daemon, conns, open>>
      /\ job' = IF job.boot THEN [job EXCEPT !.at = "fp"] ELSE Set!Idle
      /\ saves' = [saves EXCEPT !.missed = (job.doc = Set!None)]
  BY DEF Set!NodeReceiver, Set!web
<1>2. /\ job' = [at |-> job'.at, boot |-> job'.boot, doc |-> job'.doc, stop |-> job'.stop,
                 slot |-> job'.slot]
      /\ job'.boot = job.boot /\ job'.doc \in Set!Docs
      /\ job'.at = IF job.boot THEN "fp" ELSE "idle"
  BY <1>1, <1>t, NoneIs DEF SetTyped, Set!Idle
<1>3. saves' = [saved |-> saves'.saved, missed |-> saves'.missed]
      /\ saves'.missed = (job.doc = Set!None) /\ saves'.missed \in BOOLEAN
  BY <1>1, <1>t DEF SetTyped
<1>4. SetTyped'
  BY <1>1, <1>2, <1>3, <1>t DEF SetTyped
<1>5. Phase'
  <2>1. daemon.up
    BY <1>1, <1>t DEF Phase, SetTyped
  <2> QED
    BY <1>1, <1>2, <2>1, <1>t DEF Phase
<1>6. OnePerRow' /\ Wired' /\ Built'
  BY <1>1, <1>2, <1>t DEF OnePerRow, Wired, Built, Of
<1>7. Known'
  <2>1. CASE job.boot
    BY <1>1, <1>2, <2>1, <1>t DEF Known, Phase
  <2>2. CASE ~job.boot
    <3>1. job'.at = "idle" /\ (Settled' <=> Settled)
      BY <1>1, <1>2, <2>2 DEF Settled
    <3>2. Settled /\ ~saves'.missed =>
            daemon.keys = table.keys /\ daemon.eff = table.doc /\ daemon.brokers = table.broker
      BY <1>1, <1>3, <1>t DEF Known
    <3> QED
      BY <1>1, <3>1, <3>2 DEF Known
  <2> QED
    BY <2>1, <2>2
<1> QED
  BY <1>4, <1>5, <1>6, <1>7 DEF SetInv

\* The daemon starts; it has read nothing.
LEMMA StartsKeeps == ASSUME Brokers, SetInv, Set!Start PROVE SetInv'
<1>t. SetTyped /\ Phase /\ OnePerRow /\ Wired /\ Built /\ Known
  BY DEF SetInv
<1>1. /\ ~daemon.up /\ job.at = "idle" /\ UNCHANGED <<table, req, edits, conns, open, saves>>
      /\ daemon' = [up |-> TRUE, keys |-> 0, eff |-> Set!None, lastFp |-> -1,
                    sig |-> Set!None, brokers |-> Set!None]
      /\ job' = [at |-> "keys", boot |-> TRUE, doc |-> Set!None, stop |-> {}, slot |-> 0]
  <2>1. /\ daemon' = [Set!Down EXCEPT !.up = TRUE]
        /\ job' = [Set!Idle EXCEPT !.at = "keys", !.boot = TRUE]
        /\ ~daemon.up /\ job.at = "idle" /\ UNCHANGED <<table, req, edits, conns, open, saves>>
    BY DEF Set!Start, Set!web
  <2>2. /\ daemon' = [up |-> daemon'.up, keys |-> daemon'.keys, eff |-> daemon'.eff,
                      lastFp |-> daemon'.lastFp, sig |-> daemon'.sig, brokers |-> daemon'.brokers]
        /\ daemon'.up = TRUE /\ daemon'.keys = 0 /\ daemon'.eff = Set!None
        /\ daemon'.lastFp = -1 /\ daemon'.sig = Set!None /\ daemon'.brokers = Set!None
    BY <2>1, NoneIs DEF Set!Down
  <2>3. /\ job' = [at |-> job'.at, boot |-> job'.boot, doc |-> job'.doc, stop |-> job'.stop,
                   slot |-> job'.slot]
        /\ job'.at = "keys" /\ job'.boot = TRUE /\ job'.doc = Set!None
        /\ job'.stop = {} /\ job'.slot = 0
    BY <2>1 DEF Set!Idle
  <2> QED
    BY <2>1, <2>2, <2>3
<1>2. 0 \in Set!Edition
  BY DEF Set!Edition, Brokers
<1>3. SetTyped'
  BY <1>1, <1>2, <1>t, NoneIs DEF SetTyped
<1>4. Phase'
  <2>1. table.rev \in Nat
    BY <1>t DEF SetTyped
  <2> QED
    BY <1>1, <2>1 DEF Phase
<1>5. OnePerRow' /\ Wired' /\ Built'
  <2>1. daemon.brokers = Set!None
    BY <1>1, <1>t DEF Phase
  <2> QED
    BY <1>1, <2>1, <1>t DEF OnePerRow, Wired, Built, Of
<1>6. Known'
  <2>1. daemon'.lastFp # table'.rev
    BY <1>1, <1>t DEF SetTyped
  <2> QED
    BY <2>1 DEF Known, Settled
<1> QED
  BY <1>3, <1>4, <1>5, <1>6 DEF SetInv

\* The first revision is read when the start's reload is done: what was written in
\* between counts as missed.
LEMMA FirstKeeps == ASSUME Brokers, SetInv, Set!FirstFingerprint PROVE SetInv'
<1>t. SetTyped /\ Phase /\ OnePerRow /\ Wired /\ Built /\ Known
  BY DEF SetInv
<1>1. /\ job.at = "fp" /\ UNCHANGED <<table, req, edits, conns, open>>
      /\ daemon' = [daemon EXCEPT !.lastFp = table.rev] /\ job' = Set!Idle
      /\ saves' = [saves EXCEPT !.missed = @ \/ table.broker # daemon.brokers
                                             \/ table.doc # daemon.eff \/ table.keys # daemon.keys]
  BY DEF Set!FirstFingerprint, Set!web
<1>2. /\ daemon'.keys = daemon.keys /\ daemon'.up = daemon.up /\ daemon'.eff = daemon.eff
      /\ daemon'.lastFp = table.rev /\ daemon'.sig = daemon.sig
      /\ daemon'.brokers = daemon.brokers /\ table.rev \in Nat
      /\ job' = [at |-> "idle", boot |-> FALSE, doc |-> Set!None, stop |-> {}, slot |-> 0]
  BY <1>1, <1>t DEF SetTyped, Set!Idle
<1>3. /\ saves' = [saved |-> saves'.saved, missed |-> saves'.missed]
      /\ saves'.missed \in BOOLEAN
      /\ ~saves'.missed =>
           table.broker = daemon.brokers /\ table.doc = daemon.eff /\ table.keys = daemon.keys
  BY <1>1, <1>t DEF SetTyped
<1>4. SetTyped'
  <2>1. daemon' \in [up : BOOLEAN, keys : Set!Edition, eff : Set!Docs, lastFp : Int,
                     sig : Set!Rows, brokers : Set!Rows]
    BY <1>1, <1>2, <1>t DEF SetTyped
  <2> QED
    BY <1>1, <1>2, <1>3, <2>1, <1>t, NoneIs DEF SetTyped
<1>5. Phase'
  <2>1. daemon.up
    BY <1>1, <1>t DEF Phase
  <2> QED
    BY <1>1, <1>2, <2>1, <1>t DEF Phase
<1>6. OnePerRow' /\ Wired' /\ Built'
  BY <1>1, <1>2, <1>t DEF OnePerRow, Wired, Built, Of
<1>7. Known'
  BY <1>1, <1>2, <1>3 DEF Known
<1> QED
  BY <1>4, <1>5, <1>6, <1>7 DEF SetInv

\* The poll sees a revision, and remembers it before it reloads.
LEMMA PollKeeps == ASSUME Brokers, SetInv, Set!Poll PROVE SetInv'
<1>t. SetTyped /\ Phase /\ OnePerRow /\ Wired /\ Built /\ Known
  BY DEF SetInv
<1>1. /\ job.at = "idle" /\ daemon.up /\ UNCHANGED <<table, req, edits, conns, open, saves>>
      /\ daemon' = [daemon EXCEPT !.lastFp = table.rev]
      /\ job' = [Set!Idle EXCEPT !.at = "keys"]
  BY DEF Set!Poll, Set!web
<1>2. /\ daemon'.keys = daemon.keys /\ daemon'.up = daemon.up /\ daemon'.eff = daemon.eff
      /\ daemon'.lastFp = table.rev /\ daemon'.sig = daemon.sig
      /\ daemon'.brokers = daemon.brokers /\ table.rev \in Nat
      /\ job' = [at |-> "keys", boot |-> FALSE, doc |-> Set!None, stop |-> {}, slot |-> 0]
  BY <1>1, <1>t DEF SetTyped, Set!Idle
<1>3. SetTyped'
  <2>1. daemon' \in [up : BOOLEAN, keys : Set!Edition, eff : Set!Docs, lastFp : Int,
                     sig : Set!Rows, brokers : Set!Rows]
    BY <1>1, <1>2, <1>t DEF SetTyped
  <2>2. /\ job' = [at |-> job'.at, boot |-> job'.boot, doc |-> job'.doc, stop |-> job'.stop,
                   slot |-> job'.slot]
        /\ job'.at = "keys" /\ job'.boot = FALSE /\ job'.doc \in Set!Docs
    BY <1>2, NoneIs
  <2>3. saves' = [saved |-> saves'.saved, missed |-> saves'.missed] /\ saves'.missed \in BOOLEAN
    BY <1>1, <1>t DEF SetTyped
  <2> QED
    BY <1>1, <2>1, <2>2, <2>3, <1>t DEF SetTyped
<1>4. Phase'
  BY <1>1, <1>2, <1>t DEF Phase
<1>5. OnePerRow' /\ Wired' /\ Built'
  BY <1>1, <1>2, <1>t DEF OnePerRow, Wired, Built, Of
<1>6. Known'
  BY <1>2 DEF Known
<1> QED
  BY <1>3, <1>4, <1>5, <1>6 DEF SetInv

\* The watchdog stops a connector that has been silent ...
LEMMA WatchdogKeeps == ASSUME Brokers, SetInv, Set!runWatchdog PROVE SetInv'
<1>t. SetTyped /\ Phase /\ OnePerRow /\ Wired /\ Built /\ Known
  BY DEF SetInv
<1>1. /\ job.at = "idle" /\ daemon.up
      /\ UNCHANGED <<table, req, edits, daemon, conns, open, saves>>
      /\ \E i \in DOMAIN conns : job' = [Set!Idle EXCEPT !.at = "heal", !.slot = i]
  BY DEF Set!runWatchdog, Set!web
<1>2. PICK i \in 1..Len(conns) :
        job' = [at |-> "heal", boot |-> FALSE, doc |-> Set!None, stop |-> {}, slot |-> i]
  <2>1. DOMAIN conns = 1..Len(conns)
    BY <1>t DEF OnePerRow
  <2> QED
    BY <1>1, <2>1 DEF Set!Idle
<1>3. SetTyped'
  BY <1>1, <1>2, <1>t, NoneIs DEF SetTyped
<1>4. Phase'
  BY <1>1, <1>2, <1>t DEF Phase
<1>5. OnePerRow' /\ Wired' /\ Built'
  BY <1>1, <1>2, <1>t DEF OnePerRow, Wired, Built, Of
<1>6. Known'
  BY <1>1, <1>2, <1>t DEF Known, Settled
<1> QED
  BY <1>2, <1>3, <1>4, <1>5, <1>6 DEF SetInv

\* ... and puts another one in its place, for the row that was read last.
LEMMA HealedKeeps == ASSUME Brokers, SetInv, Set!Healed PROVE SetInv'
<1>t. SetTyped /\ Phase /\ OnePerRow /\ Wired /\ Built /\ Known
  BY DEF SetInv
<1> DEFINE k   == job.slot
           old == conns[k]
           new == [broker |-> old.broker, edition |-> daemon.brokers[old.broker],
                   id |-> Set!NextId]
<1>1. /\ job.at = "heal" /\ UNCHANGED <<table, req, edits, daemon, saves>>
      /\ conns' = [conns EXCEPT ![k] = new]
      /\ open' = (open \ {old}) \union {new}
      /\ job' = Set!Idle
  BY DEF Set!Healed, Set!web
<1>2. job' = [at |-> "idle", boot |-> FALSE, doc |-> Set!None, stop |-> {}, slot |-> 0]
  BY <1>1 DEF Set!Idle
<1>3. /\ k \in 1..Len(conns) /\ Len(conns) \in Nat /\ DOMAIN conns = 1..Len(conns)
      /\ Of(conns, daemon.brokers) /\ old.broker \in Broker /\ old.edition \in Set!Edition
      /\ \A i, j \in 1..Len(conns) : conns[i].broker = conns[j].broker => i = j
  <2>1. k \in 1..Len(conns) /\ Of(conns, daemon.brokers)
    BY <1>1, <1>t DEF Wired, Built
  <2>2. Len(conns) \in Nat /\ DOMAIN conns = 1..Len(conns)
    BY <1>t DEF OnePerRow
  <2> QED
    BY <2>1, <2>2, <1>t DEF OnePerRow
<1>4. old.edition = daemon.brokers[old.broker]
  BY <1>3 DEF Of
<1>5. /\ new = [broker |-> new.broker, edition |-> new.edition, id |-> new.id]
      /\ new.broker = old.broker /\ new.edition = old.edition
  BY <1>4
<1> HIDE DEF new, k
<1>6. /\ \E S : conns' \in Seq(S)
      /\ Len(conns') = Len(conns) /\ conns'[k] = new
      /\ \A i \in 1..Len(conns) : i # k => conns'[i] = conns[i]
  <2>1. PICK S : conns \in Seq(S)
    BY <1>t DEF OnePerRow
  <2>2. conns \in [1..Len(conns) -> S \union {new}] /\ new \in S \union {new}
    BY <2>1
  <2>3. conns' \in [1..Len(conns) -> S \union {new}]
    BY <1>1, <1>3, <2>2
  <2>4. conns' \in Seq(S \union {new}) /\ Len(conns') = Len(conns)
    BY <1>3, <2>3
  <2> QED
    BY <1>1, <1>3, <2>2, <2>4
<1>7. \A i \in 1..Len(conns') : /\ conns'[i].broker = conns[i].broker
                                /\ conns'[i].edition = conns[i].edition
                                /\ conns'[i] = [broker |-> conns'[i].broker,
                                                edition |-> conns'[i].edition,
                                                id |-> conns'[i].id]
  BY <1>5, <1>6, <1>t DEF OnePerRow
<1>8. OnePerRow'
  BY <1>6, <1>7, <1>t DEF OnePerRow
<1>9. open' = {conns'[i] : i \in 1..Len(conns')}
  <2>1. open = {conns[i] : i \in 1..Len(conns)}
    BY <1>t DEF Wired
  <2>2. \A i \in 1..Len(conns) : i # k => conns[i] # old
    BY <1>3
  <2>3. open' \subseteq {conns'[i] : i \in 1..Len(conns')}
    <3> SUFFICES ASSUME NEW CONSTANT c \in open' PROVE \E i \in 1..Len(conns) : c = conns'[i]
      BY <1>6
    <3>1. CASE c = new
      BY <1>3, <1>6, <3>1
    <3>2. CASE c \in open /\ c # old
      <4>1. PICK i \in 1..Len(conns) : c = conns[i]
        BY <2>1, <3>2
      <4>2. i # k
        BY <3>2, <4>1
      <4> QED
        BY <1>6, <4>1, <4>2
    <3> QED
      BY <1>1, <3>1, <3>2
  <2>4. \A i \in 1..Len(conns') : conns'[i] \in open'
    <3> SUFFICES ASSUME NEW CONSTANT i \in 1..Len(conns) PROVE conns'[i] \in open'
      BY <1>6
    <3>1. CASE i = k
      BY <1>1, <1>6, <3>1
    <3>2. CASE i # k
      BY <1>1, <1>6, <2>1, <2>2, <3>2
    <3> QED
      BY <3>1, <3>2
  <2> QED
    BY <2>3, <2>4
<1>10. Wired'
  BY <1>2, <1>9 DEF Wired
<1>11. Built'
  <2>1. Of(conns', daemon.brokers)
    <3>1. \A b \in DOMAIN daemon.brokers :
             daemon.brokers[b] > 0 => \E i \in 1..Len(conns) : conns[i].broker = b
      BY <1>3 DEF Of
    <3>2. \A b \in DOMAIN daemon.brokers :
             daemon.brokers[b] > 0 => \E i \in 1..Len(conns') : conns'[i].broker = b
      BY <1>6, <1>7, <3>1
    <3>3. \A i \in 1..Len(conns) : /\ conns[i].broker \in DOMAIN daemon.brokers
                                   /\ daemon.brokers[conns[i].broker] > 0
                                   /\ conns[i].edition = daemon.brokers[conns[i].broker]
      BY <1>3 DEF Of
    <3>4. \A i \in 1..Len(conns') : /\ conns'[i].broker \in DOMAIN daemon.brokers
                                    /\ daemon.brokers[conns'[i].broker] > 0
                                    /\ conns'[i].edition = daemon.brokers[conns'[i].broker]
      BY <1>6, <1>7, <3>3
    <3> QED
      BY <3>2, <3>4 DEF Of
  <2> QED
    BY <1>1, <2>1 DEF Built, Of
<1>12. SetTyped' /\ Phase'
  BY <1>1, <1>2, <1>t, NoneIs DEF SetTyped, Phase
<1>13. Known'
  BY <1>1, <1>2, <1>t DEF Known, Settled
<1> QED
  BY <1>8, <1>10, <1>11, <1>12, <1>13 DEF SetInv

LEMMA SetKept == ASSUME Brokers, SetInv, [Set!Next]_Set!vars PROVE SetInv'
<1>1. CASE UNCHANGED Set!vars
  BY <1>1 DEF SetInv, SetTyped, Phase, OnePerRow, Wired, Built, Of, Known, Settled, Set!vars
<1>2. CASE Set!Kill
  <2>1. /\ UNCHANGED <<table, req, edits, saves>> /\ daemon' = Set!Down
        /\ conns' = <<>> /\ open' = {} /\ job' = Set!Idle
    BY <1>2 DEF Set!Kill, Set!web
  <2> QED
    BY <2>1, DownKeeps DEF SetInv, SetTyped
<1> QED
  BY <1>1, <1>2, WebKeeps, QueryFailsKeeps, KeysKeeps, ConfigKeeps, BrokersKeeps,
     RestartKeeps, ReceiverKeeps, StartsKeeps, FirstKeeps, PollKeeps, WatchdogKeeps,
     HealedKeeps DEF Set!Next, Set!main, Set!reload

\* At rest the daemon runs what the tables say.
LEMMA QuietIsCurrent == ASSUME Brokers, SetInv PROVE Set!QuietMeansCurrent
<1> SUFFICES ASSUME daemon.up, job.at = "idle", Settled, ~saves.missed PROVE Set!Current
  BY DEF Set!QuietMeansCurrent, Settled
<1>1. daemon.keys = table.keys /\ daemon.eff = table.doc /\ daemon.brokers = table.broker
  BY DEF SetInv, Known
<1>2. /\ DOMAIN table.broker = Broker /\ DOMAIN conns = 1..Len(conns) /\ Len(conns) \in Nat
      /\ open = {conns[i] : i \in 1..Len(conns)}
      /\ \A i, j \in 1..Len(conns) : conns[i].broker = conns[j].broker => i = j
  BY DEF SetInv, SetTyped, OnePerRow, Wired
<1>3. /\ \A i \in 1..Len(conns) : /\ conns[i].broker \in Broker /\ table.broker[conns[i].broker] > 0
                                  /\ conns[i].edition = table.broker[conns[i].broker]
      /\ \A b \in Broker : table.broker[b] > 0 => \E i \in 1..Len(conns) : conns[i].broker = b
  BY <1>1, <1>2 DEF SetInv, Built, Of
<1>4. open = Set!Range(conns)
  BY <1>2 DEF Set!Range
<1>5. Len(conns) = Set!Cardinality(open)
  <2>1. conns \in Bijection(1..Len(conns), open)
    <3>1. conns \in [1..Len(conns) -> open]
      <4>1. PICK S : conns \in Seq(S)
        BY DEF SetInv, OnePerRow
      <4> QED
        BY <1>2, <4>1
    <3>2. \A i, j \in 1..Len(conns) : conns[i] = conns[j] => i = j
      BY <1>2
    <3> QED
      BY <1>2, <3>1, <3>2 DEF Bijection, Injection, Surjection, IsInjective
  <2>2. IsFiniteSet(1..Len(conns)) /\ Cardinality(1..Len(conns)) = Len(conns)
    BY <1>2, FS_Interval
  <2>3. Cardinality(open) = Len(conns)
    BY <2>1, <2>2, FS_Bijection DEF ExistsBijection
  <2> QED
    BY <2>3 DEF Set!Cardinality, Cardinality
<1>6. {<<c.broker, c.edition>> : c \in open}
        = {<<b, table.broker[b]>> : b \in {b \in Broker : table.broker[b] > 0}}
  <2> DEFINE Runs == {<<c.broker, c.edition>> : c \in open}
             Says == {<<b, table.broker[b]>> : b \in {b \in Broker : table.broker[b] > 0}}
  <2>1. Runs \subseteq Says
    BY <1>2, <1>3
  <2>2. ASSUME NEW b \in Broker, table.broker[b] > 0 PROVE <<b, table.broker[b]>> \in Runs
    <3>1. PICK i \in 1..Len(conns) : conns[i].broker = b
      BY <1>3, <2>2
    <3>2. conns[i] \in open /\ conns[i].edition = table.broker[b]
      BY <1>2, <1>3, <3>1
    <3> QED
      BY <3>1, <3>2
  <2> QED
    BY <2>1, <2>2
<1>7. \A c, d \in open : c.broker = d.broker => c = d
  BY <1>2
<1> QED
  BY <1>1, <1>4, <1>5, <1>6, <1>7 DEF Set!Current

LEMMA SetTypes == SetInv => Set!TypeOK
<1> SUFFICES ASSUME SetInv PROVE Set!TypeOK
  OBVIOUS
<1>1. \A c \in open : c.broker \in Broker /\ c.edition \in Set!Edition
  BY DEF SetInv, OnePerRow, Wired
<1> QED
  BY <1>1 DEF SetInv, SetTyped, Set!TypeOK

LEMMA SetScenes ==
    /\ MCInit => Init /\ (scene = "reload" => Set!Init)
    /\ [MCNext]_all => /\ scene' = scene /\ [Next]_vars
                       /\ scene = "reload" => [Set!Next]_Set!vars
<1>1. MCInit => Init /\ (scene = "reload" => Set!Init)
  BY DEF MCInit, MigInit, HubInit, NarrowInit, SetInit
<1>2. CASE UNCHANGED all
  BY <1>1, <1>2 DEF all, setVars, Set!vars
<1>3. CASE MCNext
  BY <1>1, <1>3 DEF MCNext, MigStep, HubStep, NarrowStep, SetStep
<1> QED
  BY <1>1, <1>2, <1>3

\* An ingest daemon at rest, which has seen the last revision and missed nothing,
\* runs what the tables say: each enabled broker by one connection of its last edit,
\* whatever was edited, healed, killed or cut short before (reload, ingest/index.ts).
THEOREM PlatformQuietMeansCurrent == Brokers => (MCSpec => []QuietMeansCurrent)
<1> SUFFICES ASSUME Brokers PROVE MCSpec => []QuietMeansCurrent
  OBVIOUS
<1> DEFINE In == scene = "reload" => SetInv
<1>1. MCInit => In
  BY SetScenes, SetStart
<1>2. In /\ [MCNext]_all => In'
  BY SetScenes, SetKept
<1>3. In => QuietMeansCurrent
  BY QuietIsCurrent DEF QuietMeansCurrent
<1> HIDE DEF In
<1> QED
  BY <1>1, <1>2, <1>3, PTL DEF MCSpec

\* Every variable of the migrations, the hub and the settings has its type, and the
\* hub remembers no more than twice the look-back (migrate.ts, livehub.ts, reload).
THEOREM PlatformTypesOK ==
    Brokers /\ HubP!Sizes /\ NarrowP!Sizes => (MCSpec => []TypesOK)
<1> SUFFICES ASSUME Brokers, HubP!Sizes, NarrowP!Sizes PROVE MCSpec => []TypesOK
  OBVIOUS
<1> DEFINE Live == scene = "live"
           Windowed == scene = "window"
           In == MigrateInv /\ (scene = "reload" => SetInv)
<1>1. MCInit => In /\ (Live => HubP!Init) /\ (Windowed => NarrowP!Init)
  BY SetScenes, SetStart, InitMigrate, HubScenes
<1>2. In /\ [MCNext]_all => In'
  BY SetScenes, SetKept, StepMigrate
<1>3. [MCNext]_all => /\ Live' <=> Live
                      /\ Windowed' <=> Windowed
                      /\ Live => [HubP!Next]_HubP!vars
                      /\ Windowed => [NarrowP!Next]_NarrowP!vars
  BY HubScenes
<1>4. HubP!Spec => []HubP!TypeOK
  BY HubP!HubMemoryBounded
<1>5. NarrowP!Spec => []NarrowP!TypeOK
  BY NarrowP!HubMemoryBounded
<1>6. In /\ (Live => HubP!TypeOK) /\ (Windowed => NarrowP!TypeOK) => TypesOK
  BY HubSame, NarrowSame, SetTypes DEF TypesOK, MigrateInv
<1> HIDE DEF Live, Windowed, In
<1> QED
  BY <1>1, <1>2, <1>3, <1>4, <1>5, <1>6, PTL DEF MCSpec, HubP!Spec, NarrowP!Spec
=============================================================================
