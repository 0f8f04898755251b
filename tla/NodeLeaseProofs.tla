--------------------------- MODULE NodeLeaseProofs ---------------------------
(***************************************************************************)
(* Proofs about the station-node lease, for any callers, tokens, timings   *)
(* and faults. The exclusion results assume the sentence the code gives as *)
(* the reason for TTL_SECONDS: no operation stays under the lease as long  *)
(* as TTL. They do not rely on a single renewal arriving.                  *)
(***************************************************************************)
EXTENDS NodeLease, TLAPS

\* The premise of the comment at TTL_SECONDS.
ShortOps == HoldMax < TTL

\* A caller has a token exactly while it works under the lease, and no two
\* callers have the same one.
Tokens ==
    /\ \A p \in Proc : Holding(p) <=> mine[p] # NoToken
    /\ \A p, q \in Proc : mine[p] = mine[q] /\ mine[p] # NoToken => p = q

TokenInv == TypeOK /\ Tokens

-----------------------------------------------------------------------------
(* The token invariant: every token belongs to one call. *)

LEMMA InitTokens == Init => TokenInv
  BY TimeAssumption DEF Init, TokenInv, TypeOK, Tokens, Holding

\* What Leave does to the callers' state.
LEMMA LeaveTokens ==
  ASSUME TokenInv, NEW p \in Proc, Leave(p)
  PROVE  /\ pc' \in [Proc -> {"idle", "acquire", "grace", "run", "release", "bare"}]
         /\ mine' \in [Proc -> Token \cup {NoToken}]
         /\ wait' \in [Proc -> Nat] /\ age' \in [Proc -> Nat] /\ ren' \in [Proc -> Nat]
         /\ Tokens'
  BY DEF TokenInv, TypeOK, Tokens, Holding, Leave

LEMMA NextTokens == TokenInv /\ [Next]_vars => TokenInv'
<1> SUFFICES ASSUME TokenInv, [Next]_vars PROVE TokenInv'
  OBVIOUS
<1>t. TypeOK /\ Tokens
  BY DEF TokenInv
<1>1. CASE Tick
  BY <1>1, <1>t, TimeAssumption DEF Tick, TokenInv, TypeOK, Tokens, Holding
<1>2. ASSUME NEW p \in Proc, Call(p) \/ withNodeLease(p) \/ Breaks(p)
      PROVE TokenInv'
  <2>1. CASE Call(p)
    BY <2>1, <1>t DEF Call, TokenInv, TypeOK, Tokens, Holding
  <2>2. CASE acquireNodeLease(p)
    <3> PICK t \in Token : Fresh(t) /\ row' = t /\ left' = TTL
                           /\ mine' = [mine EXCEPT ![p] = t]
      BY <2>2 DEF acquireNodeLease
    <3>1. TypeOK'
      BY <2>2, <1>t, TimeAssumption DEF acquireNodeLease, TypeOK
    <3>2. Tokens'
      BY <2>2, <1>t, TokenAssumption
         DEF acquireNodeLease, TypeOK, Tokens, Holding, Fresh
    <3> QED BY <3>1, <3>2 DEF TokenInv
  <2>3. CASE GiveUp(p)
    BY <2>3, <1>t, LeaveTokens DEF GiveUp, TokenInv, TypeOK
  <2>4. CASE Begin(p)
    BY <2>4, <1>t DEF Begin, TokenInv, TypeOK, Tokens, Holding
  <2>5. CASE RenewDue(p)
    <3>1. mine[p] \in Token
      BY <2>5, <1>t DEF RenewDue, TypeOK, Tokens, Holding
    <3> QED BY <2>5, <3>1, <1>t DEF RenewDue, TokenInv, TypeOK, Tokens, Holding
  <2>6. CASE Done(p)
    BY <2>6, <1>t DEF Done, TokenInv, TypeOK, Tokens, Holding
  <2>7. CASE releaseNodeLease(p)
    BY <2>7, <1>t, LeaveTokens, TimeAssumption DEF releaseNodeLease, TokenInv, TypeOK
  <2>8. CASE BareDone(p)
    BY <2>8, <1>t, LeaveTokens DEF BareDone, TokenInv, TypeOK
  <2>9. CASE AcquireThrows(p)
    <3>1. TypeOK'
      BY <2>9, <1>t, TimeAssumption DEF AcquireThrows, Fault, TypeOK
    <3>2. Tokens'
      BY <2>9, <1>t DEF AcquireThrows, Fault, TypeOK, Tokens, Holding
    <3> QED BY <3>1, <3>2 DEF TokenInv
  <2>10. CASE ReleaseThrows(p)
    BY <2>10, <1>t, LeaveTokens DEF ReleaseThrows, Fault, TokenInv, TypeOK
  <2>11. CASE Crash(p)
    BY <2>11, <1>t, LeaveTokens DEF Crash, Fault, TokenInv, TypeOK
  <2> QED
    BY <1>2, <2>1, <2>2, <2>3, <2>4, <2>5, <2>6, <2>7, <2>8, <2>9, <2>10, <2>11
       DEF withNodeLease, Breaks
<1>3. ASSUME NEW t \in Token, renewNodeLease(t) \/ RenewThrows(t)
      PROVE TokenInv'
  BY <1>3, <1>t, TimeAssumption
     DEF renewNodeLease, RenewThrows, Fault, TokenInv, TypeOK, Tokens, Holding
<1>4. CASE UNCHANGED vars
  BY <1>4, <1>t DEF vars, TokenInv, TypeOK, Tokens, Holding
<1> QED
  BY <1>1, <1>2, <1>3, <1>4 DEF Next

LEMMA TokensAlways == Spec => []TokenInv
  BY InitTokens, NextTokens, PTL DEF Spec

\* Every reachable state of the lease row and its callers is well formed.
THEOREM LeaseTypeCorrect == Spec => []TypeOK
<1>1. TokenInv => TypeOK
  BY DEF TokenInv
<1> QED BY <1>1, TokensAlways, PTL

-----------------------------------------------------------------------------
(* Fencing by token. *)

LEMMA StepFenced ==
  ASSUME TokenInv, [Next]_vars, NEW p \in Proc,
         mine[p] # NoToken, mine[p] = row, left > 0, pc[p] # "release"
  PROVE  row' = row
<1>t. TypeOK /\ Tokens
  BY DEF TokenInv
<1>1. CASE Tick
  BY <1>1 DEF Tick
<1>2. ASSUME NEW q \in Proc, Call(q) \/ withNodeLease(q) \/ Breaks(q)
      PROVE row' = row
  <2>1. CASE acquireNodeLease(q)
    BY <2>1, <1>t DEF acquireNodeLease, TypeOK
  <2>2. CASE AcquireThrows(q)
    BY <2>2, <1>t DEF AcquireThrows, TypeOK
  <2>3. CASE releaseNodeLease(q)
    <3>1. q # p
      BY <2>3 DEF releaseNodeLease
    <3>2. mine[q] # row
      BY <3>1, <1>t DEF Tokens
    <3> QED BY <2>3, <3>2 DEF releaseNodeLease
  <2> QED
    BY <1>2, <2>1, <2>2, <2>3
       DEF withNodeLease, Breaks, Call, GiveUp, Begin, RenewDue, Done, BareDone,
           ReleaseThrows, Crash
<1>3. ASSUME NEW t \in Token, renewNodeLease(t) \/ RenewThrows(t)
      PROVE row' = row
  BY <1>3 DEF renewNodeLease, RenewThrows
<1>4. CASE UNCHANGED vars
  BY <1>4 DEF vars
<1> QED
  BY <1>1, <1>2, <1>3, <1>4 DEF Next

\* Whatever expires, fails or crashes, a live lease leaves the hands of its
\* holder only by that holder's own release (WHERE id=1 AND token=?).
THEOREM LeaseFenced == Spec => Fenced
<1>1. TokenInv /\ [Next]_vars => [FencedStep]_vars
  BY StepFenced DEF FencedStep
<1> QED BY <1>1, TokensAlways, PTL DEF Spec, Fenced

-----------------------------------------------------------------------------
(* Exclusion: what a holder has used of its lease and what is left of it    *)
(* add up to TTL at least.                                                  *)

Timed ==
    \A p \in Proc :
        IF Holding(p) THEN /\ row = mine[p]
                           /\ left + age[p] >= TTL
                           /\ age[p] <= HoldMax
                      ELSE age[p] = 0

LeaseInv == TokenInv /\ Timed

\* The only possible holder is the one whose token the live row carries.
LEMMA HoldsAlone ==
  ASSUME ShortOps, LeaseInv, NEW p \in Proc, Holding(p)
  PROVE  left > 0 /\ row = mine[p] /\ \A q \in Proc : Holding(q) => q = p
  BY TimeAssumption DEF ShortOps, LeaseInv, TokenInv, TypeOK, Tokens, Timed

LEMMA InitTimed == Init => LeaseInv
  BY InitTokens DEF Init, LeaseInv, Timed, Holding

\* A caller that leaves the call disturbs nobody else's lease.
LEMMA LeaveTimed ==
  ASSUME LeaseInv, NEW p \in Proc, Leave(p),
         \A q \in Proc \ {p} : Holding(q) => row' = row /\ left' = left
  PROVE  Timed'
  BY DEF LeaseInv, TokenInv, TypeOK, Timed, Holding, Leave

LEMMA NextTimed ==
  ASSUME ShortOps
  PROVE  LeaseInv /\ [Next]_vars => LeaseInv'
<1> SUFFICES ASSUME LeaseInv, [Next]_vars PROVE Timed'
  BY NextTokens DEF LeaseInv
<1>t. TypeOK /\ Tokens /\ Timed
  BY DEF LeaseInv, TokenInv
<1>h. \A p \in Proc : Holding(p) =>
        left > 0 /\ row = mine[p] /\ \A q \in Proc : Holding(q) => q = p
  BY HoldsAlone
<1>1. CASE Tick
  <2>1. \A p \in Proc : Holding(p)' <=> Holding(p)
    BY <1>1 DEF Tick, Holding
  <2>2. ASSUME NEW p \in Proc, Holding(p)
        PROVE  row' = mine'[p] /\ left' + age'[p] >= TTL /\ age'[p] <= HoldMax
    <3>1. age'[p] = age[p] + 1 /\ age[p] < HoldMax
      BY <1>1, <2>2, <1>t DEF Tick, Punctual, TypeOK
    <3>2. left' = left - 1
      BY <1>1, <2>2, <1>h DEF Tick
    <3> QED
      BY <1>1, <2>2, <3>1, <3>2, <1>t, TimeAssumption DEF Tick, Timed, TypeOK
  <2>3. ASSUME NEW p \in Proc, ~Holding(p) PROVE age'[p] = 0
    BY <1>1, <2>3, <1>t DEF Tick, Timed, TypeOK
  <2> QED BY <2>1, <2>2, <2>3 DEF Timed
<1>2. ASSUME NEW p \in Proc, Call(p) \/ withNodeLease(p) \/ Breaks(p)
      PROVE Timed'
  <2>1. CASE Call(p)
    BY <2>1, <1>t DEF Call, Timed, Holding, TypeOK
  <2>2. CASE acquireNodeLease(p)
    <3>1. \A q \in Proc : ~Holding(q)
      BY <2>2, <1>h, <1>t DEF acquireNodeLease, TypeOK
    <3>2. \A q \in Proc : age[q] = 0
      BY <3>1, <1>t DEF Timed
    <3>3. \A q \in Proc \ {p} : ~Holding(q)'
      BY <2>2, <3>1, <1>t DEF acquireNodeLease, Holding, TypeOK
    <3>4. row' = mine'[p] /\ left' = TTL /\ age' = age /\ Holding(p)'
      BY <2>2, <1>t DEF acquireNodeLease, TypeOK, Holding
    <3> QED BY <3>2, <3>3, <3>4, TimeAssumption DEF Timed
  <2>3. CASE GiveUp(p)
    BY <2>3, LeaveTimed DEF GiveUp
  <2>4. CASE Begin(p)
    BY <2>4, <1>t DEF Begin, Timed, Holding, TypeOK
  <2>5. CASE RenewDue(p)
    BY <2>5, <1>t DEF RenewDue, Timed, Holding, TypeOK
  <2>6. CASE Done(p)
    BY <2>6, <1>t DEF Done, Timed, Holding, TypeOK
  <2>7. CASE releaseNodeLease(p)
    <3>1. Holding(p)
      BY <2>7 DEF releaseNodeLease, Holding
    <3>2. \A q \in Proc \ {p} : ~Holding(q)
      BY <3>1, <1>h
    <3> QED BY <2>7, <3>2, LeaveTimed DEF releaseNodeLease
  <2>8. CASE BareDone(p)
    BY <2>8, LeaveTimed DEF BareDone
  <2>9. CASE AcquireThrows(p)
    <3>1. CASE left = 0
      <4>1. \A q \in Proc : ~Holding(q)
        BY <3>1, <1>h, <1>t DEF TypeOK
      <4>2. \A q \in Proc : ~Holding(q)'
        BY <2>9, <4>1, <1>t DEF AcquireThrows, Holding, TypeOK
      <4> QED BY <2>9, <4>1, <4>2, <1>t DEF AcquireThrows, Timed
    <3>2. CASE left # 0
      BY <2>9, <3>2, <1>t DEF AcquireThrows, Timed, Holding, TypeOK
    <3> QED BY <3>1, <3>2
  <2>10. CASE ReleaseThrows(p)
    BY <2>10, LeaveTimed DEF ReleaseThrows
  <2>11. CASE Crash(p)
    BY <2>11, LeaveTimed DEF Crash
  <2> QED
    BY <1>2, <2>1, <2>2, <2>3, <2>4, <2>5, <2>6, <2>7, <2>8, <2>9, <2>10, <2>11
       DEF withNodeLease, Breaks
<1>3. ASSUME NEW t \in Token, renewNodeLease(t)
      PROVE Timed'
  <2>1. left' \in {left, TTL} /\ UNCHANGED <<row, pc, mine, age>>
    BY <1>3 DEF renewNodeLease
  <2> QED BY <2>1, <1>t, TimeAssumption DEF Timed, Holding, TypeOK
<1>4. ASSUME NEW t \in Token, RenewThrows(t)
      PROVE Timed'
  BY <1>4, <1>t DEF RenewThrows, Timed, Holding
<1>5. CASE UNCHANGED vars
  BY <1>5, <1>t DEF vars, Timed, Holding
<1> QED
  BY <1>1, <1>2, <1>3, <1>4, <1>5 DEF Next

LEMMA LeaseInvAlways ==
  ASSUME ShortOps
  PROVE  Spec => []LeaseInv
<1>1. Init => LeaseInv
  BY InitTimed
<1>2. LeaseInv /\ [Next]_vars => LeaseInv'
  BY NextTimed
<1> QED BY <1>1, <1>2, PTL DEF Spec

\* No two operations overlap under the lease, even if every renewal is lost,
\* as long as none of them is as long as TTL.
THEOREM LeaseSoleHolder ==
  ASSUME ShortOps
  PROVE  Spec => []SoleHolder
<1>1. LeaseInv => SoleHolder
  BY HoldsAlone DEF SoleHolder, Holding
<1>2. Spec => []LeaseInv
  BY LeaseInvAlways
<1> QED BY <1>1, <1>2, PTL

\* Under the same premise a holder never loses its lease mid-flight.
THEOREM LeaseNeverLost ==
  ASSUME ShortOps
  PROVE  Spec => []NeverLosesLease
<1>1. LeaseInv => NeverLosesLease
  BY HoldsAlone DEF NeverLosesLease, Holding
<1>2. Spec => []LeaseInv
  BY LeaseInvAlways
<1> QED BY <1>1, <1>2, PTL

=============================================================================
