---------------------------- MODULE TicketProofs ----------------------------
(***************************************************************************)
(* Proofs about Ticket, for every number of scans, every skew window, every *)
(* clock drift and latency, and every replay-cache TTL that Outlives them.  *)
(*                                                                          *)
(* A spent nonce is either still in the cache, or so old that no scan that  *)
(* passed the window check for its code can still be on its way to Redis.   *)
(***************************************************************************)
EXTENDS Ticket, TLAPS

\* The last instant at which a scan for minute m may reach the cache.
LastClaim(m) == m + Skew + Drift + Latency

\* A genuine code was issued, and at most Drift ahead of true time.
GenuineIsIssued ==
  /\ \A p \in issued : p[2] <= now + Drift
  /\ \A s \in Scan :
       scan[s].step = "judge" /\ scan[s].genuine
         => \E k \in Secret : <<k, scan[s].minute>> \in issued

\* A scan on its way to Redis checked the window at most Latency ago.
ClaimIsTimely ==
  \A s \in Scan :
    scan[s].step = "claim" =>
      /\ scan[s].at \in Minute
      /\ now <= scan[s].at + Latency
      /\ scan[s].at <= scan[s].minute + Skew + Drift
      /\ \E k \in Secret : <<k, scan[s].minute>> \in issued

\* A nonce in the cache was set for an issued code, not before it was issued.
NonceIsRecent ==
  \A m \in Minute :
    seen[m] # NoTime => /\ m <= seen[m] + Drift
                        /\ \E k \in Secret : <<k, m>> \in issued

\* A spent nonce is in the cache, or nothing can claim it any more.
SpentStaysSpent == \A m \in spent : seen[m] # NoTime \/ now > LastClaim(m)

Issuance == TypeOK /\ GenuineIsIssued /\ ClaimIsTimely /\ NonceIsRecent
Inv == Issuance /\ SpentStaysSpent

-----------------------------------------------------------------------------
\* The three kinds of scan state are told apart by their step.
LEMMA ScanKinds ==
  ASSUME TypeOK, NEW s \in Scan
  PROVE  /\ scan[s].step \in {"judge", "claim"} => scan[s] \in QrScan
         /\ scan[s].step = "settle" => scan[s] \in SettlingScan
<1>1. scan[s] \in {Idle} \cup QrScan \cup SettlingScan
  BY DEF TypeOK
<1> QED
  BY <1>1 DEF Idle, QrScan, SettlingScan

\* What a scan becomes is a scan state.
LEMMA GoesTyped ==
  ASSUME TypeOK, NEW s \in Scan, NEW r \in {Idle} \cup QrScan \cup SettlingScan,
         Goes(s, r)
  PROVE  scan' \in [Scan -> {Idle} \cup QrScan \cup SettlingScan]
BY DEF TypeOK, Goes

\* A verdict on the status leaves the scan settling or idle.
LEMMA VerdictGoes ==
  ASSUME TypeOK, NEW s \in Scan, NEW h \in BOOLEAN, StatusVerdict(s, h)
  PROVE  \E r \in {Idle} \cup SettlingScan : Goes(s, r)
<1>1. CASE h
  <2>1. PICK auto \in BOOLEAN : Goes(s, [step |-> "settle", auto |-> auto])
    BY <1>1 DEF StatusVerdict
  <2>2. [step |-> "settle", auto |-> auto] \in SettlingScan
    BY DEF SettlingScan
  <2> QED
    BY <2>1, <2>2
<1>2. CASE ~h
  BY <1>2 DEF StatusVerdict, Answered
<1> QED
  BY <1>1, <1>2

\* A scan that passes the window check carries the instant of the check, which
\* is at most Skew and the drift of one clock away from the code's minute.
LEMMA WindowGoes ==
  ASSUME TypeOK, NEW s \in Scan, scan[s].step = "judge", InWindow(s)
  PROVE  \/ Goes(s, Idle)
         \/ /\ Goes(s, Checked(scan[s]))
            /\ now <= scan[s].minute + Skew + Drift
            /\ Checked(scan[s]) \in QrScan
<1>1. PICK c \in Clocks :
        \/ ~withinSkewWindow(scan[s].minute, c) /\ Answered(s)
        \/ /\ withinSkewWindow(scan[s].minute, c)
           /\ Goes(s, Checked(scan[s]))
  BY DEF InWindow
<1>2. scan[s] \in QrScan
  BY ScanKinds
<1>3. /\ scan[s].minute \in 0..MaxTime
      /\ now \in 0..MaxTime /\ c \in 0..MaxTime
  BY <1>2 DEF QrScan, TypeOK, Clocks, Minute
<1>4. Checked(scan[s]) \in QrScan
  BY <1>2 DEF QrScan, TypeOK, Checked
<1>5. CASE withinSkewWindow(scan[s].minute, c)
  <2>1. Abs(c - now) <= Drift /\ Abs(c - scan[s].minute) <= Skew
    BY <1>5 DEF Clocks, withinSkewWindow
  <2>2. now <= scan[s].minute + Skew + Drift
    BY <1>3, <2>1, MinutesAssumption DEF Abs
  <2> QED
    BY <1>1, <1>4, <1>5, <2>2
<1>6. CASE ~withinSkewWindow(scan[s].minute, c)
  BY <1>1, <1>6 DEF Answered
<1> QED
  BY <1>5, <1>6

-----------------------------------------------------------------------------
\* The initial state satisfies the invariant.
LEMMA InitInv == Init => Inv
<1> SUFFICES ASSUME Init PROVE Inv
  OBVIOUS
<1>1. now = 0 /\ 0 \in Minute
  BY MinutesAssumption DEF Init, Minute
<1>2. late \in BOOLEAN
  BY DEF Init
<1>3. TypeOK
  BY <1>1, <1>2 DEF Init, TypeOK, Status, Secret
<1>4. GenuineIsIssued /\ ClaimIsTimely /\ NonceIsRecent /\ SpentStaysSpent
  BY DEF Init, Idle, GenuineIsIssued, ClaimIsTimely, NonceIsRecent,
         SpentStaysSpent
<1> QED
  BY <1>3, <1>4 DEF Inv, Issuance

\* Every step keeps the types.
LEMMA TypeStep == TypeOK /\ [Next]_vars => TypeOK'
<1> SUFFICES ASSUME TypeOK, [Next]_vars PROVE TypeOK'
  OBVIOUS
<1> USE MinutesAssumption
<1>1. ASSUME NEW s \in Scan, ScanQr(s) PROVE TypeOK'
  <2>1. PICK p \in issued \cup ({Misread} \X Minute) :
          Goes(s, [step |-> "judge", minute |-> p[2], genuine |-> p[1] = secret,
                   honourable |-> status \in HONOURABLE, at |-> NoTime])
    BY <1>1 DEF ScanQr
  <2>2. p[2] \in Minute
    BY DEF TypeOK
  <2> DEFINE r == [step |-> "judge", minute |-> p[2],
                   genuine |-> p[1] = secret,
                   honourable |-> status \in HONOURABLE, at |-> NoTime]
  <2>3. r \in QrScan
    BY <2>2 DEF QrScan
  <2>4. scan' \in [Scan -> {Idle} \cup QrScan \cup SettlingScan]
    <3> HIDE DEF r
    <3> QED
      BY <2>1, <2>3, GoesTyped DEF r
  <2> QED
    BY <1>1, <2>4 DEF ScanQr, TypeOK
<1>2. ASSUME NEW s \in Scan, Judge(s) PROVE TypeOK'
  <2>1. Goes(s, Idle) \/ \E r \in QrScan : Goes(s, r)
    BY <1>2, WindowGoes DEF Judge, Answered
  <2>2. scan' \in [Scan -> {Idle} \cup QrScan \cup SettlingScan]
    BY <2>1, GoesTyped
  <2> QED
    BY <1>2, <2>2 DEF Judge, TypeOK
<1>3. ASSUME NEW s \in Scan, Claim(s) PROVE TypeOK'
  <2>1. scan[s] \in QrScan
    BY <1>3, ScanKinds DEF Claim
  <2>2. scan[s].minute \in Minute /\ scan[s].honourable \in BOOLEAN
    BY <2>1 DEF QrScan
  <2>3. scan' \in [Scan -> {Idle} \cup QrScan \cup SettlingScan]
    BY <1>3, <2>2, VerdictGoes, GoesTyped DEF Claim, Answered
  <2>4. seen' \in [Minute -> Minute \cup {NoTime}] /\ spent' \subseteq Minute
    BY <1>3, <2>2 DEF Claim, TypeOK
  <2> QED
    BY <1>3, <2>3, <2>4 DEF Claim, TypeOK
<1>4. ASSUME NEW s \in Scan, ClaimUnavailable(s) PROVE TypeOK'
  BY <1>4, GoesTyped DEF ClaimUnavailable, Answered, TypeOK
<1>5. ASSUME NEW s \in Scan, ScanAccessCode(s) PROVE TypeOK'
  <2>1. (status \in HONOURABLE) \in BOOLEAN
    OBVIOUS
  <2>2. scan' \in [Scan -> {Idle} \cup QrScan \cup SettlingScan]
    BY <1>5, <2>1, VerdictGoes, GoesTyped DEF ScanAccessCode
  <2> QED
    BY <1>5, <2>2 DEF ScanAccessCode, TypeOK
<1>6. ASSUME NEW s \in Scan, Settle(s) PROVE TypeOK'
  <2>1. scan' \in [Scan -> {Idle} \cup QrScan \cup SettlingScan]
    BY <1>6, GoesTyped DEF Settle, Answered
  <2> QED
    BY <1>6, <2>1 DEF Settle, TypeOK, Status
<1>7. ASSUME NEW m \in Minute, ExpireNonce(m) PROVE TypeOK'
  BY <1>7 DEF ExpireNonce, TypeOK
<1>8. CASE Issue
  <2>1. PICK c \in Clocks : issued' = issued \cup {<<secret, c>>}
    BY <1>8 DEF Issue
  <2>2. issued' \subseteq Secret \X Minute
    BY <2>1 DEF Clocks, TypeOK
  <2> QED
    BY <1>8, <2>2 DEF Issue, TypeOK
<1>9. CASE Cancel
  BY <1>9 DEF Cancel, TypeOK, Status
<1>10. CASE LateConfirm
  <2>1. late' \in BOOLEAN
    BY <1>10 DEF LateConfirm
  <2> QED
    BY <1>10, <2>1 DEF LateConfirm, TypeOK, Status, Secret
<1>11. CASE OperatorReads
  BY <1>11 DEF OperatorReads, TypeOK
<1>12. CASE OperatorWrites
  BY <1>12 DEF OperatorWrites, TypeOK, Status
<1>13. CASE Tick
  BY <1>13 DEF Tick, TypeOK, Minute
<1>14. CASE CacheRestarts
  BY <1>14 DEF CacheRestarts, TypeOK
<1>15. CASE UNCHANGED vars
  BY <1>15 DEF vars, TypeOK
<1> QED
  BY <1>1, <1>2, <1>3, <1>4, <1>5, <1>6, <1>7, <1>8, <1>9, <1>10, <1>11, <1>12,
     <1>13, <1>14, <1>15 DEF Next, ScanStep

-----------------------------------------------------------------------------
\* A scan step changes one scan, and issued codes stay issued.
LEMMA OtherScans ==
  ASSUME TypeOK, NEW s \in Scan, NEW r, Goes(s, r), NEW t \in Scan
  PROVE  scan'[t] = IF t = s THEN r ELSE scan[t]
BY DEF TypeOK, Goes

\* A claim or an answer leaves the scan neither judging nor claiming.
LEMMA VerdictLeaves ==
  ASSUME TypeOK, NEW s \in Scan, NEW h \in BOOLEAN,
         StatusVerdict(s, h) \/ Answered(s)
  PROVE  \A t \in Scan : scan'[t].step \in {"judge", "claim"}
                           => scan'[t] = scan[t]
<1>1. PICK r \in {Idle} \cup SettlingScan : Goes(s, r)
  BY VerdictGoes DEF Answered
<1>2. r.step \notin {"judge", "claim"}
  BY DEF Idle, SettlingScan
<1> QED
  BY <1>1, <1>2, OtherScans

\* No step takes a code back, and only Issue hands one out.
LEMMA IssuedGrows == [Next]_vars => issued \subseteq issued'
BY DEF Next, ScanStep, ScanQr, Judge, Claim, ClaimUnavailable, ScanAccessCode,
       Settle, ExpireNonce, Issue, Cancel, LateConfirm, OperatorReads,
       OperatorWrites, Tick, CacheRestarts, vars

\* A scan that is judging or claiming after a step was so before it, or is the
\* one that was presented or passed the window check in it.
LEMMA ScanMoves ==
  ASSUME Issuance, [Next]_vars, NEW t \in Scan,
         scan'[t].step \in {"judge", "claim"}, scan'[t] # scan[t]
  PROVE  \/ /\ ScanQr(t)
            /\ scan'[t].step = "judge"
            /\ scan'[t].genuine
                 => \E k \in Secret : <<k, scan'[t].minute>> \in issued
         \/ /\ Judge(t)
            /\ scan[t].genuine
            /\ scan'[t] = Checked(scan[t])
            /\ now <= scan[t].minute + Skew + Drift
<1> USE DEF Issuance
<1>1. ASSUME NEW s \in Scan, ScanQr(s)
      PROVE  s = t /\ scan'[t].step = "judge"
             /\ (scan'[t].genuine
                   => \E k \in Secret : <<k, scan'[t].minute>> \in issued)
  <2>1. PICK p \in issued \cup ({Misread} \X Minute) :
          Goes(s, [step |-> "judge", minute |-> p[2], genuine |-> p[1] = secret,
                   honourable |-> status \in HONOURABLE, at |-> NoTime])
    BY <1>1 DEF ScanQr
  <2> DEFINE r == [step |-> "judge", minute |-> p[2], genuine |-> p[1] = secret,
                   honourable |-> status \in HONOURABLE, at |-> NoTime]
  <2>2. s = t /\ scan'[t] = r
    <3>1. Goes(s, r)
      BY <2>1
    <3> HIDE DEF r
    <3> QED
      BY <3>1, OtherScans
  <2>3. r.minute = p[2] /\ r.step = "judge" /\ (r.genuine <=> p[1] = secret)
    OBVIOUS
  <2>4. p[1] = secret => p \in issued /\ p = <<p[1], p[2]>>
    BY DEF Misread, TypeOK, Secret
  <2> HIDE DEF r
  <2> QED
    BY <2>2, <2>3, <2>4 DEF TypeOK
<1>2. ASSUME NEW s \in Scan, Judge(s)
      PROVE  s = t /\ scan[t].genuine /\ scan'[t] = Checked(scan[t])
             /\ now <= scan[t].minute + Skew + Drift
  <2>1. \/ Goes(s, Idle)
        \/ /\ scan[s].genuine
           /\ Goes(s, Checked(scan[s]))
           /\ now <= scan[s].minute + Skew + Drift
    BY <1>2, WindowGoes DEF Judge, Answered
  <2>2. Idle.step = "idle"
    BY DEF Idle
  <2> QED
    BY <2>1, <2>2, OtherScans
<1>3. ASSUME NEW s \in Scan,
             Claim(s) \/ ClaimUnavailable(s) \/ ScanAccessCode(s) \/ Settle(s)
      PROVE  FALSE
  <2>1. scan[s].step = "claim" => scan[s].honourable \in BOOLEAN
    BY ScanKinds DEF QrScan
  <2>2. (status \in HONOURABLE) \in BOOLEAN
    OBVIOUS
  <2>3. Answered(s) \/ \E h \in BOOLEAN : StatusVerdict(s, h)
    BY <1>3, <2>1, <2>2 DEF Claim, ClaimUnavailable, ScanAccessCode, Settle
  <2> QED
    BY <2>3, VerdictLeaves
<1>4. scan' # scan
  OBVIOUS
<1> QED
  BY <1>1, <1>2, <1>3, <1>4 DEF Next, ScanStep, ExpireNonce, Issue, Cancel,
     LateConfirm, OperatorReads, OperatorWrites, Tick, CacheRestarts, vars

-----------------------------------------------------------------------------
\* Time only moves forward, and not past a scan that is still on its way.
LEMMA TimeMoves ==
  ASSUME Issuance, [Next]_vars
  PROVE  /\ now \in Nat /\ now' \in Nat /\ now <= now'
         /\ \A s \in Scan : scan[s].step = "claim" => now' <= scan[s].at + Latency
<1> USE DEF Issuance
<1>1. now \in 0..MaxTime
  BY DEF TypeOK, Minute
<1>2. \A s \in Scan : scan[s].step = "claim" =>
        scan[s].at \in 0..MaxTime /\ now <= scan[s].at + Latency
  BY DEF ClaimIsTimely, Minute
<1>3. CASE Tick
  BY <1>1, <1>2, <1>3, MinutesAssumption DEF Tick
<1>4. CASE now' = now
  BY <1>1, <1>2, <1>4
<1> QED
  BY <1>3, <1>4 DEF Next, ScanStep, ScanQr, Judge, Claim, ClaimUnavailable,
     ScanAccessCode, Settle, ExpireNonce, Issue, Cancel, LateConfirm,
     OperatorReads, OperatorWrites, CacheRestarts, vars

\* Codes are issued with a clock that is at most Drift fast, and the codes a
\* scan found genuine were issued.
LEMMA GenuineStep == Issuance /\ [Next]_vars => GenuineIsIssued'
<1> SUFFICES ASSUME Issuance, [Next]_vars PROVE GenuineIsIssued'
  OBVIOUS
<1>1. ASSUME NEW p \in issued' PROVE p[2] <= now' + Drift
  <2>1. CASE p \in issued
    <3>1. p[2] <= now + Drift /\ p[2] \in 0..MaxTime
      BY <2>1 DEF Issuance, GenuineIsIssued, TypeOK, Minute
    <3> QED
      BY <3>1, TimeMoves, MinutesAssumption
  <2>2. CASE p \notin issued
    <3>1. Issue
      BY <1>1, <2>2 DEF Next, ScanStep, ScanQr, Judge, Claim, ClaimUnavailable,
         ScanAccessCode, Settle, ExpireNonce, Cancel, LateConfirm, OperatorReads,
         OperatorWrites, Tick, CacheRestarts, vars
    <3>2. PICK c \in Clocks : issued' = issued \cup {<<secret, c>>}
      BY <3>1 DEF Issue
    <3>3. p[2] = c /\ now' = now
      BY <1>1, <2>2, <3>1, <3>2 DEF Issue
    <3>4. c \in 0..MaxTime /\ now \in 0..MaxTime /\ Abs(c - now) <= Drift
      BY DEF Clocks, Minute, Issuance, TypeOK
    <3> QED
      BY <3>3, <3>4, MinutesAssumption DEF Abs
  <2> QED
    BY <2>1, <2>2
<1>2. ASSUME NEW s \in Scan, (scan[s].step = "judge")', (scan[s].genuine)'
      PROVE  (\E k \in Secret : <<k, scan[s].minute>> \in issued)'
  <2>1. CASE scan'[s] = scan[s]
    BY <1>2, <2>1, IssuedGrows DEF Issuance, GenuineIsIssued
  <2>2. CASE scan'[s] # scan[s]
    <3>1. Checked(scan[s]).step = "claim"
      BY DEF Checked
    <3>2. \E k \in Secret : <<k, scan'[s].minute>> \in issued
      BY <1>2, <2>2, <3>1, ScanMoves
    <3> QED
      BY <3>2, IssuedGrows
  <2> QED
    BY <2>1, <2>2
<1> QED
  BY <1>1, <1>2 DEF GenuineIsIssued

\* A scan that passed the window check stays timely until it is answered.
LEMMA ClaimStep == Issuance /\ [Next]_vars => ClaimIsTimely'
<1> SUFFICES ASSUME Issuance, [Next]_vars, NEW s \in Scan, (scan[s].step = "claim")'
             PROVE  /\ scan'[s].at \in Minute
                    /\ now' <= scan'[s].at + Latency
                    /\ scan'[s].at <= scan'[s].minute + Skew + Drift
                    /\ \E k \in Secret : <<k, scan'[s].minute>> \in issued'
  BY DEF ClaimIsTimely
<1>1. CASE scan'[s] = scan[s]
  BY <1>1, TimeMoves, IssuedGrows DEF Issuance, ClaimIsTimely
<1>2. CASE scan'[s] # scan[s]
  <2>1. /\ Judge(s) /\ scan[s].genuine /\ scan'[s] = Checked(scan[s])
        /\ now <= scan[s].minute + Skew + Drift
    BY <1>2, ScanMoves
  <2>2. scan'[s].at = now /\ scan'[s].minute = scan[s].minute
    BY <2>1 DEF Checked
  <2>3. now' = now /\ issued' = issued /\ scan[s].step = "judge"
    BY <2>1 DEF Judge
  <2>4. \E k \in Secret : <<k, scan[s].minute>> \in issued
    BY <2>1, <2>3 DEF Issuance, GenuineIsIssued
  <2>5. now \in Minute /\ now <= now + Latency
    BY MinutesAssumption DEF Issuance, TypeOK, Minute
  <2> QED
    BY <2>1, <2>2, <2>3, <2>4, <2>5
<1> QED
  BY <1>1, <1>2

\* Only a claim sets a nonce.
LEMMA OnlyClaimsSet ==
  ASSUME Issuance, [Next]_vars, NEW m \in Minute, seen'[m] # NoTime,
         seen'[m] # seen[m]
  PROVE  /\ seen[m] = NoTime /\ seen'[m] = now
         /\ \E s \in Scan : scan[s].step = "claim" /\ scan[s].minute = m
<1> USE DEF Issuance
<1>1. ASSUME NEW n \in Minute, ExpireNonce(n) PROVE FALSE
  BY <1>1 DEF ExpireNonce, TypeOK
<1>2. CASE CacheRestarts
  BY <1>2 DEF CacheRestarts
<1>3. ASSUME NEW s \in Scan, Claim(s)
      PROVE  /\ seen[m] = NoTime /\ seen'[m] = now
             /\ scan[s].step = "claim" /\ scan[s].minute = m
  BY <1>3 DEF Claim, TypeOK
<1> QED
  BY <1>1, <1>2, <1>3 DEF Next, ScanStep, ScanQr, Judge, ClaimUnavailable,
     ScanAccessCode, Settle, Issue, Cancel, LateConfirm, OperatorReads,
     OperatorWrites, Tick, vars

\* A nonce is set for an issued code, whose minute is at most Drift ahead.
LEMMA NonceStep == Issuance /\ [Next]_vars => NonceIsRecent'
<1> SUFFICES ASSUME Issuance, [Next]_vars, NEW m \in Minute, seen'[m] # NoTime
             PROVE  /\ m <= seen'[m] + Drift
                    /\ \E k \in Secret : <<k, m>> \in issued'
  BY DEF NonceIsRecent, Minute
<1>1. CASE seen'[m] = seen[m]
  BY <1>1, IssuedGrows DEF Issuance, NonceIsRecent
<1>2. CASE seen'[m] # seen[m]
  <2>1. seen'[m] = now
    BY <1>2, OnlyClaimsSet
  <2>2. PICK k \in Secret : <<k, m>> \in issued
    BY <1>2, OnlyClaimsSet DEF Issuance, ClaimIsTimely
  <2>3. m <= now + Drift
    BY <2>2 DEF Issuance, GenuineIsIssued
  <2> QED
    BY <2>1, <2>2, <2>3, IssuedGrows
<1> QED
  BY <1>1, <1>2

\* A nonce leaves the cache only after every scan for its code is too late.
LEMMA SpentStep ==
  ASSUME Outlives
  PROVE  Inv /\ [Next]_vars => SpentStaysSpent'
<1> SUFFICES ASSUME Inv, [Next]_vars, NEW m \in spent', seen'[m] = NoTime
             PROVE  now' > LastClaim(m)
  BY DEF SpentStaysSpent, LastClaim
<1> USE DEF Inv, Issuance
<1>1. m \in Minute
  BY TypeStep DEF TypeOK, Minute
<1>2. m \in Nat /\ now \in Nat /\ now' \in Nat /\ now <= now'
  BY <1>1, TimeMoves, MinutesAssumption DEF Minute
<1>3. ASSUME NEW s \in Scan, Claim(s) PROVE m \in spent /\ seen[m] = NoTime
  <2>1. scan[s].minute \in Minute /\ now \in Minute /\ now # NoTime
    BY <1>3, ScanKinds, CacheAssumption, <1>2 DEF Claim, QrScan, TypeOK
  <2> QED
    BY <1>1, <1>3, <2>1 DEF Claim, TypeOK
<1>4. ASSUME NEW n \in Minute, ExpireNonce(n), seen[m] # NoTime
      PROVE  now' > LastClaim(m)
  <2>1. n = m /\ now' = now /\ now >= seen[m] + TTL
    BY <1>1, <1>4 DEF ExpireNonce, TypeOK
  <2>2. m <= seen[m] + Drift /\ seen[m] \in Nat
    BY <1>1, <1>4, MinutesAssumption DEF NonceIsRecent, TypeOK, Minute
  <2> QED
    BY <1>2, <2>1, <2>2, MinutesAssumption, Outlives DEF Outlives, LastClaim
<1>5. CASE m \in spent /\ seen[m] = NoTime
  <2>1. now > LastClaim(m)
    BY <1>5 DEF SpentStaysSpent
  <2> QED
    BY <1>2, <2>1, MinutesAssumption DEF LastClaim
<1>6. CASE seen' = seen /\ spent' = spent
  BY <1>5, <1>6
<1> QED
  BY <1>3, <1>4, <1>5, <1>6 DEF Next, ScanStep, ScanQr, Judge,
     ClaimUnavailable, ScanAccessCode, Settle, ExpireNonce, Issue, Cancel,
     LateConfirm, OperatorReads, OperatorWrites, Tick, CacheRestarts, vars

\* No scan can still claim the nonce of a spent code that left the cache.
LEMMA NoSecondClaim ==
  ASSUME Inv, [Next]_vars, NEW m \in spent, seen[m] = NoTime
  PROVE  seen'[m] = NoTime
<1> SUFFICES ASSUME seen'[m] # NoTime PROVE FALSE
  OBVIOUS
<1> USE DEF Inv, Issuance
<1>1. m \in 0..MaxTime /\ now \in 0..MaxTime
  BY DEF TypeOK, Minute
<1>2. PICK s \in Scan : scan[s].step = "claim" /\ scan[s].minute = m
  BY <1>1, OnlyClaimsSet DEF Minute
<1>3. /\ scan[s].at \in 0..MaxTime
      /\ now <= scan[s].at + Latency
      /\ scan[s].at <= m + Skew + Drift
  BY <1>2 DEF ClaimIsTimely, Minute
<1>4. now > LastClaim(m)
  BY DEF SpentStaysSpent
<1> QED
  BY <1>1, <1>3, <1>4, MinutesAssumption DEF LastClaim

-----------------------------------------------------------------------------
(* Results.                                                                 *)

\* Issuance needs neither a long TTL nor a reliable cache.
LEMMA IssuanceStep == Issuance /\ [Next]_vars => Issuance'
BY TypeStep, GenuineStep, ClaimStep, NonceStep DEF Issuance

\* Invariance, when the nonce outlives the code.
LEMMA Inductive ==
  ASSUME Outlives
  PROVE  Inv /\ [Next]_vars => Inv'
BY IssuanceStep, SpentStep DEF Inv

\* The model is well typed, whatever the constants.
THEOREM TypeCorrect == Spec => []TypeOK
<1>1. Init => TypeOK
  BY InitInv DEF Inv, Issuance
<1> QED
  BY <1>1, TypeStep, PTL DEF Spec

\* A nonce in the cache is that of a code that was issued: neither a misread
\* code nor one of another secret ever spends it.
THEOREM OnlyIssuedCodesBurnAlways == Spec => []OnlyIssuedCodesBurn
<1>1. Init => Issuance
  BY InitInv DEF Inv
<1>2. Issuance => OnlyIssuedCodesBurn
  BY DEF Issuance, NonceIsRecent, OnlyIssuedCodesBurn
<1> QED
  BY <1>1, <1>2, IssuanceStep, PTL DEF Spec

\* A rotating code is accepted at most once, for every number of barriers, when
\* the TTL outlives the skew window, twice the clock drift and the latency.
THEOREM CodeRedeemedOnce ==
  ASSUME Outlives
  PROVE  Spec => RedeemedOnce
<1>1. Inv /\ [Next]_vars
        => [\A m \in spent : seen[m] = NoTime => seen'[m] = NoTime]_vars
  BY NoSecondClaim
<1>2. Inv /\ [Next]_vars => Inv'
  BY Inductive
<1> QED
  BY <1>1, <1>2, InitInv, PTL DEF Spec, RedeemedOnce

-----------------------------------------------------------------------------
(* The check-in.                                                            *)

\* The inductive form of PerformedOnce: a confirmation is worth one check-in, which is
\* performed, still to come, or was taken by the operator or a cancellation.
ConfirmationIsWorthOne ==
  performed + (IF status = "CONFIRMED" THEN 1 ELSE 0) <= (IF late THEN 1 ELSE 2)

\* Only a settled scan performs a check-in, and it takes the confirmation away; only
\* the late confirmation gives one, and it comes once.
LEMMA WorthStep ==
  TypeOK /\ ConfirmationIsWorthOne /\ [Next]_vars => ConfirmationIsWorthOne'
<1> SUFFICES ASSUME TypeOK, ConfirmationIsWorthOne, [Next]_vars
             PROVE  ConfirmationIsWorthOne'
  OBVIOUS
<1> USE DEF ConfirmationIsWorthOne
<1>0. performed \in Nat /\ late \in BOOLEAN
  BY DEF TypeOK
<1>1. ASSUME NEW s \in Scan, Settle(s) PROVE ConfirmationIsWorthOne'
  BY <1>0, <1>1 DEF Settle
<1>2. CASE LateConfirm
  BY <1>0, <1>2 DEF LateConfirm
<1>3. CASE Cancel
  BY <1>0, <1>3 DEF Cancel
<1>4. CASE OperatorWrites
  BY <1>0, <1>4 DEF OperatorWrites
<1>5. CASE UNCHANGED <<performed, status, late>>
  BY <1>5
<1> QED
  BY <1>1, <1>2, <1>3, <1>4, <1>5 DEF Next, ScanStep, ScanQr, Judge, Claim,
     ClaimUnavailable, ScanAccessCode, ExpireNonce, Issue, OperatorReads, Tick,
     CacheRestarts, vars

\* A booking is checked in by a scan at most once per confirmation, for every number of
\* scans and barriers, and even if Redis loses its keys.
THEOREM CheckInPerformedOnce == Spec => []PerformedOnce
<1>1. Init => TypeOK /\ ConfirmationIsWorthOne
  BY InitInv DEF Inv, Issuance, Init, ConfirmationIsWorthOne
<1>2. TypeOK /\ ConfirmationIsWorthOne => PerformedOnce
  BY DEF TypeOK, ConfirmationIsWorthOne, PerformedOnce
<1> QED
  BY <1>1, <1>2, TypeStep, WorthStep, PTL DEF Spec
=============================================================================
