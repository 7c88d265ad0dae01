------------------------------- MODULE Ticket -------------------------------
(***************************************************************************)
(* Admission at the barrier for one booking (src/booking/ticket.service.ts, *)
(* qr-ticket.ts, qr-replay.cache.ts): the rotating QR code, the access-code *)
(* fallback, the replay cache in Redis, and the operator's own check-in.    *)
(*                                                                          *)
(* Time is counted in whole minutes, the unit of the code.  API instances   *)
(* read clocks that differ from true time by at most Drift; a scan that     *)
(* passed the window check reaches Redis within Latency.  A signature is    *)
(* modelled by the secret it was made with.                                 *)
(***************************************************************************)
EXTENDS Integers, FiniteSets

CONSTANTS Scan,          \* scan requests that may be in flight together
          Skew,          \* QR_SKEW_MINUTES
          TTL,           \* QR_REPLAY_TTL_SECONDS, in minutes
          Drift,         \* how far an instance's clock is off
          Latency,       \* how long a scan may take from window check to Redis
          MaxTime,       \* bound on the clock
          MaxIssued,     \* bound on the codes handed out
          NoTime         \* the minute of a nonce that is not in the cache

ASSUME MinutesAssumption == /\ Skew \in Nat /\ TTL \in Nat /\ Drift \in Nat
                            /\ Latency \in Nat /\ MaxTime \in Nat
                            /\ MaxIssued \in Nat
ASSUME CacheAssumption == NoTime \notin Nat

VARIABLES now,       \* true time
          status,    \* Booking.status
          secret,    \* Booking.qrSecret
          late,      \* a second confirming transaction has yet to commit
          issued,    \* payloads handed to the customer
          seen,      \* Redis: when the nonce of a minute was set
          scan,      \* the scans in flight
          gate,      \* what the operator's own check-in is about to write
          spent,     \* history: minutes claimed since Redis last lost its keys
          performed  \* history: check-ins performed by scans

vars == <<now, status, secret, late, issued, seen, scan, gate, spent,
          performed>>

Minute == 0..MaxTime
Secret == {1, 2}
Misread == 0            \* the signature of a code that was not read correctly
Status == {"CONFIRMED", "CHECKED_IN", "CHECKED_OUT", "REFUND_PENDING"}
HONOURABLE == {"CONFIRMED", "CHECKED_IN"}

Idle == [step |-> "idle"]
\* A scan holds what it learnt from the snapshot it resolved (the signature is
\* that of the booking's secret, the status can be honoured) and the instant of
\* its window check.
QrScan == [step : {"judge", "claim"}, minute : Minute, genuine : BOOLEAN,
           honourable : BOOLEAN, at : Minute \cup {NoTime}]
SettlingScan == [step : {"settle"}, auto : BOOLEAN]

TypeOK ==
  /\ now \in Minute
  /\ status \in Status
  /\ secret \in Secret
  /\ late \in BOOLEAN
  /\ issued \subseteq Secret \X Minute
  /\ seen \in [Minute -> Minute \cup {NoTime}]
  /\ scan \in [Scan -> {Idle} \cup QrScan \cup SettlingScan]
  /\ gate \in {"idle", "admit", "leave"}
  /\ spent \subseteq Minute
  /\ performed \in Nat

Abs(n) == IF n < 0 THEN -n ELSE n

\* What a clock that is off by at most Drift may show.
Clocks == {c \in Minute : Abs(c - now) <= Drift}

withinSkewWindow(minute, serverMinute) == Abs(serverMinute - minute) <= Skew

-----------------------------------------------------------------------------
(* The customer's app and the booking's other writers.                      *)

Issue ==
  /\ status \in HONOURABLE
  /\ Cardinality(issued) < MaxIssued
  /\ \E c \in Clocks : issued' = issued \cup {<<secret, c>>}
  /\ UNCHANGED <<now, status, secret, late, seen, scan, gate, spent,
                 performed>>

\* Phase 1 of the refunding cancel.
Cancel ==
  /\ status = "CONFIRMED"
  /\ status' = "REFUND_PENDING"
  /\ UNCHANGED <<now, secret, late, issued, seen, scan, gate, spent,
                 performed>>

\* A confirming transaction that read PENDING_PAYMENT before another one
\* confirmed the booking, and commits after it with a secret of its own.
LateConfirm ==
  /\ late
  /\ late' = FALSE
  /\ status' = "CONFIRMED"
  /\ secret' = 2
  /\ UNCHANGED <<now, issued, seen, scan, gate, spent, performed>>

\* transitionByOperator and checkOut: the status is read, then written.
OperatorReads ==
  /\ gate = "idle"
  /\ \/ status = "CONFIRMED" /\ gate' = "admit"
     \/ status = "CHECKED_IN" /\ gate' = "leave"
  /\ UNCHANGED <<now, status, secret, late, issued, seen, scan, spent,
                 performed>>

OperatorWrites ==
  /\ gate # "idle"
  /\ status' = IF gate = "admit" THEN "CHECKED_IN" ELSE "CHECKED_OUT"
  /\ gate' = "idle"
  /\ UNCHANGED <<now, secret, late, issued, seen, scan, spent, performed>>

-----------------------------------------------------------------------------
(* A scan.                                                                  *)

Goes(s, record) == scan' = [scan EXCEPT ![s] = record]
Answered(s) == Goes(s, Idle)

\* verifyQr resolves the booking named by the payload.
ScanQr(s) ==
  /\ scan[s] = Idle
  /\ \E p \in issued \cup ({Misread} \X Minute) :
       Goes(s, [step |-> "judge", minute |-> p[2], genuine |-> p[1] = secret,
                honourable |-> status \in HONOURABLE, at |-> NoTime])
  /\ UNCHANGED <<now, status, secret, late, issued, seen, gate, spent,
                 performed>>

Checked(record) == [step |-> "claim", minute |-> record.minute,
                    genuine |-> record.genuine,
                    honourable |-> record.honourable, at |-> now]

\* Freshness by the instance's own clock.
InWindow(s) ==
  \E c \in Clocks :
    \/ ~withinSkewWindow(scan[s].minute, c) /\ Answered(s)
    \/ /\ withinSkewWindow(scan[s].minute, c)
       /\ Goes(s, Checked(scan[s]))

\* Authenticity, then freshness, before the nonce is touched.
Judge(s) ==
  /\ scan[s].step = "judge"
  /\ IF scan[s].genuine THEN InWindow(s) ELSE Answered(s)
  /\ UNCHANGED <<now, status, secret, late, issued, seen, gate, spent,
                 performed>>

\* statusVerdict on the snapshot; only a valid ticket goes on to settle.
StatusVerdict(s, honourable) ==
  IF honourable
  THEN \E auto \in BOOLEAN : Goes(s, [step |-> "settle", auto |-> auto])
  ELSE Answered(s)

\* SET NX EX: the first scan of a minute sets its nonce, the others are replays.
Claim(s) ==
  /\ scan[s].step = "claim"
  /\ LET m == scan[s].minute
     IN \/ /\ seen[m] = NoTime
           /\ seen' = [seen EXCEPT ![m] = now]
           /\ spent' = spent \cup {m}
           /\ StatusVerdict(s, scan[s].honourable)
        \/ /\ seen[m] # NoTime
           /\ Answered(s)
           /\ UNCHANGED <<seen, spent>>
  /\ UNCHANGED <<now, status, secret, late, issued, gate, performed>>

\* Redis cannot answer: the scan is refused.
ClaimUnavailable(s) ==
  /\ scan[s].step = "claim"
  /\ Answered(s)
  /\ UNCHANGED <<now, status, secret, late, issued, seen, gate, spent,
                 performed>>

\* verifyAccessCode consumes no nonce.
ScanAccessCode(s) ==
  /\ scan[s] = Idle
  /\ StatusVerdict(s, status \in HONOURABLE)
  /\ UNCHANGED <<now, status, secret, late, issued, seen, gate, spent,
                 performed>>

\* Mutant of Settle: without the compare-and-set on the status.
SettleBlindly(s) ==
  /\ scan[s].step = "settle"
  /\ \/ /\ ~scan[s].auto
        /\ Answered(s)
        /\ UNCHANGED <<status, performed>>
     \/ /\ scan[s].auto
        /\ status' = "CHECKED_IN"
        /\ performed' = performed + 1
        /\ Answered(s)
  /\ UNCHANGED <<now, secret, late, issued, seen, gate, spent>>

\* settle and checkIn: a compare-and-set on the locked row.
Settle(s) ==
  /\ scan[s].step = "settle"
  /\ \/ /\ ~scan[s].auto
        /\ Answered(s)
        /\ UNCHANGED <<status, performed>>
     \/ /\ scan[s].auto /\ status = "CONFIRMED"
        /\ status' = "CHECKED_IN"
        /\ performed' = performed + 1
        /\ Answered(s)
     \/ /\ scan[s].auto /\ status # "CONFIRMED"
        /\ Answered(s)
        /\ UNCHANGED <<status, performed>>
  /\ UNCHANGED <<now, secret, late, issued, seen, gate, spent>>

-----------------------------------------------------------------------------
(* Time and the cache.                                                      *)

Tick ==
  /\ now < MaxTime
  /\ \A s \in Scan : scan[s].step = "claim" => now < scan[s].at + Latency
  /\ now' = now + 1
  /\ UNCHANGED <<status, secret, late, issued, seen, scan, gate, spent,
                 performed>>

\* Mutant of ExpireNonce: a nonce kept for the skew window only.
ExpireEarly(m) ==
  /\ seen[m] # NoTime
  /\ now >= seen[m] + Skew
  /\ seen' = [seen EXCEPT ![m] = NoTime]
  /\ UNCHANGED <<now, status, secret, late, issued, scan, gate, spent,
                 performed>>

ExpireNonce(m) ==
  /\ seen[m] # NoTime
  /\ now >= seen[m] + TTL
  /\ seen' = [seen EXCEPT ![m] = NoTime]
  /\ UNCHANGED <<now, status, secret, late, issued, scan, gate, spent,
                 performed>>

\* Redis restarts without its keys.
CacheRestarts ==
  /\ seen' = [m \in Minute |-> NoTime]
  /\ spent' = {}
  /\ UNCHANGED <<now, status, secret, late, issued, scan, gate, performed>>

-----------------------------------------------------------------------------
Init == /\ now = 0 /\ status = "CONFIRMED" /\ secret = 1 /\ late = TRUE
        /\ issued = {} /\ seen = [m \in Minute |-> NoTime]
        /\ scan = [s \in Scan |-> Idle] /\ gate = "idle"
        /\ spent = {} /\ performed = 0

ScanStep(s) == \/ ScanQr(s) \/ Judge(s) \/ Claim(s) \/ ClaimUnavailable(s)
               \/ ScanAccessCode(s) \/ Settle(s)

Next == \/ \E s \in Scan : ScanStep(s)
        \/ \E m \in Minute : ExpireNonce(m)
        \/ Issue \/ Cancel \/ LateConfirm \/ OperatorReads \/ OperatorWrites
        \/ Tick \/ CacheRestarts

Spec == Init /\ [][Next]_vars

-----------------------------------------------------------------------------
(* Properties.                                                              *)

\* What the nonce has to outlive: from the earliest claim of a code, by an
\* instance that issued it with a fast clock, to the latest, by one that checked
\* the window with a slow clock and took long to reach Redis.
Outlives == TTL > Skew + 2 * Drift + Latency

\* While Redis keeps its keys a rotating code is accepted once, however many
\* barriers scan it, however late a scan reaches the cache and however the
\* instances' clocks disagree: its nonce outlives every clock that could still
\* find the code fresh.
RedeemedOnce ==
  [][\A m \in spent : seen[m] = NoTime => seen'[m] = NoTime]_vars

\* A code that was not issued never spends the nonce a genuine code needs.
OnlyIssuedCodesBurn ==
  \A m \in Minute : seen[m] # NoTime => \E k \in Secret : <<k, m>> \in issued

\* One check-in by scan per confirmation: scans racing on one ticket, with each
\* other or with the operator's own check-in, perform it once, by whichever path,
\* and whether or not the cache kept its keys.  The operator's own check-in is not
\* counted: it writes by id what it decided on a status read before
\* (booking.service.ts:958-979), so that it may repeat one a scan has performed.
PerformedOnce == performed <= (IF late THEN 1 ELSE 2)
=============================================================================
