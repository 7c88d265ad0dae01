------------------------------- MODULE Pricing -------------------------------
(***************************************************************************)
(* The price of a stay: a draft schedule is validated when it is written   *)
(* (schedule-validation.ts) and priced minute by minute when it is quoted, *)
(* simulated or settled (pricing-engine.ts, priceStay).                    *)
(*                                                                         *)
(* One behaviour validates one draft and prices one stay; an iteration of  *)
(* the pricing loop is one step.  The week has Days days of DayMinutes     *)
(* minutes (7 and 1440 in the code) so that every stay meets the edges of  *)
(* a day.  A stay starts on a minute of the week; its length is in ticks,  *)
(* Tick to a minute, for the code rounds part of a minute up.  The clocks  *)
(* may change under the stay: from its minute "turn" on the wall clock is  *)
(* "shift" minutes further.  Tiers and windows are known by their place in *)
(* the draft, where the code has ids.  Which plan prices a stay, and       *)
(* whether it is still the plan that was quoted, is Catalogue's subject.   *)
(***************************************************************************)
EXTENDS Integers, Sequences, FiniteSets, FiniteSetsExt, Functions

CONSTANTS
  CompilableDraft,  \* the drafts a caller may submit
  Stay,             \* the stays to price
  Perk,             \* booking discounts of riders, in parts of Whole, or Null
  Commission,       \* the platform's take, in parts of Whole
  Days,             \* days of a week
  DayMinutes,       \* minutes of a day
  Tick,             \* ticks of a minute
  Whole,            \* basis points of the whole amount
  MaxBillable,      \* MAX_BILLABLE_MINUTES
  Null

Unit == {"PER_MINUTE", "PER_BLOCK", "FLAT"}
Tier == [from : Nat, to : Nat \cup {Null}, unit : Unit, block : Nat \cup {Null}]
Window == [days : SUBSET (0 .. Days - 1), start : 0 .. DayMinutes - 1,
           end : 0 .. DayMinutes]
Rate == [tier : Nat, window : Nat, cents : Nat]
Cap == [scope : {"STAY", "ROLLING"}, minutes : Nat \ {0}, cents : Nat \ {0}]

ASSUME ClockAssumption ==
  /\ Days \in Nat \ {0} /\ DayMinutes \in Nat \ {0}
  /\ Tick \in Nat \ {0} /\ Whole \in Nat \ {0} /\ MaxBillable \in Nat
  /\ Null \notin Nat

ASSUME ScheduleAssumption ==
  \A d \in CompilableDraft :
    /\ DOMAIN d = {"tiers", "windows", "rates", "caps", "grace", "increment"}
    /\ d.tiers \in Seq(Tier) /\ d.windows \in Seq(Window)
    /\ d.rates \in Seq(Rate) /\ d.caps \in Seq(Cap)
    /\ d.grace \in Nat /\ d.increment \in Nat \ {0}

ASSUME StayAssumption ==
  /\ Stay \subseteq [start : Nat, ticks : Nat, turn : Nat, shift : Int]
  /\ Perk \subseteq (0 .. Whole) \cup {Null}
  /\ Commission \subseteq 0 .. Whole

VARIABLES
  phase,     \* where the request is; "refused" is an answer to the caller
  draft,     \* the schedule
  stay,      \* the stay
  perk,      \* bookingDiscountBps
  take,      \* commissionBps
  billable,  \* minutes to bill
  cursor,    \* the minute of the stay the loop has reached
  charges,   \* RawCharge[]
  result     \* PriceResult, Null before there is one

pricingVars == <<phase, draft, stay, perk, take, billable, cursor, charges, result>>
request == <<draft, stay, perk, take>>

Phase == {"drafted", "accepted", "charging", "priced", "refused"}
-----------------------------------------------------------------------------
(* Validation of a draft.                                                  *)

\* Sorted by its first minute, each tier ends where the next one starts, and only
\* the last is open-ended.
Tiled(ts) ==
  \E order \in [1 .. Len(ts) -> DOMAIN ts] :
    /\ \A i \in DOMAIN ts : \E p \in 1 .. Len(ts) : order[p] = i
    /\ \A i \in 1 .. Len(ts) : i = 1 => ts[order[i]].from = 0
    /\ \A i \in 1 .. Len(ts) :
         LET tier == ts[order[i]]
         IN  IF i = Len(ts)
               THEN tier.to = Null
               ELSE /\ tier.to \in Nat /\ tier.to > tier.from
                    /\ ts[order[i + 1]].from = tier.to

ValidTiers(ts) ==
  /\ Len(ts) > 0
  /\ Tiled(ts)
  /\ \A i \in DOMAIN ts :
       ts[i].unit = "PER_BLOCK" => ts[i].block \in Nat /\ ts[i].block > 0

\* The stretches of a day a window is expanded into; one that ends no later than it
\* starts wraps past midnight.
Segments(w) ==
  IF w.end > w.start
    THEN {<<w.start, w.end>>}
    ELSE {<<w.start, DayMinutes>>} \cup (IF w.end > 0 THEN {<<0, w.end>>} ELSE {})

InSegments(w, day, minute) ==
  /\ day \in w.days
  /\ \E s \in Segments(w) : s[1] <= minute /\ minute < s[2]

\* On every weekday the segments cover every minute exactly once.
ValidWindows(ws) ==
  \A day \in 0 .. Days - 1, minute \in 0 .. DayMinutes - 1 :
    /\ \E i \in DOMAIN ws : InSegments(ws[i], day, minute)
    /\ \A i, j \in DOMAIN ws :
         InSegments(ws[i], day, minute) /\ InSegments(ws[j], day, minute) => i = j

\* One rate for every tier and window, and none for anything else.
ValidRates(d) ==
  /\ \A k \in DOMAIN d.rates : d.rates[k].tier \in DOMAIN d.tiers
                               /\ d.rates[k].window \in DOMAIN d.windows
  /\ \A k, l \in DOMAIN d.rates :
       d.rates[k].tier = d.rates[l].tier /\ d.rates[k].window = d.rates[l].window
         => k = l
  /\ \A i \in DOMAIN d.tiers, j \in DOMAIN d.windows :
       \E k \in DOMAIN d.rates : d.rates[k].tier = i /\ d.rates[k].window = j

Valid(d) == ValidTiers(d.tiers) /\ ValidWindows(d.windows) /\ ValidRates(d)

Validate ==
  /\ phase = "drafted"
  /\ phase' = IF Valid(draft) THEN "accepted" ELSE "refused"
  /\ UNCHANGED <<request, billable, cursor, charges, result>>
-----------------------------------------------------------------------------
(* What is billed.                                                         *)

CeilDiv(a, b) == (a + b - 1) \div b

CeilToIncrement(minutes, increment) ==
  IF increment <= 1 THEN minutes ELSE CeilDiv(minutes, increment) * increment

Billable(s, d) ==
  LET raw == CeilDiv(s.ticks, Tick)
  IN  CeilToIncrement(IF raw > d.grace THEN raw - d.grace ELSE 0, d.increment)

Free == [lines |-> <<>>, adjustment |-> 0, discount |-> 0, total |-> 0, commission |-> 0]

\* The caller refuses a stay that does not end after it starts, the engine one that is
\* too long; a stay within the grace period is free.
Measure ==
  /\ phase = "accepted"
  /\ LET b == Billable(stay, draft)
     IN  \/ /\ stay.ticks = 0
            /\ phase' = "refused" /\ UNCHANGED <<billable, result>>
         \/ /\ stay.ticks > 0 /\ b > MaxBillable
            /\ phase' = "refused" /\ UNCHANGED <<billable, result>>
         \/ /\ stay.ticks > 0 /\ b = 0
            /\ phase' = "priced" /\ result' = Free /\ billable' = 0
         \/ /\ stay.ticks > 0 /\ b <= MaxBillable /\ b # 0
            /\ phase' = "charging" /\ billable' = b /\ UNCHANGED result
  /\ UNCHANGED <<request, cursor, charges>>
-----------------------------------------------------------------------------
(* The pricing loop.                                                       *)

TierAt(ts, m) ==
  {i \in DOMAIN ts : ts[i].from <= m /\ (ts[i].to = Null \/ m < ts[i].to)}

\* The minute of the week the wall clock shows at minute m of the stay.
Wall(s, m) ==
  (s.start + m + (IF m >= s.turn THEN s.shift ELSE 0)) % (Days * DayMinutes)

\* Mutant of Inside: a window that wraps past midnight loses its morning.
InsideUnwrapped(w, minute) ==
  minute >= w.start /\ (w.end > w.start => minute < w.end)

Inside(w, minute) ==
  IF w.end > w.start
    THEN minute >= w.start /\ minute < w.end
    ELSE minute >= w.start \/ minute < w.end

WindowAt(ws, wall) ==
  {j \in DOMAIN ws : /\ (wall \div DayMinutes) \in ws[j].days
                     /\ Inside(ws[j], wall % DayMinutes)}

PricesOf(d, i, j) ==
  {k \in DOMAIN d.rates : d.rates[k].tier = i /\ d.rates[k].window = j}

TierEnd(tier) == IF tier.to = Null THEN billable ELSE tier.to

Block(tier) ==
  CASE tier.unit = "FLAT" -> TierEnd(tier) - tier.from
    [] tier.unit = "PER_BLOCK" -> IF tier.block = Null THEN 0 ELSE tier.block
    [] OTHER -> 1

Least(a, b) == IF a <= b THEN a ELSE b

Span(tier) == Least(Least(Block(tier), billable - cursor), TierEnd(tier) - cursor)

\* Tier i, window j and rate k price the charge at the cursor: "find" takes the first
\* tier and the first window, and a valid schedule has one of each.
PricedBy(i, j, k) ==
  /\ i \in TierAt(draft.tiers, cursor)
  /\ Span(draft.tiers[i]) > 0
  /\ j \in WindowAt(draft.windows, Wall(stay, cursor))
  /\ k \in PricesOf(draft, i, j)

Advance(tier) == IF tier.unit = "FLAT" THEN TierEnd(tier) ELSE cursor + Span(tier)

\* One iteration.  Where nothing prices the charge the code throws
\* NoApplicableTariffError and the stay has no price: EveryStayIsPriced rules that out,
\* so it has no step here.
Charge ==
  /\ phase = "charging" /\ cursor < billable
  /\ \E i \in DOMAIN draft.tiers, j \in DOMAIN draft.windows, k \in DOMAIN draft.rates :
       LET tier  == draft.tiers[i]
           cents == draft.rates[k].cents
       IN  /\ PricedBy(i, j, k)
           /\ charges' = Append(charges,
                [at |-> cursor, minutes |-> Span(tier), tier |-> i, window |-> j,
                 cents |-> IF tier.unit = "PER_MINUTE" THEN Span(tier) * cents ELSE cents])
           /\ cursor' = Advance(tier)
  /\ UNCHANGED <<phase, request, billable, result>>

-----------------------------------------------------------------------------
(* The bill.                                                              *)

CentsOf(S) == SumFunction([n \in S |-> charges[n].cents])

\* Mutant of Bucket: a charge falls into the bucket it ends in.
BucketOfEnd(n, cap) == (charges[n].at + charges[n].minutes) \div cap.minutes

Bucket(n, cap) == charges[n].at \div cap.minutes

\* What a cap leaves of the raw total: a rolling one clamps each of its buckets.
CappedBy(cap) ==
  IF cap.scope = "STAY"
    THEN Least(CentsOf(DOMAIN charges), cap.cents)
    ELSE SumFunction([b \in {Bucket(n, cap) : n \in DOMAIN charges} |->
           Least(CentsOf({n \in DOMAIN charges : Bucket(n, cap) = b}), cap.cents)])

Capped ==
  Min({CentsOf(DOMAIN charges)} \cup {CappedBy(draft.caps[c]) : c \in DOMAIN draft.caps})

\* Math.round of a share of an amount: a half is rounded up.
ShareOf(amount, bps) == (2 * amount * bps + Whole) \div (2 * Whole)

DiscountOn(amount, bps) ==
  IF bps \in {Null, 0} \/ amount <= 0 THEN 0 ELSE Least(amount, ShareOf(amount, bps))

\* Mutant of Discount: the discount is taken before the caps.
DiscountOfRaw == Least(Capped, DiscountOn(CentsOf(DOMAIN charges), perk))

Discount == DiscountOn(Capped, perk)

\* coalesce: one line for each cell; their order is layout.
Lines ==
  LET cells == {<<charges[n].tier, charges[n].window>> : n \in DOMAIN charges}
  IN  [c \in cells |->
         CentsOf({n \in DOMAIN charges : <<charges[n].tier, charges[n].window>> = c})]

Total ==
  /\ phase = "charging" /\ cursor >= billable
  /\ phase' = "priced"
  /\ result' = [lines      |-> Lines,
                adjustment |-> Capped - CentsOf(DOMAIN charges),
                discount   |-> Discount,
                total      |-> Capped - Discount,
                commission |-> ShareOf(Capped - Discount, take)]
  /\ UNCHANGED <<request, billable, cursor, charges>>
-----------------------------------------------------------------------------
PricingInit ==
  /\ draft \in CompilableDraft /\ stay \in Stay /\ perk \in Perk /\ take \in Commission
  /\ phase = "drafted" /\ billable = 0 /\ cursor = 0 /\ charges = <<>> /\ result = Null

PricingNext == Validate \/ Measure \/ Charge \/ Total

PricingSpec == PricingInit /\ [][PricingNext]_pricingVars
-----------------------------------------------------------------------------
(* Properties.                                                             *)

\* The variables have their types; those of the request never change.
PricingTypeOK ==
  /\ phase \in Phase
  /\ billable \in 0 .. MaxBillable /\ cursor \in Nat
  /\ charges \in Seq([at : Nat, minutes : Nat, tier : Nat, window : Nat, cents : Nat])

\* What the write path accepts the priced path can price: no stay, wherever it starts,
\* however long it is and whatever the clocks do meanwhile, ends without an applicable
\* tier, window or rate (schedule-validation.ts: "keeps that runtime failure off the
\* priced path").
EveryStayIsPriced ==
  phase = "charging" /\ cursor < billable =>
    \E i \in DOMAIN draft.tiers, j \in DOMAIN draft.windows, k \in DOMAIN draft.rates :
      PricedBy(i, j, k)

\* The schedule read declaratively.  A charge starts at every minute of a per-minute
\* tier, at the first minute of a flat one and at every block of the others; it costs
\* the rate of the window its first minute falls in.
TierOf(d, m) == CHOOSE i \in TierAt(d.tiers, m) : TRUE
Begins(tier, m) ==
  CASE tier.unit = "FLAT" -> m = tier.from
    [] tier.unit = "PER_BLOCK" -> (m - tier.from) % tier.block = 0
    [] OTHER -> TRUE
Starts(d, n) == {m \in 0 .. n - 1 : Begins(d.tiers[TierOf(d, m)], m)}
WindowOf(d, wall) ==
  CHOOSE j \in DOMAIN d.windows :
    InSegments(d.windows[j], wall \div DayMinutes, wall % DayMinutes)
RateAt(d, s, m) ==
  d.rates[CHOOSE k \in PricesOf(d, TierOf(d, m), WindowOf(d, Wall(s, m))) : TRUE].cents
Owed(d, s, S) == SumFunction([m \in S |-> RateAt(d, s, m)])
OwedUnder(d, s, cap, n) ==
  IF cap.scope = "STAY"
    THEN Least(Owed(d, s, Starts(d, n)), cap.cents)
    ELSE SumFunction([b \in 0 .. n |->
           Least(Owed(d, s, Starts(d, n)
                              \cap (b * cap.minutes .. (b + 1) * cap.minutes - 1)),
                 cap.cents)])
BeforePerk(d, s, n) ==
  Min({Owed(d, s, Starts(d, n))} \cup {OwedUnder(d, s, d.caps[c], n) : c \in DOMAIN d.caps})
Due(d, s, bps, n) == BeforePerk(d, s, n) - DiscountOn(BeforePerk(d, s, n), bps)

\* The loop charges what the schedule says, no more and no less; the lines the driver
\* is shown add up to the total, which is never negative, and the platform takes no
\* more than it.
BillIsTheSchedule ==
  phase = "priced" =>
    /\ result.total = Due(draft, stay, perk, billable)
    /\ result.total = SumFunction(result.lines)
                      + result.adjustment - result.discount
    /\ result.total >= 0 /\ result.commission \in 0 .. result.total

\* Leaving a minute later never makes the stay cheaper: neither the rounding, the caps,
\* the change of tier or window nor the discount reward an overstay.
LongerCostsNoLess ==
  phase = "priced" =>
    \A t \in 0 .. stay.ticks :
      result.total >= Due(draft, stay, perk, Billable([stay EXCEPT !.ticks = t], draft))
=============================================================================
