SPECIFICATION PricingSpec
CONSTANTS
  CompilableDraft <- MCDraft
  Stay <- MCStay
  Perk = {Null, 5}
  Commission = {3}
  Days = 2
  DayMinutes = 3
  Tick = 2
  Whole = 10
  MaxBillable = 6
  Null = Null
CHECK_DEADLOCK FALSE
INVARIANTS
  EveryStayIsPriced
  BillIsTheSchedule
  LongerCostsNoLess
